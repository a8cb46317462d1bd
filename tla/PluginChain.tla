---------------------------- MODULE PluginChain ----------------------------
(***************************************************************************)
(* The plugin chain of a route, run by concurrent requests: the pre-       *)
(* request pass that any plugin may abort, the upstream, the response pass *)
(* that nothing aborts, and the external plugins among the chain's members *)
(* with their breaker, their on_error policy and their health loop.        *)
(*                                                                         *)
(* A plugin is its position in the chain, ordered by Registry.Build.  A    *)
(* built-in plugin does as it likes: it returns nil, an AbortError or      *)
(* another error, or panics.  A sidecar that is up answers every call and  *)
(* health check with 200; one that is down fails them or answers with      *)
(* another status, which the gateway treats alike.  health_path is the     *)
(* default, the only path the health loop asks for.                        *)
(***************************************************************************)
EXTENDS Breaker

CONSTANTS
    Requests,       \* goroutines that serve requests of the route
    Length,         \* plugins in the chain
    External,       \* positions of the external ones
    OnErrorConfigs  \* values of on_error in the config, "" when it is unset

(* on_error is any string: the validator does not look at it.              *)
ASSUME ChainAssumption ==
    /\ Length \in Nat
    /\ External \subseteq 1 .. Length
    /\ OnErrorConfigs \subseteq STRING
    /\ "not loaded" \notin OnErrorConfigs

VARIABLES
    loaded,     \* external plugin -> its policy and whether its payload marshals
    refused,    \* Load failed: the gateway does not start
    cb,         \* external plugin -> its breaker
    check,      \* external plugin -> result of the health check in progress
    up,         \* external plugin -> its sidecar answers
    gone,       \* requests whose context is done
    req,        \* request -> where in the pipeline it is
    say         \* auxiliary: request -> plugin -> what it said to the request

vars == <<loaded, refused, cb, check, up, gone, req, say>>

Plugins == 1 .. Length

Policies == {"pass"} \cup (OnErrorConfigs \ {""})

NotLoaded == [policy |-> "not loaded", marshals |-> FALSE]

Idle == [phase |-> "idle", at |-> 0, calling |-> FALSE, aborted |-> FALSE]

Silent == [p \in Plugins |-> "nothing"]

Init ==
    /\ loaded = [p \in External |-> NotLoaded]
    /\ refused = FALSE
    /\ cb = [p \in External |-> NewBreaker]
    /\ check = [p \in External |-> "none"]
    /\ up \in [External -> BOOLEAN]
    /\ gone = {}
    /\ req = [r \in Requests |-> Idle]
    /\ say = [r \in Requests |-> Silent]

Serving == ~refused /\ \A p \in External : loaded[p] # NotLoaded

pluginVars == <<loaded, refused>>
worldVars  == <<up, gone>>

-----------------------------------------------------------------------------
(* Load: manifest, SDK version, startup health check, then the defaults.   *)
Load(p) ==
    /\ ~refused /\ loaded[p] = NotLoaded /\ up[p]
    /\ \E onError \in OnErrorConfigs, marshals \in BOOLEAN :
          loaded' = [loaded EXCEPT ![p] =
                        [policy   |-> IF onError = "" THEN "pass" ELSE onError,
                         marshals |-> marshals]]
    /\ UNCHANGED <<refused, cb, check, worldVars, req, say>>

(* The sidecar does not answer, or was built for another SDK version.      *)
LoadFails(p) ==
    /\ ~refused /\ loaded[p] = NotLoaded
    /\ refused' = TRUE
    /\ UNCHANGED <<loaded, cb, check, worldVars, req, say>>

-----------------------------------------------------------------------------
(* The request's way through the chain.                                    *)

(* The handler has matched the route and starts its chain.                 *)
Serve(r) ==
    /\ Serving /\ req[r] = Idle
    /\ req' = [req EXCEPT ![r] = [Idle EXCEPT !.phase = "request", !.at = 1]]
    /\ UNCHANGED <<pluginVars, cb, check, worldVars, say>>

(* Where r stands after its current plugin returned nil.                   *)
Onward(r) == [req[r] EXCEPT !.at = @ + 1, !.calling = FALSE]

(* The error is answered and the chain goes on all the same.               *)
NoteAbort(r) == [Onward(r) EXCEPT !.aborted = TRUE]

(* Where r stands after its current plugin aborted it: the error response  *)
(* is written and the response pass begins at the first plugin.            *)
Abort(r) ==
    [phase |-> "response", at |-> 1, calling |-> FALSE, aborted |-> TRUE]

(* A plugin returns to the chain: an error counts in the request pass and  *)
(* is ignored in the response pass.                                        *)
Return(r, ok) ==
    req' = [req EXCEPT ![r] =
               IF ok \/ req[r].phase = "response" THEN Onward(r) ELSE Abort(r)]

(* What the current plugin told the request, kept for the request pass.    *)
Said(r, word) ==
    say' = IF req[r].phase = "request"
           THEN [say EXCEPT ![r][req[r].at] = word]
           ELSE say

At(r, S) == req[r].phase \in {"request", "response"} /\ req[r].at \in S

(* A panic in a plugin is taken for its consent.                           *)
BuiltinPanicIgnored(r) ==
    /\ At(r, Plugins \ External)
    /\ \E out \in {"nil", "abort", "error", "panic"} :
          /\ Return(r, out \in {"nil", "panic"})
          /\ Said(r, IF out = "nil" THEN "continue" ELSE "refuse")
    /\ UNCHANGED <<pluginVars, cb, check, worldVars>>

(* A built-in plugin runs; AbortError, any other error and a recovered     *)
(* panic all stop the request pass.                                        *)
RunBuiltin(r) ==
    /\ At(r, Plugins \ External)
    /\ \E out \in {"nil", "abort", "error", "panic"} :
          /\ Return(r, out = "nil")
          /\ Said(r, IF out = "nil" THEN "continue" ELSE "refuse")
    /\ UNCHANGED <<pluginVars, cb, check, worldVars>>

(* The policies that refuse for a plugin that cannot be asked.             *)
Refusing == {"reject", "circuit-break"}

(* applyOnError: whether the failure of p lets the request through.  The   *)
(* default of its switch, where a misspelt policy ends up, lets it.        *)
ApplyOnError(p) == loaded[p].policy \notin Refusing

(* execute up to the call: the breaker is asked, the payload marshalled.   *)
CallPlugin(r) ==
    LET p == req[r].at IN
    /\ At(r, External) /\ ~req[r].calling
    /\ cb' = [cb EXCEPT ![p] = AfterAllow(@)]
    /\ IF AllowResult(cb[p]) /\ loaded[p].marshals
       THEN /\ req' = [req EXCEPT ![r].calling = TRUE]
            /\ UNCHANGED say
       ELSE Return(r, ApplyOnError(p)) /\ Said(r, "unavailable")
    /\ UNCHANGED <<pluginVars, check, worldVars>>

(* The sidecar answers 200 in time.  The breaker counts a success before   *)
(* the body is decoded; a body that does not decode is a failure to the    *)
(* policy only.                                                            *)
Answered(r) ==
    LET p == req[r].at IN
    /\ req[r].calling /\ up[p]
    /\ cb' = [cb EXCEPT ![p] = AfterSuccess(@)]
    /\ \E action \in {"continue", "abort", "garbled"} :
          /\ Return(r, \/ action = "continue"
                       \/ action = "garbled" /\ ApplyOnError(p))
          /\ Said(r, CASE action = "continue" -> "continue"
                       [] action = "abort"    -> "refuse"
                       [] action = "garbled"  -> "unavailable")
    /\ UNCHANGED <<pluginVars, check, worldVars>>

(* The call fails, times out, or answers with another status.  The request *)
(* context bounds it too, so a client that leaves costs the plugin a       *)
(* failure.                                                                *)
CallFails(r) ==
    LET p == req[r].at IN
    /\ req[r].calling /\ (~up[p] \/ r \in gone)
    /\ cb' = [cb EXCEPT ![p] = AfterFailure(@)]
    /\ Return(r, ApplyOnError(p)) /\ Said(r, "unavailable")
    /\ UNCHANGED <<pluginVars, check, worldVars>>

(* The request pass is over: the request is proxied (a TODO of the         *)
(* handler) and, whatever became of it, the response pass begins.          *)
Upstream(r) ==
    /\ req[r].phase = "request" /\ req[r].at = Length + 1
    /\ req' = [req EXCEPT ![r].phase = "response", ![r].at = 1]
    /\ UNCHANGED <<pluginVars, cb, check, worldVars, say>>

(* The handler returns.                                                    *)
Finish(r) ==
    /\ req[r].phase = "response" /\ req[r].at = Length + 1
    /\ req' = [req EXCEPT ![r] = Idle]
    /\ say' = [say EXCEPT ![r] = Silent]
    /\ gone' = gone \ {r}
    /\ UNCHANGED <<pluginVars, cb, check, up>>

-----------------------------------------------------------------------------
(* The health loop of a plugin: the answer to GET /healthz, and later what *)
(* is done about it.  No permission is asked of the breaker.               *)
StartCheck(p) ==
    /\ Serving /\ check[p] = "none"
    /\ check' = [check EXCEPT ![p] = IF up[p] THEN "ok" ELSE "bad"]
    /\ UNCHANGED <<pluginVars, cb, worldVars, req, say>>

(* Only failed checks are reported to the breaker.                         *)
EndCheckFailuresOnly(p) ==
    /\ check[p] # "none"
    /\ cb' = [cb EXCEPT ![p] = IF check[p] = "ok" THEN @ ELSE AfterFailure(@)]
    /\ check' = [check EXCEPT ![p] = "none"]
    /\ UNCHANGED <<pluginVars, worldVars, req, say>>

EndCheck(p) ==
    /\ check[p] # "none"
    /\ cb' = [cb EXCEPT ![p] = IF check[p] = "ok" THEN AfterSuccess(@)
                                                  ELSE AfterFailure(@)]
    /\ check' = [check EXCEPT ![p] = "none"]
    /\ UNCHANGED <<pluginVars, worldVars, req, say>>

-----------------------------------------------------------------------------
(* Sidecars fail and recover, clients leave, time passes.                  *)
SidecarFlip(p) ==
    /\ up' = [up EXCEPT ![p] = ~@]
    /\ UNCHANGED <<pluginVars, cb, check, gone, req, say>>

ClientLeaves(r) ==
    /\ req[r] # Idle /\ r \notin gone
    /\ gone' = gone \cup {r}
    /\ UNCHANGED <<pluginVars, cb, check, up, req, say>>

Tick ==
    /\ cb' = [p \in External |-> AfterTick(cb[p])]
    /\ UNCHANGED <<pluginVars, check, worldVars, req, say>>

Step(r) ==
    \/ RunBuiltin(r) \/ CallPlugin(r) \/ Answered(r) \/ CallFails(r)
    \/ Upstream(r) \/ Finish(r)

Next ==
    \/ \E p \in External : Load(p) \/ LoadFails(p)
    \/ \E r \in Requests : Serve(r) \/ Step(r) \/ ClientLeaves(r)
    \/ \E p \in External : StartCheck(p) \/ EndCheck(p) \/ SidecarFlip(p)
    \/ Tick

(* Requests keep coming and run, a call ends within its timeout, the       *)
(* ticker of the health loop fires, time passes.                           *)
Fairness ==
    /\ \A r \in Requests : WF_vars(Serve(r)) /\ WF_vars(Step(r))
    /\ \A p \in External : WF_vars(StartCheck(p)) /\ WF_vars(EndCheck(p))
    /\ WF_vars(Tick)

Spec == Init /\ [][Next]_vars

FairSpec == Spec /\ Fairness

-----------------------------------------------------------------------------
Words == {"nothing", "continue", "refuse", "unavailable"}

(* Plugins, breakers, checks and requests have their types.                *)
TypeOK ==
    /\ loaded \in [External -> {NotLoaded} \cup [policy : Policies, marshals : BOOLEAN]]
    /\ refused \in BOOLEAN
    /\ cb \in [External -> BreakerRecord]
    /\ check \in [External -> {"none", "ok", "bad"}]
    /\ up \in [External -> BOOLEAN]
    /\ gone \subseteq Requests
    /\ req \in [Requests -> [phase   : {"idle", "request", "response"},
                             at      : 0 .. Length + 1,
                             calling : BOOLEAN,
                             aborted : BOOLEAN]]
    /\ say \in [Requests -> [Plugins -> Words]]

(* What p said lets the request through: it agreed, or it could not be     *)
(* asked and its policy does not refuse.                                   *)
LetsPass(r, p) ==
    \/ say[r][p] = "continue"
    \/ say[r][p] = "unavailable" /\ p \in External /\ loaded[p].policy \notin Refusing

(* A request reaches the upstream only with the consent of every plugin of *)
(* the chain, whatever panics, times out, answers garbage or is cut off by *)
(* its breaker: a plugin configured to reject is never bypassed            *)
(* (chain.go:44, config.go:106).                                           *)
UpstreamNeedsConsent ==
    \A r \in Requests :
       req[r].phase = "response" /\ ~req[r].aborted
       => \A p \in Plugins : LetsPass(r, p)

(* An aborted request was stopped at one plugin: the ones before it agreed *)
(* and the ones after it never saw the request ("execution stops           *)
(* immediately. No upstream proxying occurs", chain.go:45).                *)
AbortStopsChain ==
    \A r \in Requests : req[r].aborted =>
       \E p \in Plugins :
          /\ say[r][p] # "nothing" /\ ~LetsPass(r, p)
          /\ \A q \in 1 .. p - 1 : LetsPass(r, q)
          /\ \A q \in p + 1 .. Length : say[r][q] = "nothing"

(* A half-open breaker of an external plugin never stays half open.  Calls *)
(* alone do not ensure this (SuccessThreshold is 2 and Allow admits one    *)
(* probe; a payload that does not marshal records nothing): the health     *)
(* loop's outcomes do, which need no permission.                           *)
HealthLoopResolves ==
    \A p \in External : cb[p].state = "half_open" ~> cb[p].state # "half_open"

(* Once a sidecar stays up and no client leaves, its breaker closes and    *)
(* stays closed, whatever failures were still under way.                   *)
RecoversWithSidecar ==
    \A p \in External :
       <>[](up[p] /\ gone = {} /\ Serving) => <>[](cb[p].state = "closed")
=============================================================================
