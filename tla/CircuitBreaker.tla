---------------------------- MODULE CircuitBreaker ----------------------------
(***************************************************************************)
(* One circuit breaker shared by concurrent callers that use it as its     *)
(* documentation asks: Allow before a call, RecordSuccess or RecordFailure *)
(* when the call ends.  A call may end long after the breaker has changed  *)
(* state; such stragglers are what makes the machine hard to reason about. *)
(* (Callers that never record are in module Proxy.)                        *)
(***************************************************************************)
EXTENDS Breaker, Sequences

CONSTANT Callers

VARIABLES
    cb,         \* the breaker
    req,        \* "idle", "admitted" (let through while closed) or "probe"
    history     \* auxiliary: the latest outcomes recorded since cb.state changed

vars == <<cb, req, history>>

(* As many outcomes as the larger threshold can ask for.                   *)
Window == IF FailureThreshold > SuccessThreshold THEN FailureThreshold
                                                 ELSE SuccessThreshold

(* The last n elements of a sequence, all of it when it is shorter.        *)
Latest(s, n) == IF Len(s) <= n THEN s ELSE SubSeq(s, Len(s) - n + 1, Len(s))

(* The last n recorded outcomes exist and are all o.                       *)
EndsWith(s, n, o) ==
    Len(s) >= n /\ \A i \in Len(s) - n + 1 .. Len(s) : s[i] = o

Init ==
    /\ cb = NewBreaker
    /\ req = [c \in Callers |-> "idle"]
    /\ history = <<>>

(* Allow; a rejected caller changes nothing.                               *)
Allow(c) ==
    /\ req[c] = "idle"
    /\ AllowResult(cb)
    /\ cb' = AfterAllow(cb)
    /\ req' = [req EXCEPT ![c] = IF cb.state = "closed" THEN "admitted" ELSE "probe"]
    /\ history' = IF cb'.state = cb.state THEN history ELSE <<>>

Recorded(o) ==
    history' = IF cb'.state = cb.state
               THEN Latest(Append(history, o), Window)
               ELSE <<>>

RecordSuccess(c) ==
    /\ req[c] # "idle"
    /\ cb' = AfterSuccess(cb)
    /\ req' = [req EXCEPT ![c] = "idle"]
    /\ Recorded("ok")

RecordFailure(c) ==
    /\ req[c] # "idle"
    /\ cb' = AfterFailure(cb)
    /\ req' = [req EXCEPT ![c] = "idle"]
    /\ Recorded("fail")

Tick ==
    /\ cb' = AfterTick(cb)
    /\ UNCHANGED <<req, history>>

Next ==
    \/ \E c \in Callers : Allow(c) \/ RecordSuccess(c) \/ RecordFailure(c)
    \/ Tick

(* Time passes, calls keep arriving, and a call in flight ends (upstream   *)
(* calls carry a deadline).                                                *)
Fairness ==
    /\ WF_vars(Tick)
    /\ \A c \in Callers :
        /\ WF_vars(Allow(c))
        /\ WF_vars(RecordSuccess(c) \/ RecordFailure(c))

Spec == Init /\ [][Next]_vars

FairSpec == Spec /\ Fairness

-----------------------------------------------------------------------------
InFlight == {c \in Callers : req[c] # "idle"}

Probes == {c \in Callers : req[c] = "probe"}

(* The breaker's counters and age stay within their bounds, and the        *)
(* history within its window, whatever the callers do.                     *)
TypeOK ==
    /\ cb \in BreakerRecord
    /\ req \in [Callers -> {"idle", "admitted", "probe"}]
    /\ history \in Seq({"ok", "fail"})
    /\ Len(history) <= Window

(* A breaker that has counted no success since it became half open still   *)
(* has its probe in flight: no straggler can end the probing on its own    *)
(* and leave the breaker half open with nobody to resolve it (Allow,       *)
(* RecordFailure).                                                         *)
HalfOpenAccounted ==
    (cb.state = "half_open" /\ cb.oks = 0) => Probes # {}

(* A closed breaker has not seen FailureThreshold failures in a row since  *)
(* it closed, however the outcomes of concurrent calls interleave: it can  *)
(* neither miss the trip nor count across a success or a transition        *)
(* (Config.FailureThreshold, "consecutive failures before tripping").      *)
NoMissedTrip ==
    cb.state = "closed" => ~EndsWith(history, FailureThreshold, "fail")

(* The breaker changes state only on the evidence its Config names: it     *)
(* trips on the last of FailureThreshold consecutive failures or on a      *)
(* failure while half open, closes on the last of SuccessThreshold         *)
(* consecutive successes while half open, and probes only after the whole  *)
(* ResetTimeout.  Nor does the wait for the probe start anew: while the    *)
(* breaker stays open, no late outcome moves openedAt (RecordFailure has   *)
(* no case for StateOpen).                                                 *)
TransitionsNeedEvidence ==
    [][ /\ cb'.state # cb.state =>
            \/ /\ cb.state = "closed" /\ cb'.state = "open"
               /\ EndsWith(history, FailureThreshold - 1, "fail")
               /\ cb'.age = 0
            \/ /\ cb.state = "open" /\ cb'.state = "half_open"
               /\ cb.age = ResetTimeout
               /\ \E c \in Callers : req[c] = "idle" /\ req'[c] = "probe"
            \/ /\ cb.state = "half_open" /\ cb'.state = "closed"
               /\ EndsWith(history, SuccessThreshold - 1, "ok")
            \/ /\ cb.state = "half_open" /\ cb'.state = "open"
               /\ cb'.age = 0
        /\ (cb.state = "open" /\ cb'.state = "open") => cb'.age >= cb.age
      ]_vars

(* The probing is over, nobody holds the breaker, and it is half open.     *)
Wedged == cb.state = "half_open" /\ InFlight = {}

(* A half-open breaker is left again, as the diagram of the package draws  *)
(* it and Allow's comment says ("until the probe resolves",                *)
(* circuitbreaker.go:97-98).  The code does not keep this: with a          *)
(* SuccessThreshold above 1 one successful probe ends in Wedged, where     *)
(* Allow rejects everybody and nobody is left to record.                   *)
HalfOpenResolves == cb.state = "half_open" ~> cb.state # "half_open"

(* Only the outcome of a probe ends the probing (circuitbreaker.go:143,    *)
(* "Probe failed").  The code does not keep this: RecordSuccess and        *)
(* RecordFailure cannot tell the probe from a call that was let through    *)
(* before the breaker tripped.                                             *)
ProbeDecides ==
    [][ cb.state = "half_open" /\ cb'.state # "half_open" =>
        \E c \in Callers : req[c] = "probe" /\ req'[c] = "idle" ]_vars

Contract == INSTANCE BreakerContract WITH state <- cb.state, admitted <- InFlight

(* The breaker implements BreakerContract: counters and clock only ever    *)
(* choose among the transitions the package comment draws.                 *)
ImplementsContract == Contract!Spec

(* An open breaker is eventually probed: stragglers that keep failing do   *)
(* not postpone the probe (RecordFailure leaves openedAt alone while open).*)
OpenIsProbed == cb.state = "open" ~> cb.state = "half_open"
=============================================================================
