--------------------------- MODULE BreakerContract ---------------------------
(***************************************************************************)
(* What a circuit breaker promises its callers, with no counter and no     *)
(* clock: in which states a call is let through, and which transitions an  *)
(* outcome may cause.  This is the state machine the package comment of    *)
(* pkg/circuitbreaker draws.                                               *)
(***************************************************************************)
CONSTANT Callers

VARIABLES
    state,      \* "closed", "open" or "half_open"
    admitted    \* callers let through whose outcome is not yet recorded

vars == <<state, admitted>>

Init == state = "closed" /\ admitted = {}

(* A closed breaker lets every call through.                               *)
Admit(c) ==
    /\ state = "closed"
    /\ c \notin admitted
    /\ admitted' = admitted \cup {c}
    /\ UNCHANGED state

(* An open breaker lets a call through only by becoming half open; a       *)
(* half-open one lets nothing through.                                     *)
Probe(c) ==
    /\ state = "open"
    /\ c \notin admitted
    /\ admitted' = admitted \cup {c}
    /\ state' = "half_open"

(* A success may close a half-open breaker and changes nothing else.       *)
Succeed(c) ==
    /\ c \in admitted
    /\ admitted' = admitted \ {c}
    /\ state' \in IF state = "half_open" THEN {"half_open", "closed"} ELSE {state}

(* A failure reopens a half-open breaker and may open a closed one.        *)
Fail(c) ==
    /\ c \in admitted
    /\ admitted' = admitted \ {c}
    /\ state' \in IF state = "closed" THEN {"closed", "open"} ELSE {"open"}

(* A caller that gives up its call without recording an outcome.           *)
Abandon(c) ==
    /\ c \in admitted
    /\ admitted' = admitted \ {c}
    /\ UNCHANGED state

Next == \E c \in Callers : Admit(c) \/ Probe(c) \/ Succeed(c) \/ Fail(c)

(* The contract between the breaker and callers that always record.        *)
Spec == Init /\ [][Next]_vars

(* The contract with callers that may abandon.                             *)
AbandonNext == Next \/ \E c \in Callers : Abandon(c)

AbandonSpec == Init /\ [][AbandonNext]_vars
=============================================================================
