-------------------------- MODULE PluginChainProofs --------------------------
(***************************************************************************)
(* Proofs about module PluginChain, for chains of any length with any of   *)
(* their plugins external, any number of concurrent requests, any policies *)
(* and any thresholds of the breakers.                                     *)
(*                                                                         *)
(* The inductive invariant Walk says where a request stands: in the        *)
(* request pass every plugin before its position has let it pass and every *)
(* other one has not seen it; in the response pass what it met is settled. *)
(***************************************************************************)
EXTENDS PluginChain, TLAPS

RequestRecord == [phase : {"idle", "request", "response"}, at : 0 .. Length + 1,
                  calling : BOOLEAN, aborted : BOOLEAN]

(* The aborted request r was stopped at plugin p.                          *)
StoppedAt(r, p) ==
    /\ say[r][p] # "nothing" /\ ~LetsPass(r, p)
    /\ \A q \in 1 .. p - 1 : LetsPass(r, q)
    /\ \A q \in p + 1 .. Length : say[r][q] = "nothing"

IdleWalk(r) == req[r].phase = "idle" => req[r] = Idle /\ say[r] = Silent

(* Requests are served only once every external plugin has been loaded, so *)
(* no policy changes under a request.                                      *)
BusyWalk(r) ==
    req[r].phase # "idle" =>
       /\ req[r].at \in 1 .. Length + 1
       /\ \A p \in External : loaded[p] # NotLoaded

RequestWalk(r) ==
    req[r].phase = "request" =>
       /\ ~req[r].aborted
       /\ \A q \in 1 .. req[r].at - 1 : LetsPass(r, q)
       /\ \A q \in req[r].at .. Length : say[r][q] = "nothing"

ResponseWalk(r) ==
    req[r].phase = "response" =>
       IF req[r].aborted THEN \E p \in Plugins : StoppedAt(r, p)
                         ELSE \A p \in Plugins : LetsPass(r, p)

CallingWalk(r) == req[r].calling => At(r, External)

WalkOf(r) ==
    IdleWalk(r) /\ BusyWalk(r) /\ RequestWalk(r) /\ ResponseWalk(r) /\ CallingWalk(r)

Walk == \A r \in Requests : WalkOf(r)

Inv == TypeOK /\ Walk

-----------------------------------------------------------------------------
LEMMA LengthType == Length \in Nat /\ External \subseteq Plugins
  BY ChainAssumption DEF Plugins

(* The methods of a breaker keep its record well formed.                   *)

LEMMA NewType == NewBreaker \in BreakerRecord
  BY BreakerAssumption DEF NewBreaker, BreakerRecord, States

LEMMA AllowType == \A b \in BreakerRecord : AfterAllow(b) \in BreakerRecord
  BY BreakerAssumption DEF AfterAllow, Transition, BreakerRecord, States

LEMMA SuccessType == \A b \in BreakerRecord : AfterSuccess(b) \in BreakerRecord
  BY BreakerAssumption DEF AfterSuccess, Counting, Transition, Bump, BreakerRecord, States

LEMMA FailureType == \A b \in BreakerRecord : AfterFailure(b) \in BreakerRecord
  BY BreakerAssumption DEF AfterFailure, Counting, Trip, Bump, BreakerRecord, States

LEMMA TickType == \A b \in BreakerRecord : AfterTick(b) \in BreakerRecord
  BY BreakerAssumption DEF AfterTick, Bump, BreakerRecord, States

-----------------------------------------------------------------------------
LEMMA InitInv == Init => Inv
<1> SUFFICES ASSUME Init PROVE Inv
  OBVIOUS
<1>1. TypeOK
  <2>1. Idle \in RequestRecord
    <3>1. 0 \in 0 .. Length + 1
      BY LengthType
    <3> QED
      BY <3>1 DEF Idle, RequestRecord
  <2>2. say \in [Requests -> [Plugins -> Words]]
    BY DEF Init, Silent, Words
  <2> QED
    BY <2>1, <2>2, NewType DEF Init, TypeOK, RequestRecord
<1>2. Walk
  BY DEF Init, Walk, WalkOf, IdleWalk, BusyWalk, RequestWalk, ResponseWalk,
         CallingWalk, Idle
<1> QED
  BY <1>1, <1>2 DEF Inv

-----------------------------------------------------------------------------
(* A plugin has said its word and returned to the chain, which goes on if  *)
(* that word lets the request pass.                                        *)

LEMMA ReturnType ==
    ASSUME Inv, NEW r \in Requests, At(r, Plugins),
           NEW ok \in BOOLEAN, NEW word \in Words, Return(r, ok), Said(r, word)
    PROVE  /\ req' \in [Requests -> RequestRecord]
           /\ say' \in [Requests -> [Plugins -> Words]]
<1> USE LengthType DEF Inv, TypeOK, RequestRecord, At, Plugins
<1>1. Onward(r) \in RequestRecord
  <2>1. req[r].at + 1 \in 0 .. Length + 1
    OBVIOUS
  <2> QED
    BY <2>1, ZenonT(60) DEF Onward
<1>2. Abort(r) \in RequestRecord
  <2>1. 1 \in 0 .. Length + 1
    OBVIOUS
  <2> QED
    BY <2>1 DEF Abort
<1>3. req' \in [Requests -> RequestRecord]
  BY <1>1, <1>2 DEF Return
<1>4. say' \in [Requests -> [Plugins -> Words]]
  BY DEF Said
<1> QED
  BY <1>3, <1>4

(* A step that leaves a request, what it was told and the plugins alone    *)
(* leaves its walk alone.                                                  *)
LEMMA WalkFrame ==
    ASSUME NEW s \in Requests, WalkOf(s),
           req'[s] = req[s], say'[s] = say[s], loaded' = loaded
    PROVE  WalkOf(s)'
  BY DEF WalkOf, IdleWalk, BusyWalk, RequestWalk, ResponseWalk, CallingWalk,
         LetsPass, StoppedAt, At

LEMMA ReturnWalks ==
    ASSUME Inv, NEW r \in Requests, At(r, Plugins),
           NEW ok \in BOOLEAN, NEW word \in Words \ {"nothing"},
           Return(r, ok), Said(r, word), loaded' = loaded,
           ok <=> \/ word = "continue"
                  \/ /\ word = "unavailable" /\ req[r].at \in External
                     /\ loaded[req[r].at].policy \notin Refusing
    PROVE  Walk'
<1> USE LengthType DEF Inv, TypeOK, Plugins
<1> PICK p \in Plugins : req[r].at = p
  BY DEF At
<1>1. ASSUME NEW s \in Requests, s # r PROVE WalkOf(s)'
  <2>1. req'[s] = req[s] /\ say'[s] = say[s]
    BY <1>1 DEF Return, Said
  <2> QED
    BY <2>1, WalkFrame DEF Walk
<1>2. CASE req[r].phase = "response"
  <2>1. req'[r] = Onward(r) /\ say'[r] = say[r]
    BY <1>2 DEF Return, Said
  <2>2. /\ req'[r].phase = "response" /\ req'[r].at = p + 1
        /\ ~req'[r].calling /\ req'[r].aborted = req[r].aborted
    BY <1>2, <2>1 DEF Onward
  <2>3. IdleWalk(r)' /\ RequestWalk(r)' /\ CallingWalk(r)'
    BY <2>2 DEF IdleWalk, RequestWalk, CallingWalk
  <2>4. BusyWalk(r)'
    <3>1. p + 1 \in 1 .. Length + 1
      OBVIOUS
    <3> QED
      BY <1>2, <2>2, <3>1 DEF Walk, WalkOf, BusyWalk
  <2>5. ResponseWalk(r)'
    <3>1. ResponseWalk(r)
      BY DEF Walk, WalkOf
    <3> QED
      BY <1>2, <2>1, <2>2, <3>1 DEF ResponseWalk, LetsPass, StoppedAt
  <2> QED
    BY <1>1, <2>3, <2>4, <2>5 DEF Walk, WalkOf
<1>3. CASE req[r].phase = "request"
  <2> USE <1>3
  <2>1. RequestWalk(r) /\ BusyWalk(r)
    BY DEF Walk, WalkOf
  <2>2. /\ say'[r] \in [Plugins -> Words] /\ say'[r][p] = word
        /\ \A q \in Plugins : q # p => say'[r][q] = say[r][q]
    BY DEF Said
  <2>3. \A q \in Plugins : q # p => (LetsPass(r, q)' <=> LetsPass(r, q))
    BY <2>2 DEF LetsPass
  <2>4. LetsPass(r, p)' <=> ok
    BY <2>2 DEF LetsPass
  <2>5. \A q \in 1 .. p - 1 : LetsPass(r, q)'
    <3>1. \A q \in 1 .. p - 1 : q \in Plugins /\ q # p
      OBVIOUS
    <3> QED
      BY <2>1, <2>3, <3>1 DEF RequestWalk
  <2>6. \A q \in p + 1 .. Length : say'[r][q] = "nothing"
    <3>1. \A q \in p + 1 .. Length : q \in Plugins /\ q # p /\ q \in p .. Length
      OBVIOUS
    <3> QED
      BY <2>1, <2>2, <3>1 DEF RequestWalk
  <2>7. CASE ok
    <3>1. req'[r] = Onward(r)
      BY <2>7 DEF Return
    <3>2. /\ req'[r].phase = "request" /\ req'[r].at = p + 1
          /\ ~req'[r].calling /\ ~req'[r].aborted
      BY <2>1, <3>1 DEF Onward, RequestWalk
    <3>3. IdleWalk(r)' /\ ResponseWalk(r)' /\ CallingWalk(r)'
      BY <3>2 DEF IdleWalk, ResponseWalk, CallingWalk
    <3>4. BusyWalk(r)'
      <4>1. p + 1 \in 1 .. Length + 1
        OBVIOUS
      <4> QED
        BY <2>1, <3>2, <4>1 DEF BusyWalk
    <3>5. RequestWalk(r)'
      <4>1. \A q \in 1 .. (p + 1) - 1 : q = p \/ q \in 1 .. p - 1
        OBVIOUS
      <4>2. \A q \in 1 .. (p + 1) - 1 : LetsPass(r, q)'
        BY <2>4, <2>5, <2>7, <4>1
      <4> QED
        BY <2>6, <3>2, <4>2 DEF RequestWalk
    <3> QED
      BY <1>1, <3>3, <3>4, <3>5 DEF Walk, WalkOf
  <2>8. CASE ~ok
    <3>1. req'[r] = Abort(r)
      BY <2>8 DEF Return
    <3>2. /\ req'[r].phase = "response" /\ req'[r].at = 1
          /\ ~req'[r].calling /\ req'[r].aborted
      BY <3>1 DEF Abort
    <3>3. IdleWalk(r)' /\ RequestWalk(r)' /\ CallingWalk(r)'
      BY <3>2 DEF IdleWalk, RequestWalk, CallingWalk
    <3>4. BusyWalk(r)'
      <4>1. 1 \in 1 .. Length + 1
        OBVIOUS
      <4> QED
        BY <2>1, <3>2, <4>1 DEF BusyWalk
    <3>5. StoppedAt(r, p)'
      BY <2>2, <2>4, <2>5, <2>6, <2>8 DEF StoppedAt
    <3>6. ResponseWalk(r)'
      BY <3>2, <3>5 DEF ResponseWalk
    <3> QED
      BY <1>1, <3>3, <3>4, <3>6 DEF Walk, WalkOf
  <2> QED
    BY <2>7, <2>8
<1> QED
  BY <1>2, <1>3 DEF At

-----------------------------------------------------------------------------
(* The current plugin of r returns, with a word that fits what the chain   *)
(* does with it.                                                           *)
Settles(r) ==
    \E ok \in BOOLEAN, word \in Words \ {"nothing"} :
       /\ Return(r, ok) /\ Said(r, word)
       /\ ok <=> \/ word = "continue"
                 \/ /\ word = "unavailable" /\ req[r].at \in External
                    /\ loaded[req[r].at].policy \notin Refusing

LEMMA ConsentSettles ==
    ASSUME NEW r \in Requests, Return(r, TRUE), Said(r, "continue")
    PROVE  Settles(r)
  BY DEF Settles, Words

LEMMA RefusalSettles ==
    ASSUME NEW r \in Requests, Return(r, FALSE), Said(r, "refuse")
    PROVE  Settles(r)
<1>1. /\ "refuse" \in Words \ {"nothing"} /\ FALSE \in BOOLEAN
      /\ "refuse" # "continue" /\ "refuse" # "unavailable"
  BY DEF Words
<1> QED
  BY <1>1 DEF Settles

(* What each of the actions that return does.                              *)

LEMMA BuiltinReturns ==
    ASSUME Inv, NEW r \in Requests, RunBuiltin(r)
    PROVE  /\ At(r, Plugins) /\ loaded' = loaded
           /\ Settles(r)
<1>1. At(r, Plugins) /\ loaded' = loaded
  BY DEF RunBuiltin, At, pluginVars
<1>2. PICK out \in {"nil", "abort", "error", "panic"} :
         Return(r, out = "nil") /\ Said(r, IF out = "nil" THEN "continue" ELSE "refuse")
  BY DEF RunBuiltin
<1>3. CASE out = "nil"
  <2>1. Return(r, TRUE) /\ Said(r, "continue")
    BY <1>2, <1>3
  <2> QED
    BY <1>1, <2>1, ConsentSettles
<1>4. CASE out # "nil"
  <2>1. Return(r, FALSE) /\ Said(r, "refuse")
    BY <1>2, <1>4
  <2> QED
    BY <1>1, <2>1, RefusalSettles
<1> QED
  BY <1>3, <1>4

(* The policy decides for a plugin that cannot be asked.                   *)
LEMMA UnavailableReturns ==
    ASSUME Inv, NEW r \in Requests, At(r, External),
           Return(r, ApplyOnError(req[r].at)), Said(r, "unavailable")
    PROVE  Settles(r)
<1>1. loaded[req[r].at].policy \notin Refusing <=> ApplyOnError(req[r].at)
  BY DEF ApplyOnError
<1>2. ApplyOnError(req[r].at) \in BOOLEAN
  BY DEF ApplyOnError
<1> QED
  BY <1>1, <1>2 DEF Settles, Words, At

LEMMA AnswerReturns ==
    ASSUME Inv, NEW r \in Requests, Answered(r)
    PROVE  Settles(r)
<1>1. At(r, External)
  BY DEF Answered, Inv, Walk, WalkOf, CallingWalk
<1>2. PICK action \in {"continue", "abort", "garbled"} :
         /\ Return(r, \/ action = "continue"
                      \/ action = "garbled" /\ ApplyOnError(req[r].at))
         /\ Said(r, CASE action = "continue" -> "continue"
                      [] action = "abort"    -> "refuse"
                      [] action = "garbled"  -> "unavailable")
  BY DEF Answered
<1>3. CASE action = "continue"
  <2>1. Return(r, TRUE) /\ Said(r, "continue")
    BY <1>2, <1>3
  <2> QED
    BY <2>1, ConsentSettles
<1>4. CASE action = "abort"
  <2>1. Return(r, FALSE) /\ Said(r, "refuse")
    BY <1>2, <1>4
  <2> QED
    BY <2>1, RefusalSettles
<1>5. CASE action = "garbled"
  <2>1. Return(r, ApplyOnError(req[r].at)) /\ Said(r, "unavailable")
    BY <1>2, <1>5 DEF Return
  <2> QED
    BY <1>1, <2>1, UnavailableReturns
<1> QED
  BY <1>3, <1>4, <1>5

(* A return keeps the types and the walks.                                 *)
LEMMA ReturnKeeps ==
    ASSUME Inv, NEW r \in Requests, At(r, Plugins), loaded' = loaded,
           Settles(r)
    PROVE  /\ req' \in [Requests -> RequestRecord]
           /\ say' \in [Requests -> [Plugins -> Words]]
           /\ Walk'
  BY ReturnType, ReturnWalks DEF Settles

-----------------------------------------------------------------------------
(* The request pass begins: no plugin has seen the request.                *)
LEMMA ServeKeeps ==
    ASSUME Inv, NEW r \in Requests, Serve(r)
    PROVE  Inv'
<1> USE LengthType DEF Inv
<1> DEFINE started == [Idle EXCEPT !.phase = "request", !.at = 1]
<1>1. req' = [req EXCEPT ![r] = started] /\ req[r] = Idle /\ Serving
  BY DEF Serve
<1>2. 1 \in 0 .. Length + 1 /\ 1 \in 1 .. Length + 1 /\ 0 \in 0 .. Length + 1
  OBVIOUS
<1>3. /\ started \in RequestRecord
      /\ started.phase = "request" /\ started.at = 1
      /\ ~started.calling /\ ~started.aborted
  BY <1>2 DEF Idle, RequestRecord
<1> HIDE DEF started
<1>4. TypeOK'
  <2>1. req' \in [Requests -> RequestRecord]
    BY <1>1, <1>3 DEF TypeOK, RequestRecord
  <2> QED
    BY <2>1 DEF TypeOK, RequestRecord, Serve, pluginVars, worldVars
<1>5. ASSUME NEW s \in Requests, s # r PROVE WalkOf(s)'
  <2>1. req'[s] = req[s] /\ say'[s] = say[s] /\ loaded' = loaded
    BY <1>1, <1>5 DEF TypeOK, Serve, pluginVars
  <2> QED
    BY <2>1, WalkFrame DEF Walk
<1>6. WalkOf(r)'
  <2>1. /\ req'[r].phase = "request" /\ req'[r].at = 1
        /\ ~req'[r].calling /\ ~req'[r].aborted
    BY <1>1, <1>3 DEF TypeOK
  <2>2. say'[r] = Silent
    BY <1>1 DEF Walk, WalkOf, IdleWalk, Idle, Serve
  <2>3. /\ \A q \in 1 .. 1 - 1 : LetsPass(r, q)'
        /\ \A q \in 1 .. Length : say'[r][q] = "nothing"
    BY <2>2 DEF Silent, Plugins
  <2>4. \A p \in External : loaded'[p] # NotLoaded
    BY <1>1 DEF Serve, Serving, pluginVars
  <2> QED
    BY <1>2, <2>1, <2>3, <2>4
       DEF WalkOf, IdleWalk, BusyWalk, RequestWalk, ResponseWalk, CallingWalk
<1> QED
  BY <1>4, <1>5, <1>6 DEF Walk

LEMMA BuiltinKeeps ==
    ASSUME Inv, NEW r \in Requests, RunBuiltin(r)
    PROVE  Inv'
<1>1. /\ req' \in [Requests -> RequestRecord] /\ say' \in [Requests -> [Plugins -> Words]]
      /\ Walk'
  BY BuiltinReturns, ReturnKeeps
<1>2. TypeOK'
  BY <1>1 DEF Inv, TypeOK, RequestRecord, RunBuiltin, pluginVars, worldVars
<1> QED
  BY <1>1, <1>2 DEF Inv

LEMMA CallKeeps ==
    ASSUME Inv, NEW r \in Requests, CallPlugin(r)
    PROVE  Inv'
<1>1. At(r, External) /\ At(r, Plugins) /\ loaded' = loaded /\ req[r].at \in External
  BY LengthType DEF CallPlugin, At, pluginVars
<1>2. cb' \in [External -> BreakerRecord]
  BY <1>1, AllowType DEF Inv, TypeOK, CallPlugin
<1>3. CASE AllowResult(cb[req[r].at]) /\ loaded[req[r].at].marshals
  <2>1. req' = [req EXCEPT ![r].calling = TRUE] /\ say' = say
    BY <1>3 DEF CallPlugin
  <2>2. TypeOK'
    BY <1>2, <2>1, ZenonT(60) DEF Inv, TypeOK, CallPlugin, pluginVars, worldVars
  <2>3. ASSUME NEW s \in Requests, s # r PROVE WalkOf(s)'
    <3>1. req'[s] = req[s]
      BY <2>1, <2>3 DEF Inv, TypeOK
    <3> QED
      BY <1>1, <2>1, <3>1, WalkFrame DEF Inv, Walk
  <2>4. WalkOf(r)'
    <3>1. /\ req'[r].phase = req[r].phase /\ req'[r].at = req[r].at
          /\ req'[r].aborted = req[r].aborted
      BY <2>1 DEF Inv, TypeOK
    <3>2. WalkOf(r) /\ req[r].phase # "idle"
      BY <1>1 DEF Inv, Walk, At
    <3> QED
      BY <1>1, <2>1, <3>1, <3>2
         DEF WalkOf, IdleWalk, BusyWalk, RequestWalk, ResponseWalk, CallingWalk,
             LetsPass, StoppedAt, At
  <2> QED
    BY <2>2, <2>3, <2>4 DEF Inv, Walk
<1>4. CASE ~(AllowResult(cb[req[r].at]) /\ loaded[req[r].at].marshals)
  <2>1. Settles(r)
    BY <1>1, <1>4, UnavailableReturns DEF CallPlugin
  <2>2. /\ req' \in [Requests -> RequestRecord] /\ say' \in [Requests -> [Plugins -> Words]]
        /\ Walk'
    BY <1>1, <2>1, ReturnKeeps
  <2>3. TypeOK'
    BY <1>2, <2>2 DEF Inv, TypeOK, RequestRecord, CallPlugin, pluginVars, worldVars
  <2> QED
    BY <2>2, <2>3 DEF Inv
<1> QED
  BY <1>3, <1>4

LEMMA AnsweredKeeps ==
    ASSUME Inv, NEW r \in Requests, Answered(r)
    PROVE  Inv'
<1>1. /\ At(r, External) /\ At(r, Plugins) /\ loaded' = loaded /\ req[r].at \in External
  BY LengthType DEF Answered, Inv, Walk, WalkOf, CallingWalk, At, pluginVars
<1>2. cb' \in [External -> BreakerRecord]
  BY <1>1, SuccessType DEF Inv, TypeOK, Answered
<1>3. /\ req' \in [Requests -> RequestRecord] /\ say' \in [Requests -> [Plugins -> Words]]
      /\ Walk'
  BY <1>1, AnswerReturns, ReturnKeeps
<1>4. TypeOK'
  BY <1>2, <1>3 DEF Inv, TypeOK, RequestRecord, Answered, pluginVars, worldVars
<1> QED
  BY <1>3, <1>4 DEF Inv

LEMMA CallFailsKeeps ==
    ASSUME Inv, NEW r \in Requests, CallFails(r)
    PROVE  Inv'
<1>1. /\ At(r, External) /\ At(r, Plugins) /\ loaded' = loaded /\ req[r].at \in External
  BY LengthType DEF CallFails, Inv, Walk, WalkOf, CallingWalk, At, pluginVars
<1>2. cb' \in [External -> BreakerRecord]
  BY <1>1, FailureType DEF Inv, TypeOK, CallFails
<1>3. Settles(r)
  BY <1>1, UnavailableReturns DEF CallFails
<1>4. /\ req' \in [Requests -> RequestRecord] /\ say' \in [Requests -> [Plugins -> Words]]
      /\ Walk'
  BY <1>1, <1>3, ReturnKeeps
<1>5. TypeOK'
  BY <1>2, <1>4 DEF Inv, TypeOK, RequestRecord, CallFails, pluginVars, worldVars
<1> QED
  BY <1>4, <1>5 DEF Inv

LEMMA UpstreamKeeps ==
    ASSUME Inv, NEW r \in Requests, Upstream(r)
    PROVE  Inv'
<1> USE LengthType DEF Inv
<1>1. /\ req' \in [Requests -> RequestRecord]
      /\ req'[r].phase = "response" /\ req'[r].at = 1
      /\ req'[r].calling = req[r].calling /\ req'[r].aborted = req[r].aborted
      /\ \A s \in Requests \ {r} : req'[s] = req[s]
  <2> DEFINE turned == [[req[r] EXCEPT !.phase = "response"] EXCEPT !.at = 1]
  <2>1. req[r] \in RequestRecord /\ 1 \in 0 .. Length + 1
    BY DEF TypeOK, RequestRecord
  <2>2. /\ turned \in RequestRecord
        /\ turned.phase = "response" /\ turned.at = 1
        /\ turned.calling = req[r].calling /\ turned.aborted = req[r].aborted
    BY <2>1 DEF RequestRecord
  <2>3. req' = [req EXCEPT ![r] = turned]
    BY DEF TypeOK, Upstream
  <2> HIDE DEF turned
  <2> QED
    BY <2>2, <2>3 DEF TypeOK, RequestRecord
<1>2. loaded' = loaded /\ say' = say
  BY DEF Upstream, pluginVars
<1>3. TypeOK'
  BY <1>1 DEF TypeOK, RequestRecord, Upstream, pluginVars, worldVars
<1>4. ASSUME NEW s \in Requests, s # r PROVE WalkOf(s)'
  BY <1>1, <1>2, <1>4, WalkFrame DEF Walk
<1>5. WalkOf(r)'
  <2>1. req[r].phase = "request" /\ req[r].at = Length + 1
    BY DEF Upstream
  <2>2. RequestWalk(r) /\ BusyWalk(r) /\ CallingWalk(r)
    BY DEF Walk, WalkOf
  <2>3. \A q \in Plugins : LetsPass(r, q)
    <3>1. \A q \in Plugins : q \in 1 .. (Length + 1) - 1
      BY DEF Plugins
    <3> QED
      BY <2>1, <2>2, <3>1 DEF RequestWalk
  <2>4. \A q \in Plugins : LetsPass(r, q)'
    BY <1>2, <2>3 DEF LetsPass
  <2>5. ~req[r].calling
    <3>1. Length + 1 \notin External
      BY DEF Plugins
    <3> QED
      BY <2>1, <2>2, <3>1 DEF CallingWalk, At
  <2>6. 1 \in 1 .. Length + 1
    OBVIOUS
  <2> QED
    BY <1>1, <1>2, <2>1, <2>2, <2>4, <2>5, <2>6
       DEF WalkOf, IdleWalk, BusyWalk, RequestWalk, ResponseWalk, CallingWalk
<1> QED
  BY <1>3, <1>4, <1>5 DEF Walk

LEMMA FinishKeeps ==
    ASSUME Inv, NEW r \in Requests, Finish(r)
    PROVE  Inv'
<1> USE LengthType DEF Inv
<1>1. Idle \in RequestRecord /\ Silent \in [Plugins -> Words]
  <2>1. 0 \in 0 .. Length + 1
    OBVIOUS
  <2> QED
    BY <2>1 DEF Idle, RequestRecord, Silent, Words
<1>2. /\ req' \in [Requests -> RequestRecord] /\ req'[r] = Idle
      /\ say' \in [Requests -> [Plugins -> Words]] /\ say'[r] = Silent
      /\ \A s \in Requests \ {r} : req'[s] = req[s] /\ say'[s] = say[s]
  BY <1>1 DEF TypeOK, RequestRecord, Finish
<1>3. TypeOK'
  BY <1>2 DEF TypeOK, RequestRecord, Finish, pluginVars
<1>4. ASSUME NEW s \in Requests, s # r PROVE WalkOf(s)'
  BY <1>2, <1>4, WalkFrame DEF Walk, Finish, pluginVars
<1>5. WalkOf(r)'
  BY <1>2 DEF WalkOf, IdleWalk, BusyWalk, RequestWalk, ResponseWalk, CallingWalk, Idle
<1> QED
  BY <1>3, <1>4, <1>5 DEF Walk

(* No plugin is loaded while a request is served: Load and LoadFails need  *)
(* a plugin that is not loaded yet, and then every request is idle.        *)
LEMMA LoadKeeps ==
    ASSUME Inv, NEW p \in External, Load(p) \/ LoadFails(p)
    PROVE  Inv'
<1>1. loaded[p] = NotLoaded /\ req' = req /\ say' = say
  BY DEF Load, LoadFails
<1>2. TypeOK'
  <2>1. CASE Load(p)
    <3>1. /\ loaded' \in [External -> {NotLoaded} \cup [policy : Policies, marshals : BOOLEAN]]
      <4>1. PICK onError \in OnErrorConfigs, marshals \in BOOLEAN :
               loaded' = [loaded EXCEPT ![p] =
                             [policy   |-> IF onError = "" THEN "pass" ELSE onError,
                              marshals |-> marshals]]
        BY <2>1 DEF Load
      <4>2. PICK policy \in Policies : policy = IF onError = "" THEN "pass" ELSE onError
        BY Zenon DEF Policies
      <4>3. loaded' = [loaded EXCEPT ![p] = [policy |-> policy, marshals |-> marshals]]
        BY <4>1, <4>2, Zenon
      <4>4. [policy |-> policy, marshals |-> marshals] \in [policy : Policies, marshals : BOOLEAN]
        OBVIOUS
      <4> HIDE <4>1, <4>2
      <4> QED
        BY <4>3, <4>4 DEF Inv, TypeOK
    <3> QED
      BY <2>1, <3>1, Zenon DEF Inv, TypeOK, Load, worldVars
  <2>2. CASE LoadFails(p)
    BY <2>2 DEF Inv, TypeOK, LoadFails, worldVars
  <2> QED
    BY <2>1, <2>2
<1>3. ASSUME NEW r \in Requests PROVE WalkOf(r)'
  <2>1. req[r].phase = "idle"
    BY <1>1 DEF Inv, Walk, WalkOf, BusyWalk
  <2>2. req[r] = Idle /\ say[r] = Silent
    BY <2>1 DEF Inv, Walk, WalkOf, IdleWalk
  <2> QED
    BY <1>1, <2>2
       DEF WalkOf, IdleWalk, BusyWalk, RequestWalk, ResponseWalk, CallingWalk, Idle
<1> QED
  BY <1>2, <1>3 DEF Inv, Walk

(* The health loops, the sidecars, the clients and the clock change no     *)
(* request.                                                                *)
LEMMA WorldKeeps ==
    ASSUME Inv, \/ \E r \in Requests : ClientLeaves(r)
                \/ \E p \in External : StartCheck(p) \/ EndCheck(p) \/ SidecarFlip(p)
                \/ Tick
                \/ UNCHANGED vars
    PROVE  Inv'
<1> USE DEF Inv, TypeOK, pluginVars, worldVars
<1>1. Walk'
  <2>1. req' = req /\ say' = say /\ loaded' = loaded
    BY DEF ClientLeaves, StartCheck, EndCheck, SidecarFlip, Tick, vars
  <2> QED
    BY <2>1, WalkFrame DEF Walk
<1>2. TypeOK'
  <2>1. ASSUME NEW r \in Requests, ClientLeaves(r) PROVE TypeOK'
    BY <2>1 DEF ClientLeaves
  <2>2. ASSUME NEW p \in External, StartCheck(p) PROVE TypeOK'
    BY <2>2 DEF StartCheck
  <2>3. ASSUME NEW p \in External, EndCheck(p) PROVE TypeOK'
    BY <2>3, SuccessType, FailureType DEF EndCheck
  <2>4. ASSUME NEW p \in External, SidecarFlip(p) PROVE TypeOK'
    BY <2>4 DEF SidecarFlip
  <2>5. CASE Tick
    BY <2>5, TickType DEF Tick
  <2>6. CASE UNCHANGED vars
    BY <2>6 DEF vars
  <2> QED
    BY <2>1, <2>2, <2>3, <2>4, <2>5, <2>6
<1> QED
  BY <1>1, <1>2

-----------------------------------------------------------------------------
(* Every reachable state of a chain satisfies the types and the walks.     *)
THEOREM Invariance == Spec => []Inv
<1>1. Inv /\ [Next]_vars => Inv'
  BY ServeKeeps, BuiltinKeeps, CallKeeps, AnsweredKeeps, CallFailsKeeps, UpstreamKeeps,
     FinishKeeps, LoadKeeps, WorldKeeps DEF Next, Step
<1> QED
  BY <1>1, InitInv, PTL DEF Spec

(* Plugins, breakers, checks and requests keep their types.                *)
THEOREM TypeCorrect == Spec => []TypeOK
  BY Invariance, PTL DEF Inv

(* For a chain of any length: no request reaches the upstream without the  *)
(* consent of every plugin, where only a plugin whose policy is to pass    *)
(* consents by being unavailable (chain.go, external.go).                  *)
THEOREM ConsentRequired == Spec => []UpstreamNeedsConsent
<1>1. Inv => UpstreamNeedsConsent
  BY DEF Inv, Walk, WalkOf, ResponseWalk, UpstreamNeedsConsent
<1> QED
  BY <1>1, Invariance, PTL

(* For a chain of any length: an aborted request was stopped at exactly    *)
(* one plugin; the ones before it agreed, the ones after it never saw it.  *)
THEOREM AbortIsFinal == Spec => []AbortStopsChain
<1>1. ASSUME Inv, NEW r \in Requests, req[r].aborted
      PROVE  \E p \in Plugins : StoppedAt(r, p)
  <2>1. req[r].phase \in {"idle", "request", "response"}
    BY <1>1 DEF Inv, TypeOK
  <2>2. req[r].phase = "response"
    BY <1>1, <2>1 DEF Inv, Walk, WalkOf, IdleWalk, RequestWalk, Idle
  <2> QED
    BY <1>1, <2>2 DEF Inv, Walk, WalkOf, ResponseWalk
<1>2. Inv => AbortStopsChain
  BY <1>1 DEF AbortStopsChain, StoppedAt
<1> QED
  BY <1>2, Invariance, PTL
=============================================================================
