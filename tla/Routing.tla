------------------------------- MODULE Routing -------------------------------
(***************************************************************************)
(* The router and what the handler does with its answer: New builds the    *)
(* tables from the declared routes, one route per step and then the sort;  *)
(* Match finds the route of a request; ServeHTTP answers 404 or wraps the  *)
(* body in its limits, runs the route's built-in plugins in their order,   *)
(* and the body is read through the limits.                                *)
(*                                                                         *)
(* A route is named by its position in the declaration.  A path is a       *)
(* sequence of letters.  The validator has refused empty paths, unknown    *)
(* match types, patterns that do not compile and two plugins of a route    *)
(* with the same order.                                                    *)
(***************************************************************************)
EXTENDS Builtins, Integers, Sequences, SequencesExt

CONSTANTS
    RouteConfigs,       \* what may be declared
    MaxRoutes,          \* bound on the number of declarations
    Methods,            \* request methods
    Paths,              \* request paths
    Upper(_),           \* strings.ToUpper on a declared method
    Regex(_, _),        \* Regex(pattern, path): the pattern matches the path
    MaxSize             \* bound on the bytes of a request body

(* The key of an exact route without methods; no request has this method.  *)
(* A route that declares the method "", which the validator lets through,  *)
(* would share this key; the assumption below leaves it out.               *)
AnyMethod == "any"

(* What paths are made of, and a plugin of a route.                        *)
Letters == UNION {Range(p) : p \in Paths}
PluginRef == [type : STRING, order : Int, mode : STRING]

ASSUME RoutingAssumption ==
    /\ MaxRoutes \in Nat /\ MaxSize \in Nat
    /\ AnyMethod \notin Methods
    /\ \A rc \in RouteConfigs :
          /\ rc.match \in {"exact", "prefix", "regex"}
          /\ rc.path \in Seq(Letters) /\ rc.path # <<>>
          /\ \A m \in rc.methods : Upper(m) \in Methods
          /\ rc.maxBody \in Nat
          /\ rc.plugins \in Seq(PluginRef)
          /\ \A j, k \in DOMAIN rc.plugins :
                j # k => rc.plugins[j].order # rc.plugins[k].order
    /\ \A pattern, path \in Paths : Regex(pattern, path) \in BOOLEAN

VARIABLES
    declared,   \* the route configs so far
    routes,     \* the routes built from them
    exact,      \* method or "any", and path, to a route
    prefix,     \* prefix routes
    regexes,    \* regex routes, in declaration order
    built,      \* New has returned
    req         \* one request against the finished router

vars == <<declared, routes, exact, prefix, regexes, built, req>>
tables == <<declared, routes, exact, prefix, regexes, built>>

None == 0

(* pc       where in ServeHTTP the request is                              *)
(* route    the matched route, or None                                     *)
(* size     bytes the client sends                                         *)
(* left     bytes the server has not read off the connection               *)
(* quota    what MaxBytesReader still lets through (l.n)                   *)
(* read     what limitedBodyReader has counted                             *)
(* got      auxiliary: bytes handed to whoever reads the body              *)
(* headers  what the plugins look at                                       *)
(* ran      plugins of the route that have run                             *)
(* user     GatewayContext.UserID                                          *)
(* key      what the rate limit plugin counted the request on              *)
(* status   the status a plugin aborted with                               *)
RequestRecord ==
    [ pc     : {"idle", "notfound", "chain", "aborted", "upstream", "eof", "too_large"},
      method : Methods \cup {AnyMethod},
      path   : Paths \cup {<<>>},
      route  : 0 .. MaxRoutes,
      size   : 0 .. MaxSize,
      left   : 0 .. MaxSize,
      quota  : Nat,
      read   : 0 .. MaxSize,
      got    : 0 .. MaxSize,
      headers : Headers,
      ran    : Nat,
      user   : {NoUser, "user"},
      key    : {"none", "user", "ip"},
      status : {Pass, 204, 401, 403, 429} ]

NoHeaders == [origin |-> "none", token |-> "none", limiter |-> "allowed"]

Idle == [pc |-> "idle", method |-> AnyMethod, path |-> <<>>, route |-> None,
         size |-> 0, left |-> 0, quota |-> 0, read |-> 0, got |-> 0,
         headers |-> NoHeaders, ran |-> 0, user |-> NoUser, key |-> "none", status |-> Pass]

Init ==
    /\ declared = <<>> /\ routes = <<>>
    /\ exact = <<>> /\ prefix = <<>> /\ regexes = <<>>
    /\ built = FALSE
    /\ req = Idle

-----------------------------------------------------------------------------
(* What sort.Slice may make of s: it is not stable, so elements that are   *)
(* equal to its comparison end up in any order.                            *)
Arrangements(s) == {[k \in DOMAIN s |-> s[p[k]]] : p \in Bijection(DOMAIN s, DOMAIN s)}

(* The plugins stay in the order of the file.                              *)
InFileOrder(refs) == {refs}

(* The chain of a route: its plugins by ascending order, sorted alike by   *)
(* the builder, the plugin registry and the router.                        *)
ByOrder(refs) ==
    {s \in Arrangements(refs) : \A j, k \in DOMAIN s : j < k => s[j].order <= s[k].order}

(* buildRoute, and the route's chain: the declared methods in upper case,  *)
(* the plugins by order.                                                   *)
BuildRoute(rc, chain) ==
    [match |-> rc.match, path |-> rc.path, methods |-> {Upper(m) : m \in rc.methods},
     maxBody |-> rc.maxBody, plugins |-> chain]

(* The entries of an exact route, one per method, replace older ones.      *)
ExactKeys(t, i, route) ==
    LET keys == (IF route.methods = {} THEN {AnyMethod} ELSE route.methods) \X {route.path}
    IN [k \in keys \cup DOMAIN t |-> IF k \in keys THEN i ELSE t[k]]

(* One round of New's loop.                                                *)
Declare(rc) ==
    \E chain \in ByOrder(rc.plugins) :
       LET route == BuildRoute(rc, chain)
           i == Len(routes) + 1
       IN /\ ~built /\ i <= MaxRoutes
          /\ declared' = Append(declared, rc)
          /\ routes' = Append(routes, route)
          /\ exact' = IF route.match = "exact" THEN ExactKeys(exact, i, route) ELSE exact
          /\ prefix' = IF route.match = "prefix" THEN Append(prefix, i) ELSE prefix
          /\ regexes' = IF route.match = "regex" THEN Append(regexes, i) ELSE regexes
          /\ UNCHANGED <<built, req>>

(* The prefix routes stay as they were declared.                           *)
FinishUnsorted ==
    /\ ~built
    /\ built' = TRUE
    /\ UNCHANGED <<declared, routes, exact, prefix, regexes, req>>

(* sort.Slice by descending length.                                        *)
Finish ==
    /\ ~built
    /\ built' = TRUE
    /\ prefix' \in {s \in Arrangements(prefix) :
                      \A j, k \in 1 .. Len(s) :
                         j < k => Len(routes[s[j]].path) >= Len(routes[s[k]].path)}
    /\ UNCHANGED <<declared, routes, exact, regexes, req>>

-----------------------------------------------------------------------------
MethodAllowed(route, m) == route.methods = {} \/ m \in route.methods

(* The exact table's answer for one key.                                   *)
Entry(m, p) == IF <<m, p>> \in DOMAIN exact THEN <<exact[<<m, p>>]>> ELSE <<>>

(* What Match tests on a candidate; an exact one was looked up by its path.*)
Fits(i, m, p) ==
    /\ MethodAllowed(routes[i], m)
    /\ routes[i].match = "prefix" => IsPrefix(routes[i].path, p)
    /\ routes[i].match = "regex" => Regex(routes[i].path, p)

(* The order in which Match looks at routes.                               *)
Candidates(m, p) == Entry(m, p) \o Entry(AnyMethod, p) \o prefix \o regexes

(* Match: the first candidate that fits.                                   *)
Match(m, p) ==
    LET c == Candidates(m, p)
        k == SelectInSeq(c, LAMBDA i : Fits(i, m, p))
    IN IF k = 0 THEN None ELSE c[k]

-----------------------------------------------------------------------------
(* ServeHTTP up to the chain: 404 without a route; a limit wraps the body  *)
(* in MaxBytesReader and limitedBodyReader.  The zero-byte read between    *)
(* them touches nothing and never fails (net/http answers 0, nil), so the  *)
(* 413 of this function is never sent.  Sizes matter only to a limit and   *)
(* headers to plugins.                                                     *)
Serve(m, p) ==
    LET i == Match(m, p)
        limit == IF i = None THEN 0 ELSE routes[i].maxBody
        guarded == i # None /\ routes[i].plugins # <<>>
    IN /\ built /\ req.pc = "idle"
       /\ \E size \in (IF limit > 0 THEN 0 .. MaxSize ELSE {0}),
             h \in (IF guarded THEN Headers ELSE {NoHeaders}) :
             req' = [Idle EXCEPT
                !.pc = IF i = None THEN "notfound" ELSE "chain",
                !.method = m, !.path = p, !.headers = h, !.route = i,
                !.size = size, !.left = size, !.quota = limit]
       /\ UNCHANGED tables

(* One plugin of the request pass; the first that objects ends it.         *)
RunPlugin ==
    LET plugins == routes[req.route].plugins
        plugin  == plugins[req.ran + 1]
        status  == ExecuteRequest(plugin, req.headers, req.method)
    IN /\ req.pc = "chain" /\ req.ran < Len(plugins)
       /\ req' = [req EXCEPT
             !.pc = IF status = Pass THEN @ ELSE "aborted",
             !.status = status,
             !.user = UserAfter(plugin, req.headers, @),
             !.key = IF plugin.type = "rate-limit" THEN BucketKey(plugin.mode, req.user) ELSE @,
             !.ran = @ + 1]
       /\ UNCHANGED tables

(* All plugins have let the request pass.                                  *)
GoUpstream ==
    /\ req.pc = "chain" /\ req.ran = Len(routes[req.route].plugins)
    /\ req' = [req EXCEPT !.pc = "upstream"]
    /\ UNCHANGED tables

Limit == routes[req.route].maxBody

(* The connection is read as it comes.                                     *)
UncheckedRead(k) == [n |-> k, ok |-> TRUE]

(* maxBytesReader.Read when the connection yields k bytes: at most one     *)
(* more than the quota is asked for, and that one becomes the error.       *)
MaxBytesRead(k) ==
    IF k <= req.quota THEN [n |-> k, ok |-> TRUE] ELSE [n |-> req.quota, ok |-> FALSE]

(* limitedBodyReader.Read: a full count is an error before anything is     *)
(* read; otherwise what the inner reader returns is counted.  The end of   *)
(* the body is reported with its last bytes or by a read of its own.       *)
ReadBody(k, eof) ==
    /\ req.pc = "upstream" /\ Limit > 0
    /\ UNCHANGED tables
    /\ IF req.read >= Limit
       THEN req' = [req EXCEPT !.pc = "too_large"]
       ELSE /\ k <= req.left /\ k <= req.quota + 1
            /\ k = 0 => eof
            /\ eof => k = req.left
            /\ LET r == MaxBytesRead(k)
               IN req' = [req EXCEPT
                     !.pc = IF ~r.ok THEN "too_large" ELSE IF eof THEN "eof" ELSE @,
                     !.left = @ - k, !.quota = @ - r.n,
                     !.read = @ + r.n, !.got = @ + r.n]

(* The handler returns, whether or not the body was read to its end; the   *)
(* response pass decides nothing.                                          *)
Return ==
    /\ req.pc \notin {"idle", "chain"}
    /\ req' = Idle
    /\ UNCHANGED tables

Next ==
    \/ \E rc \in RouteConfigs : Declare(rc)
    \/ Finish
    \/ \E m \in Methods, p \in Paths : Serve(m, p)
    \/ RunPlugin \/ GoUpstream
    \/ \E k \in 0 .. MaxSize, eof \in BOOLEAN : ReadBody(k, eof)
    \/ Return

Spec == Init /\ [][Next]_vars

-----------------------------------------------------------------------------
Routes == [match : {"exact", "prefix", "regex"}, path : Seq(Letters),
           methods : SUBSET Methods, maxBody : Nat, plugins : Seq(PluginRef)]

(* The tables hold declared routes and the request has its type.           *)
TypeOK ==
    /\ declared \in Seq(RouteConfigs) /\ Len(declared) <= MaxRoutes
    /\ routes \in Seq(Routes) /\ Len(routes) = Len(declared)
    /\ \A i \in 1 .. Len(declared) :
          \E chain \in ByOrder(declared[i].plugins) : routes[i] = BuildRoute(declared[i], chain)
    /\ exact \in [DOMAIN exact -> 1 .. Len(routes)]
    /\ \A s \in {prefix, regexes} : s \in Seq(1 .. Len(routes))
    /\ built \in BOOLEAN
    /\ req \in RequestRecord

(* A declared route is meant for a request: its path as its match type     *)
(* reads it, and its methods, in any spelling.                             *)
Applies(rc, m, p) ==
    /\ rc.methods = {} \/ \E d \in rc.methods : Upper(d) = m
    /\ CASE rc.match = "exact"  -> rc.path = p
         [] rc.match = "prefix" -> IsPrefix(rc.path, p)
         [] rc.match = "regex"  -> Regex(rc.path, p)

(* 1 for an exact route that names the method, 2 for one that names none,  *)
(* then prefixes, then patterns.                                           *)
Class(rc) ==
    CASE rc.match = "exact"  -> IF rc.methods = {} THEN 2 ELSE 1
      [] rc.match = "prefix" -> 3
      [] rc.match = "regex"  -> 4

(* Route j is to be preferred to i where both apply: the better class,     *)
(* then the later of two exact routes, the longer prefix, the earlier      *)
(* pattern.                                                                *)
Preferred(j, i) ==
    LET better == Class(declared[j])
        class  == Class(declared[i])
    IN \/ better < class
       \/ better = class /\ class \in {1, 2} /\ j > i
       \/ better = class /\ class = 3 /\ Len(declared[j].path) > Len(declared[i].path)
       \/ better = class /\ class = 4 /\ j < i

(* Route i, or None, is a best answer for method m and path p.             *)
Best(i, m, p) ==
    LET fitting == {j \in 1 .. Len(declared) : Applies(declared[j], m, p)}
    IN IF i = None
       THEN fitting = {}
       ELSE i \in fitting /\ \A j \in fitting : ~Preferred(j, i)

(* "Match finds the best-matching Route" (router.go:89), with the priority *)
(* of router.go:3-6: whatever was declared in which order and spelling, a  *)
(* request gets a route that applies to it and to which no other that      *)
(* applies is preferred, and none only if none applies; a route whose      *)
(* methods exclude the request never hides another.                        *)
MatchIsBest == req.pc # "idle" => Best(req.route, req.method, req.path)

(* Through the two limits the reader of a body gets all of it and its end, *)
(* or an error, never more than the limit and never a silently shortened   *)
(* body; a body is refused only when all that the limit allows has been    *)
(* handed over, so never below the limit (handler.go:72-85).  What happens *)
(* at the limit itself is BodyAtLimitAccepted.                             *)
BodyWholeOrRefused ==
    req.pc \in {"upstream", "eof", "too_large"} /\ Limit > 0 =>
        /\ req.got <= Limit
        /\ req.pc = "eof" => req.got = req.size
        /\ req.pc = "too_large" => req.got = Limit /\ req.size >= Limit

(* A body of max_body_bytes, which MaxBytesReader accepts, is accepted:    *)
(* "limitedBodyReader ensures MaxBytesReader is respected even after the   *)
(* zero-byte probe" (handler.go:108).  limitedBodyReader compares its      *)
(* count before it can see the end of the body, and refuses one whose end  *)
(* comes by a read of its own, as a chunked body's does.                   *)
BodyAtLimitAccepted == req.pc = "too_large" => req.size > Limit

(* "Body size limit enforcement (413 before plugin chain runs)"            *)
(* (handler.go:46): no plugin is run for a body above the limit.           *)
OversizedStopsEarly == req.ran > 0 /\ Limit > 0 => req.size <= Limit

(* The plugins that object to the request, taken as the file declares them.*)
Objecting ==
    {pl \in Range(declared[req.route].plugins) :
        ExecuteRequest(pl, req.headers, req.method) # Pass}

(* The orders in the file, not its layout, decide: a request goes upstream *)
(* only if no plugin of its route objects, it is refused with the status   *)
(* of the objecting plugin of least order, and a per-user limiter counts a *)
(* user exactly when a plugin that authenticates has a smaller order       *)
(* ("requires JWT/auth plugin to run before", ratelimit.go:6).             *)
ChainByOrder ==
    LET refs == Range(declared[req.route].plugins)
    IN /\ req.pc \in {"upstream", "eof", "too_large"} => Objecting = {}
       /\ req.pc = "aborted" =>
             \E first \in Objecting :
                /\ \A pl \in Objecting : first.order <= pl.order
                /\ req.status = ExecuteRequest(first, req.headers, req.method)
       /\ req.key = "user" =>
             \E jwt, rl \in refs :
                /\ jwt.type = "jwt-auth" /\ jwt.mode # "passthrough"
                /\ rl.type = "rate-limit" /\ rl.mode = "per-user"
                /\ jwt.order < rl.order
       /\ req.key = "ip" /\ req.headers.token = "user" =>
             \E rl \in refs : rl.type = "rate-limit" /\
                \/ rl.mode # "per-user"
                \/ \A jwt \in refs : jwt.type = "jwt-auth" /\ jwt.mode # "passthrough"
                                       => rl.order < jwt.order
=============================================================================
