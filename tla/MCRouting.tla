------------------------------ MODULE MCRouting ------------------------------
(* A small instance of Routing: two letters, patterns that are literals,   *)
(* and a method that a config may spell in lower case.                     *)
EXTENDS Routing

MCPaths == {<<"a">>, <<"a", "b">>, <<"b", "a">>}
MCMethods == {"GET", "OPTIONS"}
MCUpper(m) == IF m = "get" THEN "GET" ELSE m

(* MatchString is not anchored: a literal matches wherever it occurs.      *)
MCRegex(pattern, path) ==
    \E k \in 1 .. Len(path) : IsPrefix(pattern, SubSeq(path, k, Len(path)))

Ref(type, order, mode) == [type |-> type, order |-> order, mode |-> mode]

(* Three chains: the limiter knows the user, it runs before the plugin     *)
(* that authenticates, nobody authenticates.                               *)
LimiterLast == <<Ref("rate-limit", 3, "per-user"), Ref("jwt-auth", 1, "validate"),
                 Ref("cors", 2, "list")>>
LimiterFirst == <<Ref("jwt-auth", 3, "validate"), Ref("cors", 2, "wildcard"),
                  Ref("rate-limit", 1, "per-user")>>
Passthrough == <<Ref("request-logger", 2, ""), Ref("rate-limit", 3, "per-user"),
                 Ref("jwt-auth", 1, "passthrough")>>

(* Exact routes limit bodies to one byte, prefix routes to two, patterns   *)
(* run plugins.                                                            *)
MCRouteConfigs ==
    {[match |-> t, path |-> p, methods |-> ms,
      maxBody |-> CASE t = "exact" -> 1 [] t = "prefix" -> 2 [] t = "regex" -> 0,
      plugins |-> CASE t # "regex" -> <<>>
                    [] t = "regex" /\ ms = {} -> LimiterLast
                    [] t = "regex" /\ ms = {"get"} -> Passthrough
                    [] OTHER -> LimiterFirst] :
       t \in {"exact", "prefix", "regex"}, p \in {<<"a">>, <<"a", "b">>},
       ms \in {{}, {"get"}, {"OPTIONS"}}}

(* One route with plugins and a limit of one byte.                         *)
MCLimited ==
    {[match |-> "prefix", path |-> <<"a">>, methods |-> {}, maxBody |-> 1,
      plugins |-> LimiterLast]}
=============================================================================
