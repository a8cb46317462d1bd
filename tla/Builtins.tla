------------------------------ MODULE Builtins ------------------------------
(***************************************************************************)
(* What the built-in plugins decide about a request, as functions of what  *)
(* they look at: the status they abort with, or Pass.  A plugin reference  *)
(* is a record of its type, its order in the route and its mode; the       *)
(* logger and a plugin's response pass decide nothing.                     *)
(***************************************************************************)
EXTENDS Naturals

Pass == 0

(* The empty UserID.                                                       *)
NoUser == "nobody"

(* origin   no Origin header, one on the plugin's list, or another         *)
(* token    no Authorization header; a token that is not Bearer, does not  *)
(*          parse or does not validate; a valid one with a sub claim, or   *)
(*          without                                                        *)
(* limiter  what Allow answers: yes, no, or an error                       *)
Headers == [ origin  : {"none", "listed", "other"},
             token   : {"none", "bad", "user", "anonymous"},
             limiter : {"allowed", "rejected", "error"} ]

(* JWTPlugin.ExecuteRequest.                                               *)
JWT(mode, h) ==
    IF mode = "passthrough" \/ h.token \in {"user", "anonymous"} THEN Pass ELSE 401

(* CORSPlugin.ExecuteRequest: a preflight is answered here.                *)
CORS(mode, h, method) ==
    CASE h.origin = "none" -> Pass
      [] h.origin = "other" /\ mode # "wildcard" -> 403
      [] OTHER -> IF method = "OPTIONS" THEN 204 ELSE Pass

(* RateLimitPlugin.ExecuteRequest: a limiter that fails lets pass.         *)
RateLimit(h) == IF h.limiter = "rejected" THEN 429 ELSE Pass

(* The status with which a plugin aborts.                                  *)
ExecuteRequest(plugin, h, method) ==
    CASE plugin.type = "jwt-auth"   -> JWT(plugin.mode, h)
      [] plugin.type = "cors"       -> CORS(plugin.mode, h, method)
      [] plugin.type = "rate-limit" -> RateLimit(h)
      [] OTHER                      -> Pass

(* GatewayContext.UserID after a plugin that let the request pass.         *)
UserAfter(plugin, h, user) ==
    IF plugin.type = "jwt-auth" /\ plugin.mode # "passthrough" /\ h.token = "user"
    THEN "user" ELSE user

(* bucketKey: which of its quotas the request is counted on.  X-Real-IP    *)
(* was stripped on arrival, so the address is the connection's.            *)
BucketKey(mode, user) == IF mode = "per-user" /\ user # NoUser THEN "user" ELSE "ip"
=============================================================================
