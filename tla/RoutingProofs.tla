---------------------------- MODULE RoutingProofs ----------------------------
(***************************************************************************)
(* What Routing promises, for any routes, in any number and spelling, any  *)
(* paths and patterns and any body: the route is the best one, the body    *)
(* limit is exact, and the orders of the plugins decide.                   *)
(***************************************************************************)
EXTENDS Routing, Sums

(* The methods under which an exact route is found.                        *)
Keys(route) == IF route.methods = {} THEN {AnyMethod} ELSE route.methods

(* The exact routes found under method m and path p.                       *)
Named(m, p) ==
    {i \in 1 .. Len(declared) :
        declared[i].match = "exact" /\ declared[i].path = p /\ m \in Keys(routes[i])}

(* The exact table holds the latest of them.                               *)
ExactTable ==
    \A m \in Methods \cup {AnyMethod}, p \in Paths :
        IF <<m, p>> \in DOMAIN exact
        THEN /\ exact[<<m, p>>] \in Named(m, p)
             /\ \A j \in Named(m, p) : j <= exact[<<m, p>>]
        ELSE Named(m, p) = {}

(* A list of routes holds those with a match type.                         *)
Holds(list, type) ==
    /\ \A k \in 1 .. Len(list) : declared[list[k]].match = type
    /\ \A i \in 1 .. Len(declared) :
          declared[i].match = type => \E k \in 1 .. Len(list) : list[k] = i

(* Longer prefixes come first once New is done, patterns as declared.      *)
PrefixTable ==
    /\ Holds(prefix, "prefix")
    /\ built => \A j, k \in 1 .. Len(prefix) :
                   j < k => Len(declared[prefix[j]].path) >= Len(declared[prefix[k]].path)

RegexTable ==
    /\ Holds(regexes, "regex")
    /\ \A j, k \in 1 .. Len(regexes) : j < k => regexes[j] < regexes[k]

Tables == ExactTable /\ PrefixTable /\ RegexTable

(* What was read of the body, what is left of it and what is allowed add   *)
(* up.                                                                     *)
Read(q) ==
    /\ q.got = q.read
    /\ q.pc # "too_large" => q.got + q.left = q.size
    /\ q.quota + q.read = routes[q.route].maxBody
    /\ q.pc = "eof" => q.got = q.size
    /\ q.pc = "too_large" => q.quota = 0 /\ q.size >= routes[q.route].maxBody

Authenticates(pl) == pl.type = "jwt-auth" /\ pl.mode # "passthrough"
Limits(pl) == pl.type = "rate-limit"

(* The plugins that ran, ran in the chain's order: all but a last one let  *)
(* the request pass, and the user is known from the first that             *)
(* authenticates.                                                          *)
Ran(q, chain) ==
    /\ q.ran \in 0 .. Len(chain)
    /\ \A k \in 1 .. Len(chain) :
          k < q.ran \/ (k = q.ran /\ q.pc # "aborted")
             => ExecuteRequest(chain[k], q.headers, q.method) = Pass
    /\ q.pc \in {"upstream", "eof", "too_large"} => q.ran = Len(chain)
    /\ q.pc = "aborted" =>
          /\ q.ran > 0
          /\ q.status = ExecuteRequest(chain[q.ran], q.headers, q.method)
          /\ q.status # Pass
    /\ q.user = "user" <=>
          /\ q.headers.token = "user"
          /\ \E k \in 1 .. Len(chain) : k <= q.ran /\ Authenticates(chain[k])

(* The limiter that counted the request last, and what ran before it.      *)
Keyed(q, chain) ==
    /\ q.key = "user" =>
          \E j, k \in 1 .. Len(chain) :
             /\ j < k
             /\ Authenticates(chain[j])
             /\ Limits(chain[k]) /\ chain[k].mode = "per-user"
    /\ q.key = "ip" /\ q.headers.token = "user" =>
          \E k \in 1 .. Len(chain) :
             /\ Limits(chain[k])
             /\ \/ chain[k].mode # "per-user"
                \/ \A j \in 1 .. Len(chain) : j < k => ~Authenticates(chain[j])

(* A request that is being served by the finished router.                  *)
Active(q) ==
    /\ q.pc # "idle" /\ built
    /\ q.method \in Methods /\ q.path \in Paths
    /\ Best(q.route, q.method, q.path)
    /\ \/ q.pc = "notfound" /\ q.key = "none"
       \/ /\ q.pc # "notfound" /\ q.route \in 1 .. Len(declared)
          /\ Read(q)
          /\ Ran(q, routes[q.route].plugins)
          /\ Keyed(q, routes[q.route].plugins)

Request == req = Idle \/ Active(req)

Inv == TypeOK /\ Tables /\ Request

-----------------------------------------------------------------------------
(* Sorting keeps the elements.                                             *)

LEMMA Arranged ==
    ASSUME NEW S, NEW s \in Seq(S), NEW t \in Arrangements(s)
    PROVE  /\ t \in Seq(S) /\ Len(t) = Len(s)
           /\ \A k \in 1 .. Len(s) : \E j \in 1 .. Len(s) : t[k] = s[j]
           /\ \A j \in 1 .. Len(s) : \E k \in 1 .. Len(s) : t[k] = s[j]
<1>1. DOMAIN s = 1 .. Len(s) /\ Len(s) \in Nat
  OBVIOUS
<1>2. PICK p \in Bijection(1 .. Len(s), 1 .. Len(s)) : t = [k \in 1 .. Len(s) |-> s[p[k]]]
  BY <1>1 DEF Arrangements
<1>3. /\ p \in [1 .. Len(s) -> 1 .. Len(s)]
      /\ \A j \in 1 .. Len(s) : \E k \in 1 .. Len(s) : p[k] = j
  BY <1>2 DEF Bijection, Injection, Surjection
<1>4. t \in Seq(S) /\ Len(t) = Len(s)
  BY <1>1, <1>2, <1>3
<1> QED
  BY <1>2, <1>3, <1>4

(* What the assumption says of a declared route, and its chain.            *)
LEMMA Declared ==
    ASSUME NEW rc \in RouteConfigs
    PROVE  /\ rc.match \in {"exact", "prefix", "regex"} /\ rc.path \in Seq(Letters)
           /\ \A m \in rc.methods : Upper(m) \in Methods
           /\ rc.maxBody \in Nat /\ rc.plugins \in Seq(PluginRef)
           /\ \A j, k \in 1 .. Len(rc.plugins) :
                 j # k => rc.plugins[j].order # rc.plugins[k].order
  BY RoutingAssumption

LEMMA ChainFacts ==
    ASSUME NEW rc \in RouteConfigs, NEW chain \in ByOrder(rc.plugins)
    PROVE  /\ chain \in Seq(PluginRef) /\ Len(chain) = Len(rc.plugins)
           /\ \A k \in 1 .. Len(chain) : chain[k] \in Range(rc.plugins)
           /\ \A pl \in Range(rc.plugins) : \E k \in 1 .. Len(chain) : chain[k] = pl
           /\ \A j, k \in 1 .. Len(chain) : j < k => chain[j].order <= chain[k].order
           /\ \A j, k \in 1 .. Len(chain) :
                 chain[j] # chain[k] => chain[j].order # chain[k].order
<1>1. /\ chain \in Arrangements(rc.plugins)
      /\ \A j, k \in DOMAIN chain : j < k => chain[j].order <= chain[k].order
  BY DEF ByOrder
<1>2. rc.plugins \in Seq(PluginRef)
  BY Declared
<1>3. chain \in Seq(PluginRef) /\ Len(chain) = Len(rc.plugins)
  BY <1>1, <1>2, Arranged
<1>4. /\ \A k \in 1 .. Len(chain) : \E j \in 1 .. Len(chain) : chain[k] = rc.plugins[j]
      /\ \A j \in 1 .. Len(chain) : \E k \in 1 .. Len(chain) : chain[k] = rc.plugins[j]
  <2> DEFINE s == rc.plugins
  <2>1. s \in Seq(PluginRef) /\ chain \in Arrangements(s) /\ Len(s) = Len(chain)
    BY <1>1, <1>2, <1>3
  <2> HIDE DEF s
  <2>2. /\ \A k \in 1 .. Len(s) : \E j \in 1 .. Len(s) : chain[k] = s[j]
        /\ \A j \in 1 .. Len(s) : \E k \in 1 .. Len(s) : chain[k] = s[j]
    BY <2>1, Arranged
  <2>3. /\ \A k \in 1 .. Len(chain) : \E j \in 1 .. Len(chain) : chain[k] = s[j]
        /\ \A j \in 1 .. Len(chain) : \E k \in 1 .. Len(chain) : chain[k] = s[j]
    BY <2>1, <2>2
  <2> QED
    BY <2>3 DEF s
<1>5. DOMAIN rc.plugins = 1 .. Len(chain) /\ DOMAIN chain = 1 .. Len(chain)
  BY <1>2, <1>3
<1>6. \A k \in 1 .. Len(chain) : chain[k] \in Range(rc.plugins)
  BY <1>4, <1>5 DEF Range
<1>7. ASSUME NEW pl \in Range(rc.plugins)
      PROVE  \E k \in 1 .. Len(chain) : chain[k] = pl
  <2>1. PICK j \in 1 .. Len(chain) : pl = rc.plugins[j]
    BY <1>5 DEF Range
  <2> QED
    BY <1>4, <2>1
<1>8. ASSUME NEW j \in 1 .. Len(chain), NEW k \in 1 .. Len(chain), chain[j] # chain[k]
      PROVE  chain[j].order # chain[k].order
  <2>1. PICK x \in 1 .. Len(chain) : chain[j] = rc.plugins[x]
    BY <1>4
  <2>2. PICK y \in 1 .. Len(chain) : chain[k] = rc.plugins[y]
    BY <1>4
  <2>3. x # y
    BY <1>8, <2>1, <2>2
  <2>4. x \in 1 .. Len(rc.plugins) /\ y \in 1 .. Len(rc.plugins)
    BY <1>3
  <2>5. rc.plugins[x].order # rc.plugins[y].order
    BY <2>3, <2>4, Declared
  <2> QED
    BY <2>1, <2>2, <2>5
<1> QED
  BY <1>1, <1>3, <1>5, <1>6, <1>7, <1>8

LEMMA BuildFacts ==
    ASSUME NEW rc \in RouteConfigs, NEW chain \in ByOrder(rc.plugins)
    PROVE  /\ BuildRoute(rc, chain) \in Routes
           /\ BuildRoute(rc, chain).match = rc.match
           /\ BuildRoute(rc, chain).path = rc.path
           /\ BuildRoute(rc, chain).methods = {Upper(m) : m \in rc.methods}
           /\ BuildRoute(rc, chain).maxBody = rc.maxBody
           /\ BuildRoute(rc, chain).plugins = chain
<1>1. {Upper(m) : m \in rc.methods} \in SUBSET Methods
  BY Declared
<1>2. chain \in Seq(PluginRef)
  BY ChainFacts
<1>3. /\ rc.match \in {"exact", "prefix", "regex"} /\ rc.path \in Seq(Letters)
      /\ rc.maxBody \in Nat
  BY Declared
<1> DEFINE ms == {Upper(m) : m \in rc.methods}
<1> HIDE DEF ms
<1>4. BuildRoute(rc, chain) = [match |-> rc.match, path |-> rc.path, methods |-> ms,
                               maxBody |-> rc.maxBody, plugins |-> chain]
  BY DEF BuildRoute, ms
<1>5. ms \in SUBSET Methods
  BY <1>1 DEF ms
<1> QED
  BY <1>2, <1>3, <1>4, <1>5 DEF Routes, ms

(* A built route and the one that was declared.                            *)
LEMMA RouteFacts ==
    ASSUME TypeOK, NEW i \in 1 .. Len(declared)
    PROVE  /\ declared[i] \in RouteConfigs /\ routes[i] \in Routes
           /\ routes[i].match = declared[i].match /\ routes[i].path = declared[i].path
           /\ routes[i].methods = {Upper(m) : m \in declared[i].methods}
           /\ routes[i].maxBody = declared[i].maxBody
           /\ routes[i].plugins \in ByOrder(declared[i].plugins)
<1>1. declared[i] \in RouteConfigs
  BY DEF TypeOK
<1>2. PICK chain \in ByOrder(declared[i].plugins) : routes[i] = BuildRoute(declared[i], chain)
  BY DEF TypeOK
<1> QED
  BY <1>1, <1>2, BuildFacts

-----------------------------------------------------------------------------
(* Match.                                                                  *)

(* The parts of a list, and of the list of candidates.                     *)
LEMMA TwoParts ==
    ASSUME NEW S, NEW a \in Seq(S), NEW b \in Seq(S)
    PROVE  /\ a \o b \in Seq(S) /\ Len(a \o b) = Len(a) + Len(b)
           /\ \A k \in 1 .. Len(a) : (a \o b)[k] = a[k]
           /\ \A k \in 1 .. Len(b) : (a \o b)[Len(a) + k] = b[k]
  OBVIOUS

(* c is made of four lists.                                                *)
Parts(c, S, a, b, x, y) ==
    /\ c \in Seq(S) /\ Len(c) = Len(a) + Len(b) + Len(x) + Len(y)
    /\ \A k \in 1 .. Len(a) : c[k] = a[k]
    /\ \A k \in 1 .. Len(b) : c[Len(a) + k] = b[k]
    /\ \A k \in 1 .. Len(x) : c[Len(a) + Len(b) + k] = x[k]
    /\ \A k \in 1 .. Len(y) : c[Len(a) + Len(b) + Len(x) + k] = y[k]

LEMMA Concat ==
    ASSUME NEW S, NEW a \in Seq(S), NEW b \in Seq(S), NEW x \in Seq(S), NEW y \in Seq(S)
    PROVE  Parts(a \o b \o x \o y, S, a, b, x, y)
<1> DEFINE d == a \o b
           e == d \o x
           c == e \o y
<1>1. /\ d \in Seq(S) /\ Len(d) = Len(a) + Len(b)
      /\ \A k \in 1 .. Len(a) : d[k] = a[k]
      /\ \A k \in 1 .. Len(b) : d[Len(a) + k] = b[k]
  BY TwoParts
<1> HIDE DEF d
<1>2. /\ e \in Seq(S) /\ Len(e) = Len(d) + Len(x)
      /\ \A k \in 1 .. Len(d) : e[k] = d[k]
      /\ \A k \in 1 .. Len(x) : e[Len(d) + k] = x[k]
  <2>1. d \in Seq(S)
    BY <1>1
  <2> QED
    BY <2>1, TwoParts
<1> HIDE DEF e
<1>3. /\ c \in Seq(S) /\ Len(c) = Len(e) + Len(y)
      /\ \A k \in 1 .. Len(e) : c[k] = e[k]
      /\ \A k \in 1 .. Len(y) : c[Len(e) + k] = y[k]
  <2>1. e \in Seq(S)
    BY <1>2
  <2> QED
    BY <2>1, TwoParts
<1> HIDE DEF c
<1>4. Len(a) \in Nat /\ Len(b) \in Nat /\ Len(x) \in Nat /\ Len(y) \in Nat
  OBVIOUS
<1>5. \A k \in 1 .. Len(d) : c[k] = d[k]
  BY <1>1, <1>2, <1>3, <1>4
<1>6. \A k \in 1 .. Len(a) : c[k] = a[k]
  BY <1>1, <1>4, <1>5
<1>7. ASSUME NEW k \in 1 .. Len(b) PROVE c[Len(a) + k] = b[k]
  <2>1. Len(a) + k \in 1 .. Len(d)
    BY <1>1, <1>4
  <2> QED
    BY <1>1, <1>5, <2>1
<1>8. ASSUME NEW k \in 1 .. Len(x) PROVE c[Len(d) + k] = x[k]
  <2>1. Len(d) + k \in 1 .. Len(e)
    BY <1>1, <1>2, <1>4
  <2> QED
    BY <1>2, <1>3, <2>1
<1> QED
  <2>1. Parts(c, S, a, b, x, y)
    BY <1>1, <1>2, <1>3, <1>6, <1>7, <1>8 DEF Parts
  <2> QED
    BY <2>1 DEF c, d, e

(* Candidates that pass Match's tests are routes that apply.               *)
LEMMA FitsIsApplies ==
    ASSUME TypeOK, NEW i \in 1 .. Len(declared), NEW m \in Methods, NEW p,
           declared[i].match = "exact" => declared[i].path = p
    PROVE  Fits(i, m, p) <=> Applies(declared[i], m, p)
<1>1. /\ routes[i].match = declared[i].match /\ routes[i].path = declared[i].path
      /\ routes[i].methods = {Upper(d) : d \in declared[i].methods}
      /\ declared[i].match \in {"exact", "prefix", "regex"}
  BY RouteFacts, Declared
<1>2. MethodAllowed(routes[i], m)
         <=> declared[i].methods = {} \/ \E d \in declared[i].methods : Upper(d) = m
  BY <1>1 DEF MethodAllowed
<1>3. CASE declared[i].match = "exact"
  BY <1>1, <1>2, <1>3 DEF Fits, Applies
<1>4. CASE declared[i].match = "prefix"
  BY <1>1, <1>2, <1>4 DEF Fits, Applies
<1>5. CASE declared[i].match = "regex"
  BY <1>1, <1>2, <1>5 DEF Fits, Applies
<1> QED
  BY <1>1, <1>3, <1>4, <1>5

(* The exact routes that apply are the ones the two lookups find.          *)
LEMMA NamedFacts ==
    ASSUME TypeOK, NEW m \in Methods, NEW p \in Paths, NEW i \in 1 .. Len(declared),
           declared[i].match = "exact"
    PROVE  /\ i \in Named(m, p) <=> Applies(declared[i], m, p) /\ declared[i].methods # {}
           /\ i \in Named(AnyMethod, p)
                 <=> Applies(declared[i], m, p) /\ declared[i].methods = {}
<1>1. routes[i].methods = {Upper(d) : d \in declared[i].methods}
  BY RouteFacts
<1>2. m # AnyMethod /\ \A d \in declared[i].methods : Upper(d) # AnyMethod
  <2>1. \A d \in declared[i].methods : Upper(d) \in Methods
    BY RouteFacts, Declared
  <2> QED
    BY <2>1, RoutingAssumption
<1>3. Applies(declared[i], m, p) <=>
         /\ declared[i].methods = {} \/ \E d \in declared[i].methods : Upper(d) = m
         /\ declared[i].path = p
  BY DEF Applies
<1>4. m \in Keys(routes[i]) <=> \E d \in declared[i].methods : Upper(d) = m
  BY <1>1, <1>2 DEF Keys
<1>5. AnyMethod \in Keys(routes[i]) <=> declared[i].methods = {}
  BY <1>1, <1>2 DEF Keys
<1> QED
  BY <1>3, <1>4, <1>5 DEF Named

(* The answer of a lookup: the latest of the routes named by the key.      *)
LEMMA EntryFacts ==
    ASSUME TypeOK, ExactTable, NEW m \in Methods \cup {AnyMethod}, NEW p \in Paths
    PROVE  /\ Entry(m, p) \in Seq(1 .. Len(declared)) /\ Len(Entry(m, p)) \in {0, 1}
           /\ Named(m, p) # {} => Len(Entry(m, p)) = 1
           /\ \A h \in 1 .. Len(Entry(m, p)) :
                 /\ h = 1 /\ Entry(m, p)[h] \in Named(m, p)
                 /\ \A j \in Named(m, p) : j <= Entry(m, p)[h]
<1>1. IF <<m, p>> \in DOMAIN exact
      THEN /\ exact[<<m, p>>] \in Named(m, p)
           /\ \A j \in Named(m, p) : j <= exact[<<m, p>>]
      ELSE Named(m, p) = {}
  BY DEF ExactTable
<1>2. CASE <<m, p>> \in DOMAIN exact
  <2> DEFINE e == exact[<<m, p>>]
  <2>1. Entry(m, p) = <<e>>
    BY <1>2 DEF Entry
  <2>2. e \in Named(m, p) /\ \A j \in Named(m, p) : j <= e
    BY <1>1, <1>2
  <2>3. e \in 1 .. Len(declared)
    BY <2>2 DEF Named
  <2> HIDE DEF e
  <2>4. <<e>> \in Seq(1 .. Len(declared)) /\ Len(<<e>>) = 1 /\ <<e>>[1] = e
    BY <2>3
  <2> QED
    BY <2>1, <2>2, <2>4
<1>3. CASE <<m, p>> \notin DOMAIN exact
  <2>1. Entry(m, p) = <<>>
    BY <1>3 DEF Entry
  <2>2. Named(m, p) = {}
    BY <1>1, <1>3
  <2> QED
    BY <2>1, <2>2
<1> QED
  BY <1>2, <1>3

(* The list of candidates, part by part.                                   *)
LEMMA CandidateParts ==
    ASSUME TypeOK, ExactTable, NEW m \in Methods, NEW p \in Paths
    PROVE  LET c == Candidates(m, p)
               a == Entry(m, p)
               b == Entry(AnyMethod, p)
               x == Len(a) + Len(b)
               y == Len(a) + Len(b) + Len(prefix)
           IN /\ c \in Seq(1 .. Len(declared)) /\ Len(c) = y + Len(regexes)
              /\ \A k \in 1 .. Len(a) : c[k] = a[k]
              /\ \A k \in 1 .. Len(b) : c[Len(a) + k] = b[k]
              /\ \A k \in 1 .. Len(prefix) : c[x + k] = prefix[k]
              /\ \A k \in 1 .. Len(regexes) : c[y + k] = regexes[k]
<1> DEFINE a == Entry(m, p)
           b == Entry(AnyMethod, p)
           S == 1 .. Len(declared)
<1>1. a \in Seq(S) /\ b \in Seq(S)
  BY EntryFacts
<1>2. prefix \in Seq(S) /\ regexes \in Seq(S)
  BY DEF TypeOK
<1> HIDE DEF a, b, S
<1>3. Candidates(m, p) = a \o b \o prefix \o regexes
  BY DEF Candidates, a, b
<1>4. Parts(a \o b \o prefix \o regexes, S, a, b, prefix, regexes)
  BY <1>1, <1>2, Concat
<1>5. Parts(Candidates(m, p), S, a, b, prefix, regexes)
  BY <1>3, <1>4
<1> QED
  <2> DEFINE c == Candidates(m, p)
  <2>1. Parts(c, S, a, b, prefix, regexes)
    BY <1>5
  <2> HIDE DEF c
  <2> QED
    BY <2>1 DEF Parts, a, b, c, S

(* The classes of the candidates.                                          *)
LEMMA Classes ==
    ASSUME TypeOK, NEW m \in Methods, NEW p \in Paths, NEW i \in 1 .. Len(declared)
    PROVE  /\ i \in Named(m, p) => Class(declared[i]) = 1
           /\ i \in Named(AnyMethod, p) => Class(declared[i]) = 2
           /\ declared[i].match = "prefix" => Class(declared[i]) = 3
           /\ declared[i].match = "regex" => Class(declared[i]) = 4
<1>1. i \in Named(m, p) => declared[i].match = "exact" /\ declared[i].methods # {}
  BY NamedFacts DEF Named
<1>2. i \in Named(AnyMethod, p) => declared[i].match = "exact" /\ declared[i].methods = {}
  BY NamedFacts DEF Named
<1> QED
  BY <1>1, <1>2 DEF Class

(* A route that applies is a candidate that fits, or the like of it is,    *)
(* and no candidate that fits before is one it is preferred to.            *)
LEMMA Covered ==
    ASSUME TypeOK, Tables, built, NEW m \in Methods, NEW p \in Paths,
           NEW j \in 1 .. Len(declared), Applies(declared[j], m, p)
    PROVE  \E k \in 1 .. Len(Candidates(m, p)) :
              /\ Fits(Candidates(m, p)[k], m, p)
              /\ \A h \in 1 .. k : ~Preferred(j, Candidates(m, p)[h])
<1> DEFINE c == Candidates(m, p)
           a == Entry(m, p)
           b == Entry(AnyMethod, p)
           x == Len(a) + Len(b)
           y == Len(a) + Len(b) + Len(prefix)
<1>1. /\ c \in Seq(1 .. Len(declared)) /\ Len(c) = y + Len(regexes)
      /\ \A k \in 1 .. Len(a) : c[k] = a[k]
      /\ \A k \in 1 .. Len(b) : c[Len(a) + k] = b[k]
      /\ \A k \in 1 .. Len(prefix) : c[x + k] = prefix[k]
      /\ \A k \in 1 .. Len(regexes) : c[y + k] = regexes[k]
  BY CandidateParts DEF Tables
<1>2. /\ Len(a) \in {0, 1} /\ (Named(m, p) # {} => Len(a) = 1)
      /\ \A h \in 1 .. Len(a) :
            h = 1 /\ a[h] \in Named(m, p) /\ \A i \in Named(m, p) : i <= a[h]
  BY EntryFacts DEF Tables
<1>3. /\ Len(b) \in {0, 1} /\ (Named(AnyMethod, p) # {} => Len(b) = 1)
      /\ \A h \in 1 .. Len(b) :
            /\ h = 1 /\ b[h] \in Named(AnyMethod, p)
            /\ \A i \in Named(AnyMethod, p) : i <= b[h]
  BY EntryFacts DEF Tables
<1>4. /\ prefix \in Seq(1 .. Len(declared)) /\ Len(prefix) \in Nat
      /\ regexes \in Seq(1 .. Len(declared)) /\ Len(regexes) \in Nat
  BY DEF TypeOK
<1> HIDE DEF c, a, b
<1>5. \A h \in 1 .. Len(a) : Class(declared[a[h]]) = 1 /\ a[h] \in 1 .. Len(declared)
  BY <1>2, Classes DEF Named
<1>6. \A h \in 1 .. Len(b) : Class(declared[b[h]]) = 2 /\ b[h] \in 1 .. Len(declared)
  BY <1>3, Classes DEF Named
<1>7. \A h \in 1 .. Len(prefix) :
         /\ Class(declared[prefix[h]]) = 3 /\ prefix[h] \in 1 .. Len(declared)
         /\ declared[prefix[h]].match = "prefix"
  BY <1>4, Classes DEF Tables, PrefixTable, Holds
<1>8. \A h \in 1 .. Len(regexes) :
         /\ Class(declared[regexes[h]]) = 4 /\ regexes[h] \in 1 .. Len(declared)
         /\ declared[regexes[h]].match = "regex"
  BY <1>4, Classes DEF Tables, RegexTable, Holds
<1>9. ASSUME NEW h \in 1 .. Len(a), Class(declared[j]) \in {2, 3, 4}
      PROVE  ~Preferred(j, a[h])
  BY <1>5, <1>9 DEF Preferred
<1>10. ASSUME NEW h \in 1 .. Len(b), Class(declared[j]) \in {3, 4}
       PROVE  ~Preferred(j, b[h])
  BY <1>6, <1>10 DEF Preferred
<1>11. ASSUME NEW h \in 1 .. Len(prefix), Class(declared[j]) = 4
       PROVE  ~Preferred(j, prefix[h])
  BY <1>7, <1>11 DEF Preferred
<1>12. declared[j].match \in {"exact", "prefix", "regex"}
  BY RouteFacts, Declared
<1>13. CASE declared[j].match = "exact" /\ declared[j].methods # {}
  <2>1. j \in Named(m, p) /\ Class(declared[j]) = 1
    BY <1>13, NamedFacts, Classes
  <2>2. Len(a) = 1 /\ a[1] \in Named(m, p) /\ j <= a[1]
    BY <1>2, <2>1
  <2>3. Fits(a[1], m, p)
    <3>1. /\ a[1] \in 1 .. Len(declared) /\ declared[a[1]].match = "exact"
          /\ declared[a[1]].path = p
      BY <2>2 DEF Named
    <3> QED
      BY <2>2, <3>1, NamedFacts, FitsIsApplies
  <2>4. ~Preferred(j, a[1])
    BY <1>5, <2>1, <2>2 DEF Preferred
  <2>5. c[1] = a[1] /\ 1 \in 1 .. Len(c)
    BY <1>1, <1>3, <1>4, <2>2
  <2> QED
    BY <2>3, <2>4, <2>5 DEF c
<1>14. CASE declared[j].match = "exact" /\ declared[j].methods = {}
  <2>1. j \in Named(AnyMethod, p) /\ Class(declared[j]) = 2
    BY <1>14, NamedFacts, Classes
  <2>2. Len(b) = 1 /\ b[1] \in Named(AnyMethod, p) /\ j <= b[1]
    BY <1>3, <2>1
  <2>3. Fits(b[1], m, p)
    <3>1. /\ b[1] \in 1 .. Len(declared) /\ declared[b[1]].match = "exact"
          /\ declared[b[1]].path = p
      BY <2>2 DEF Named
    <3> QED
      BY <2>2, <3>1, NamedFacts, FitsIsApplies
  <2>4. ~Preferred(j, b[1])
    BY <1>6, <2>1, <2>2 DEF Preferred
  <2>5. c[Len(a) + 1] = b[1] /\ Len(a) + 1 \in 1 .. Len(c)
    BY <1>1, <1>2, <1>4, <2>2
  <2>6. ASSUME NEW h \in 1 .. Len(a) + 1 PROVE ~Preferred(j, c[h])
    <3>1. CASE h = Len(a) + 1
      BY <2>4, <2>5, <3>1
    <3>2. CASE h # Len(a) + 1
      <4>1. h \in 1 .. Len(a)
        BY <1>2, <3>2
      <4> QED
        BY <1>1, <1>9, <2>1, <4>1
    <3> QED
      BY <3>1, <3>2
  <2> QED
    BY <2>3, <2>5, <2>6 DEF c
<1>15. CASE declared[j].match = "prefix"
  <2>1. Class(declared[j]) = 3
    BY <1>15, Classes
  <2>2. PICK t \in 1 .. Len(prefix) : prefix[t] = j
    BY <1>15 DEF Tables, PrefixTable, Holds
  <2>3. Fits(j, m, p)
    BY <1>15, FitsIsApplies
  <2>4. c[x + t] = j /\ x + t \in 1 .. Len(c)
    <3>1. c[x + t] = prefix[t]
      BY <1>1, <2>2
    <3>2. x + t \in 1 .. y + Len(regexes)
      BY <1>2, <1>3, <1>4, <2>2
    <3> QED
      BY <1>1, <2>2, <3>1, <3>2
  <2>5. ASSUME NEW g \in 1 .. t PROVE ~Preferred(j, prefix[g])
    <3>1. g \in 1 .. Len(prefix) /\ Class(declared[prefix[g]]) = 3
      BY <1>4, <1>7
    <3>2. /\ Len(declared[prefix[g]].path) \in Nat
          /\ Len(declared[j].path) \in Nat
      BY <1>7, <3>1, RouteFacts, Declared, SMTT(40)
    <3>3. Len(declared[prefix[g]].path) >= Len(declared[j].path)
      <4>1. CASE g = t
        BY <2>2, <3>2, <4>1
      <4>2. CASE g # t
        BY <1>4, <2>2, <3>1, <4>2 DEF Tables, PrefixTable
      <4> QED
        BY <4>1, <4>2
    <3> QED
      BY <2>1, <3>1, <3>2, <3>3 DEF Preferred
  <2>6. ASSUME NEW h \in 1 .. x + t PROVE ~Preferred(j, c[h])
    <3>1. CASE h \in 1 .. Len(a)
      BY <1>1, <1>9, <2>1, <3>1
    <3>2. CASE h > Len(a) /\ h <= x
      <4>1. h - Len(a) \in 1 .. Len(b) /\ h = Len(a) + (h - Len(a))
        BY <1>2, <1>3, <3>2
      <4> QED
        BY <1>1, <1>10, <2>1, <4>1, ZenonT(60)
    <3>3. CASE h > x
      <4>1. h - x \in 1 .. t /\ h = x + (h - x) /\ h - x \in 1 .. Len(prefix)
        BY <1>2, <1>3, <1>4, <3>3
      <4>2. c[h] = prefix[h - x]
        BY <1>1, <4>1
      <4> QED
        BY <2>5, <4>1, <4>2
    <3> QED
      BY <1>2, <1>3, <3>1, <3>2, <3>3
  <2> QED
    BY <2>3, <2>4, <2>6 DEF c
<1>16. CASE declared[j].match = "regex"
  <2>1. Class(declared[j]) = 4
    BY <1>16, Classes
  <2>2. PICK t \in 1 .. Len(regexes) : regexes[t] = j
    BY <1>16 DEF Tables, RegexTable, Holds
  <2>3. Fits(j, m, p)
    BY <1>16, FitsIsApplies
  <2>4. c[y + t] = j /\ y + t \in 1 .. Len(c)
    BY <1>1, <1>2, <1>3, <1>4, <2>2, SMTT(40)
  <2>5. ASSUME NEW g \in 1 .. t PROVE ~Preferred(j, regexes[g])
    <3>1. g \in 1 .. Len(regexes) /\ Class(declared[regexes[g]]) = 4
      BY <1>4, <1>8
    <3>2. regexes[g] \in Int /\ j \in Int
      BY <1>8, <3>1
    <3>3. regexes[g] <= j
      <4>1. CASE g = t
        BY <2>2, <3>2, <4>1
      <4>2. CASE g # t
        BY <1>4, <2>2, <3>1, <3>2, <4>2 DEF Tables, RegexTable
      <4> QED
        BY <4>1, <4>2
    <3> QED
      BY <2>1, <3>1, <3>2, <3>3 DEF Preferred
  <2>6. ASSUME NEW h \in 1 .. y + t PROVE ~Preferred(j, c[h])
    <3>1. CASE h \in 1 .. Len(a)
      BY <1>1, <1>9, <2>1, <3>1
    <3>2. CASE h > Len(a) /\ h <= x
      <4>1. h - Len(a) \in 1 .. Len(b) /\ h = Len(a) + (h - Len(a))
        BY <1>2, <1>3, <3>2
      <4> QED
        BY <1>1, <1>10, <2>1, <4>1, ZenonT(60)
    <3>3. CASE h > x /\ h <= y
      <4>1. h - x \in 1 .. Len(prefix) /\ h = x + (h - x)
        BY <1>2, <1>3, <1>4, <3>3
      <4> QED
        BY <1>1, <1>11, <2>1, <4>1, ZenonT(60)
    <3>4. CASE h > y
      <4>1. h - y \in 1 .. t /\ h = y + (h - y) /\ h - y \in 1 .. Len(regexes)
        BY <1>2, <1>3, <1>4, <3>4
      <4>2. c[h] = regexes[h - y]
        BY <1>1, <4>1
      <4> QED
        BY <2>5, <4>1, <4>2
    <3> QED
      BY <1>2, <1>3, <1>4, <3>1, <3>2, <3>3, <3>4
  <2> QED
    BY <2>3, <2>4, <2>6 DEF c
<1> QED
  BY <1>12, <1>13, <1>14, <1>15, <1>16

(* An exact candidate has the path that was looked up.                     *)
LEMMA ExactCandidate ==
    ASSUME TypeOK, Tables, NEW m \in Methods, NEW p \in Paths,
           NEW k \in 1 .. Len(Candidates(m, p))
    PROVE  declared[Candidates(m, p)[k]].match = "exact"
              => declared[Candidates(m, p)[k]].path = p
<1> DEFINE c == Candidates(m, p)
           a == Entry(m, p)
           b == Entry(AnyMethod, p)
           x == Len(a) + Len(b)
           y == Len(a) + Len(b) + Len(prefix)
<1>1. /\ Len(c) = y + Len(regexes)
      /\ \A h \in 1 .. Len(a) : c[h] = a[h]
      /\ \A h \in 1 .. Len(b) : c[Len(a) + h] = b[h]
      /\ \A h \in 1 .. Len(prefix) : c[x + h] = prefix[h]
      /\ \A h \in 1 .. Len(regexes) : c[y + h] = regexes[h]
  BY CandidateParts DEF Tables
<1>2. Len(a) \in {0, 1} /\ \A h \in 1 .. Len(a) : a[h] \in Named(m, p)
  BY EntryFacts DEF Tables
<1>3. Len(b) \in {0, 1} /\ \A h \in 1 .. Len(b) : b[h] \in Named(AnyMethod, p)
  BY EntryFacts DEF Tables
<1>4. Len(prefix) \in Nat /\ Len(regexes) \in Nat
  BY DEF TypeOK
<1>5. /\ \A h \in 1 .. Len(prefix) : declared[prefix[h]].match = "prefix"
      /\ \A h \in 1 .. Len(regexes) : declared[regexes[h]].match = "regex"
  BY DEF Tables, PrefixTable, RegexTable, Holds
<1> HIDE DEF c, a, b
<1>6. k \in 1 .. Len(c)
  BY DEF c
<1>7. CASE k <= Len(a)
  <2>1. c[k] \in Named(m, p)
    BY <1>1, <1>2, <1>6, <1>7
  <2> QED
    BY <2>1 DEF Named, c
<1>8. CASE k > Len(a) /\ k <= x
  <2>1. k - Len(a) \in 1 .. Len(b) /\ k = Len(a) + (k - Len(a))
    BY <1>2, <1>3, <1>6, <1>8
  <2>2. c[k] \in Named(AnyMethod, p)
    BY <1>1, <1>3, <2>1
  <2> QED
    BY <2>2 DEF Named, c
<1>9. CASE k > x /\ k <= y
  <2>1. k - x \in 1 .. Len(prefix) /\ k = x + (k - x)
    BY <1>2, <1>3, <1>4, <1>6, <1>9
  <2>2. c[x + (k - x)] = prefix[k - x]
    BY <1>1, <2>1
  <2>3. declared[c[k]].match = "prefix"
    BY <1>5, <2>1, <2>2
  <2> QED
    BY <2>3 DEF c
<1>10. CASE k > y
  <2>1. k - y \in 1 .. Len(regexes) /\ k = y + (k - y)
    BY <1>1, <1>2, <1>3, <1>4, <1>6, <1>10
  <2>2. c[y + (k - y)] = regexes[k - y]
    BY <1>1, <2>1
  <2>3. declared[c[k]].match = "regex"
    BY <1>5, <2>1, <2>2
  <2> QED
    BY <2>3 DEF c
<1> QED
  BY <1>2, <1>3, <1>4, <1>6, <1>7, <1>8, <1>9, <1>10

(* Match's answer is a best one.                                           *)
LEMMA MatchBest ==
    ASSUME TypeOK, Tables, built, NEW m \in Methods, NEW p \in Paths
    PROVE  /\ Match(m, p) \in 0 .. Len(declared)
           /\ Best(Match(m, p), m, p)
<1> DEFINE c == Candidates(m, p)
           I == {k \in 1 .. Len(c) : Fits(c[k], m, p)}
<1>1. Match(m, p) = IF I # {} THEN (IF Min(I) = 0 THEN None ELSE c[Min(I)]) ELSE None
  BY DEF Match, SelectInSeq, None
<1>2. c \in Seq(1 .. Len(declared)) /\ Len(declared) \in Nat
  BY CandidateParts DEF Tables, TypeOK
<1>3. CASE I = {}
  <2>1. Match(m, p) = None
    BY <1>1, <1>3
  <2>2. \A j \in 1 .. Len(declared) : ~Applies(declared[j], m, p)
    BY <1>3, Covered
  <2> QED
    BY <1>2, <2>1, <2>2 DEF Best, None
<1>4. CASE I # {}
  <2> DEFINE k == Min(I)
             i == c[k]
  <2>1. k \in I /\ \A h \in I : k <= h
    <3>1. I \in SUBSET Nat
      OBVIOUS
    <3> HIDE DEF I
    <3> QED
      BY <1>4, <3>1, Least
  <2>2. k \in 1 .. Len(c) /\ Fits(i, m, p)
    BY <2>1
  <2>3. i \in 1 .. Len(declared)
    BY <1>2, <2>2
  <2>4. Match(m, p) = i
    <3>1. k # 0
      BY <2>2
    <3> QED
      BY <1>1, <1>4, <3>1
  <2>5. Applies(declared[i], m, p)
    <3>1. declared[i].match = "exact" => declared[i].path = p
      BY <2>2, <2>3, ExactCandidate
    <3> HIDE DEF i
    <3> QED
      BY <2>2, <2>3, <3>1, FitsIsApplies
  <2>6. ASSUME NEW j \in 1 .. Len(declared), Applies(declared[j], m, p)
        PROVE  ~Preferred(j, i)
    <3>1. PICK h \in 1 .. Len(c) : Fits(c[h], m, p) /\ \A g \in 1 .. h : ~Preferred(j, c[g])
      BY <2>6, Covered
    <3>2. h \in I
      BY <3>1
    <3>3. k <= h
      BY <2>1, <3>2
    <3>4. k \in 1 .. h
      BY <2>2, <3>3
    <3> QED
      BY <3>1, <3>4
  <2> HIDE DEF i
  <2>7. i # None
    BY <2>3 DEF None
  <2> QED
    BY <2>3, <2>4, <2>5, <2>6, <2>7 DEF Best
<1> QED
  BY <1>3, <1>4

-----------------------------------------------------------------------------
(* New.                                                                    *)

LEMMA Initially == Init => Inv
<1> SUFFICES ASSUME Init PROVE Inv
  OBVIOUS
<1>1. Idle \in RequestRecord
  BY RoutingAssumption DEF Idle, RequestRecord, NoHeaders, Headers, NoUser, Pass, None
<1>2. TypeOK
  <2>1. exact \in [DOMAIN exact -> 1 .. Len(routes)]
    BY DEF Init
  <2>2. Len(declared) = 0 /\ Len(routes) = 0 /\ 0 <= MaxRoutes
    BY RoutingAssumption DEF Init
  <2>3. \A i \in 1 .. Len(declared) : FALSE
    BY <2>2
  <2>4. /\ declared \in Seq(RouteConfigs) /\ routes \in Seq(Routes)
        /\ prefix \in Seq(1 .. Len(routes)) /\ regexes \in Seq(1 .. Len(routes))
    BY DEF Init
  <2>5. built \in BOOLEAN /\ req \in RequestRecord
    BY <1>1 DEF Init
  <2> QED
    BY <2>1, <2>2, <2>3, <2>4, <2>5 DEF TypeOK
<1>3. Tables
  BY DEF Init, Tables, ExactTable, PrefixTable, RegexTable, Holds, Named
<1> QED
  BY <1>2, <1>3 DEF Inv, Init, Request

(* A list with one more element.                                           *)
LEMMA Longer ==
    ASSUME NEW S, NEW s \in Seq(S), NEW e \in S
    PROVE  /\ Append(s, e) \in Seq(S) /\ Len(Append(s, e)) = Len(s) + 1
           /\ \A k \in 1 .. Len(s) : Append(s, e)[k] = s[k]
           /\ Append(s, e)[Len(s) + 1] = e
           /\ Len(s) \in Nat
  OBVIOUS

(* The lists of routes after one more was declared.                        *)
LEMMA Grown ==
    ASSUME TypeOK, NEW rc \in RouteConfigs, NEW chain \in ByOrder(rc.plugins),
           declared' = Append(declared, rc),
           routes' = Append(routes, BuildRoute(rc, chain))
    PROVE  /\ declared' \in Seq(RouteConfigs) /\ Len(declared') = Len(declared) + 1
           /\ routes' \in Seq(Routes) /\ Len(routes') = Len(declared) + 1
           /\ \A k \in 1 .. Len(declared) :
                 declared'[k] = declared[k] /\ routes'[k] = routes[k]
           /\ declared'[Len(declared) + 1] = rc
           /\ routes'[Len(declared) + 1] = BuildRoute(rc, chain)
           /\ Len(declared) \in Nat /\ Len(routes) = Len(declared)
<1>1. /\ declared \in Seq(RouteConfigs) /\ routes \in Seq(Routes)
      /\ Len(routes) = Len(declared)
  BY DEF TypeOK
<1>2. BuildRoute(rc, chain) \in Routes
  BY BuildFacts
<1> DEFINE route == BuildRoute(rc, chain)
<1> HIDE DEF route
<1>3. /\ Append(declared, rc) \in Seq(RouteConfigs)
      /\ Len(Append(declared, rc)) = Len(declared) + 1
      /\ \A k \in 1 .. Len(declared) : Append(declared, rc)[k] = declared[k]
      /\ Append(declared, rc)[Len(declared) + 1] = rc
      /\ Len(declared) \in Nat
  BY <1>1, Longer
<1>4. route \in Routes
  BY <1>2 DEF route
<1>5. /\ Append(routes, route) \in Seq(Routes)
      /\ Len(Append(routes, route)) = Len(routes) + 1
      /\ \A k \in 1 .. Len(routes) : Append(routes, route)[k] = routes[k]
      /\ Append(routes, route)[Len(routes) + 1] = route
  BY <1>1, <1>4, Longer
<1> QED
  BY <1>1, <1>3, <1>5 DEF route

(* One round of New's loop, for a chain.                                   *)
Adds(rc, chain) ==
    LET route == BuildRoute(rc, chain)
        i == Len(declared) + 1
    IN /\ ~built /\ i <= MaxRoutes
       /\ declared' = Append(declared, rc)
       /\ routes' = Append(routes, route)
       /\ exact' = IF rc.match = "exact" THEN ExactKeys(exact, i, route) ELSE exact
       /\ prefix' = IF rc.match = "prefix" THEN Append(prefix, i) ELSE prefix
       /\ regexes' = IF rc.match = "regex" THEN Append(regexes, i) ELSE regexes
       /\ UNCHANGED <<built, req>>

(* A list of routes with a match type grows with the routes.               *)
Extended(list, rc, type) ==
    IF rc.match = type THEN Append(list, Len(declared) + 1) ELSE list

LEMMA HoldsGrows ==
    ASSUME TypeOK, NEW rc \in RouteConfigs, NEW chain \in ByOrder(rc.plugins),
           declared' = Append(declared, rc),
           routes' = Append(routes, BuildRoute(rc, chain)),
           NEW list \in Seq(1 .. Len(declared)), NEW type, Holds(list, type)
    PROVE  /\ Extended(list, rc, type) \in Seq(1 .. Len(declared'))
           /\ \A k \in 1 .. Len(Extended(list, rc, type)) :
                 declared'[Extended(list, rc, type)[k]].match = type
           /\ \A i \in 1 .. Len(declared') :
                 declared'[i].match = type
                    => \E k \in 1 .. Len(Extended(list, rc, type)) :
                          Extended(list, rc, type)[k] = i
<1>a. PICK after : after = Extended(list, rc, type)
  OBVIOUS
<1> SUFFICES /\ after \in Seq(1 .. Len(declared'))
             /\ \A k \in 1 .. Len(after) : declared'[after[k]].match = type
             /\ \A i \in 1 .. Len(declared') :
                   declared'[i].match = type => \E k \in 1 .. Len(after) : after[k] = i
  BY <1>a
<1>0. after = IF rc.match = type THEN Append(list, Len(declared) + 1) ELSE list
  BY <1>a DEF Extended
<1> DEFINE n == Len(declared)
<1>1. /\ Len(declared') = n + 1 /\ n \in Nat
      /\ \A k \in 1 .. n : declared'[k] = declared[k]
      /\ declared'[n + 1] = rc
  BY Grown
<1> HIDE DEF n
<1>2. list \in Seq(1 .. n)
  BY DEF n
<1>3. list \in Seq(1 .. (n + 1)) /\ Len(list) \in Nat
  BY <1>1, <1>2
<1>4. /\ \A k \in 1 .. Len(list) : list[k] \in 1 .. n /\ declared[list[k]].match = type
      /\ \A i \in 1 .. n : declared[i].match = type => \E k \in 1 .. Len(list) : list[k] = i
  BY <1>2 DEF Holds, n
<1>5. CASE rc.match = type
  <2>1. /\ after \in Seq(1 .. (n + 1)) /\ Len(after) = Len(list) + 1
        /\ \A k \in 1 .. Len(list) : after[k] = list[k]
        /\ after[Len(list) + 1] = n + 1
    <3>1. after = Append(list, n + 1) /\ n + 1 \in 1 .. (n + 1)
      BY <1>0, <1>1, <1>5 DEF n
    <3> DEFINE S == 1 .. (n + 1)
    <3>2. list \in Seq(S) /\ n + 1 \in S
      BY <1>3, <3>1
    <3> HIDE DEF S
    <3>3. /\ Append(list, n + 1) \in Seq(S) /\ Len(Append(list, n + 1)) = Len(list) + 1
          /\ \A k \in 1 .. Len(list) : Append(list, n + 1)[k] = list[k]
          /\ Append(list, n + 1)[Len(list) + 1] = n + 1
      BY <3>2, Longer
    <3> QED
      BY <3>1, <3>3 DEF S
  <2>2. ASSUME NEW k \in 1 .. Len(after) PROVE declared'[after[k]].match = type
    <3>1. CASE k \in 1 .. Len(list)
      BY <1>1, <1>4, <2>1, <3>1, SMTT(40)
    <3>2. CASE k = Len(list) + 1
      BY <1>1, <1>5, <2>1, <3>2
    <3>3. k \in 1 .. Len(list) + 1
      BY <2>1
    <3>4. k \in 1 .. Len(list) \/ k = Len(list) + 1
      BY <1>3, <3>3
    <3> QED
      BY <3>1, <3>2, <3>4
  <2>3. ASSUME NEW i \in 1 .. (n + 1), declared'[i].match = type
        PROVE  \E k \in 1 .. Len(after) : after[k] = i
    <3>1. CASE i \in 1 .. n
      <4>1. PICK k \in 1 .. Len(list) : list[k] = i
        BY <1>1, <1>4, <2>3, <3>1
      <4>2. k \in 1 .. Len(after) /\ after[k] = i
        BY <1>3, <2>1, <4>1
      <4> QED
        BY <4>2
    <3>2. CASE i = n + 1
      <4>1. Len(list) + 1 \in 1 .. Len(after)
        BY <1>3, <2>1
      <4> QED
        BY <2>1, <3>2, <4>1
    <3> QED
      BY <1>1, <3>1, <3>2
  <2> QED
    BY <1>1, <2>1, <2>2, <2>3
<1>6. CASE rc.match # type
  <2>1. after = list
    BY <1>0, <1>6
  <2>2. \A k \in 1 .. Len(list) : declared'[list[k]].match = type
    BY <1>1, <1>4
  <2>3. ASSUME NEW i \in 1 .. (n + 1), declared'[i].match = type
        PROVE  i \in 1 .. n /\ declared[i].match = type
    BY <1>1, <1>6, <2>3
  <2> QED
    BY <1>1, <1>3, <1>4, <2>1, <2>2, <2>3
<1> QED
  BY <1>5, <1>6

LEMMA AddsTypes ==
    ASSUME TypeOK, NEW rc \in RouteConfigs, NEW chain \in ByOrder(rc.plugins), Adds(rc, chain),
           Holds(prefix, "prefix"), Holds(regexes, "regex")
    PROVE  TypeOK'
<1> DEFINE n == Len(declared)
<1>0. declared' = Append(declared, rc) /\ routes' = Append(routes, BuildRoute(rc, chain))
  BY DEF Adds
<1>1. /\ declared' \in Seq(RouteConfigs) /\ Len(declared') = n + 1
      /\ routes' \in Seq(Routes) /\ Len(routes') = n + 1
      /\ \A k \in 1 .. n : declared'[k] = declared[k] /\ routes'[k] = routes[k]
      /\ declared'[n + 1] = rc /\ routes'[n + 1] = BuildRoute(rc, chain)
      /\ n \in Nat /\ Len(routes) = n
  BY <1>0, Grown
<1>2. n + 1 <= MaxRoutes /\ built' = built /\ req' = req
  BY DEF Adds
<1>3. prefix' \in Seq(1 .. Len(declared')) /\ regexes' \in Seq(1 .. Len(declared'))
  <2>1. /\ prefix \in Seq(1 .. Len(declared)) /\ regexes \in Seq(1 .. Len(declared))
        /\ Holds(prefix, "prefix") /\ prefix' = Extended(prefix, rc, "prefix")
        /\ Holds(regexes, "regex") /\ regexes' = Extended(regexes, rc, "regex")
    BY DEF TypeOK, Adds, Extended
  <2>2. prefix' \in Seq(1 .. Len(declared'))
    BY <1>0, <2>1, HoldsGrows
  <2>3. regexes' \in Seq(1 .. Len(declared'))
    BY <1>0, <2>1, HoldsGrows
  <2> QED
    BY <2>2, <2>3
<1>4. exact' \in [DOMAIN exact' -> 1 .. (n + 1)]
  <2>1. exact \in [DOMAIN exact -> 1 .. n]
    BY <1>1 DEF TypeOK
  <2>2. CASE rc.match = "exact"
    <3> DEFINE route == BuildRoute(rc, chain)
               t == ExactKeys(exact, n + 1, route)
               K == Keys(route) \X {route.path}
    <3>1. exact' = t
      BY <2>2 DEF Adds
    <3>2. t = [k \in K \cup DOMAIN exact |-> IF k \in K THEN n + 1 ELSE exact[k]]
      BY DEF ExactKeys, Keys
    <3> HIDE DEF K, t
    <3>3. t \in [K \cup DOMAIN exact -> 1 .. (n + 1)] /\ DOMAIN t = K \cup DOMAIN exact
      BY <1>1, <2>1, <3>2
    <3> QED
      BY <3>1, <3>3
  <2>3. CASE rc.match # "exact"
    <3>1. exact' = exact
      BY <2>3 DEF Adds
    <3>2. exact \in [DOMAIN exact -> 1 .. (n + 1)]
      BY <1>1, <2>1
    <3> QED
      BY <3>1, <3>2
  <2> QED
    BY <2>2, <2>3
<1>5. ASSUME NEW i \in 1 .. (n + 1)
      PROVE  \E ch \in ByOrder(declared'[i].plugins) : routes'[i] = BuildRoute(declared'[i], ch)
  <2>1. CASE i \in 1 .. n
    <3>1. \E ch \in ByOrder(declared[i].plugins) : routes[i] = BuildRoute(declared[i], ch)
      BY <2>1 DEF TypeOK
    <3> QED
      BY <1>1, <2>1, <3>1
  <2>2. CASE i = n + 1
    BY <1>1, <2>2
  <2> QED
    BY <1>1, <2>1, <2>2
<1>6. built \in BOOLEAN /\ req \in RequestRecord
  BY DEF TypeOK
<1> HIDE DEF n
<1> QED
  BY <1>1, <1>2, <1>3, <1>4, <1>5, <1>6 DEF TypeOK

(* The exact table after one more route.                                   *)
LEMMA AddsExact ==
    ASSUME TypeOK, ExactTable, NEW rc \in RouteConfigs, NEW chain \in ByOrder(rc.plugins),
           Adds(rc, chain)
    PROVE  ExactTable'
<1> DEFINE n == Len(declared)
           route == BuildRoute(rc, chain)
           K == Keys(route) \X {route.path}
<1>0. declared' = Append(declared, rc) /\ routes' = Append(routes, route)
  BY DEF Adds
<1>1. /\ Len(declared') = n + 1 /\ n \in Nat
      /\ \A k \in 1 .. n : declared'[k] = declared[k] /\ routes'[k] = routes[k]
      /\ declared'[n + 1] = rc /\ routes'[n + 1] = route
  BY <1>0, Grown
<1>2. route.path = rc.path
  BY BuildFacts
<1>3. /\ DOMAIN exact' = IF rc.match = "exact" THEN K \cup DOMAIN exact ELSE DOMAIN exact
      /\ \A k \in DOMAIN exact' :
            exact'[k] = IF rc.match = "exact" /\ k \in K THEN n + 1 ELSE exact[k]
  <2>1. CASE rc.match = "exact"
    <3>1. exact' = ExactKeys(exact, n + 1, route)
      BY <2>1 DEF Adds
    <3> DEFINE t == ExactKeys(exact, n + 1, route)
    <3>2. t = [k \in K \cup DOMAIN exact |-> IF k \in K THEN n + 1 ELSE exact[k]]
      BY DEF ExactKeys, Keys
    <3> HIDE DEF K, t
    <3>3. DOMAIN t = K \cup DOMAIN exact /\ \A k \in DOMAIN t : t[k] = IF k \in K THEN n + 1 ELSE exact[k]
      BY <3>2
    <3>4. exact' = t
      BY <3>1 DEF t
    <3> QED
      BY <2>1, <3>3, <3>4
  <2>2. CASE rc.match # "exact"
    <3>1. exact' = exact
      BY <2>2 DEF Adds
    <3> QED
      BY <2>2, <3>1
  <2> QED
    BY <2>1, <2>2
<1> HIDE DEF n, route
<1> SUFFICES ASSUME NEW m \in Methods \cup {AnyMethod}, NEW p \in Paths
             PROVE  IF <<m, p>> \in DOMAIN exact'
                    THEN /\ exact'[<<m, p>>] \in Named(m, p)'
                         /\ \A j \in Named(m, p)' : j <= exact'[<<m, p>>]
                    ELSE Named(m, p)' = {}
  BY DEF ExactTable
<1>4. IF <<m, p>> \in DOMAIN exact
      THEN /\ exact[<<m, p>>] \in Named(m, p)
           /\ \A j \in Named(m, p) : j <= exact[<<m, p>>]
      ELSE Named(m, p) = {}
  BY DEF ExactTable
<1>5. <<m, p>> \in K <=> p = rc.path /\ m \in Keys(route)
  BY <1>2
<1> HIDE DEF K
<1>6. Named(m, p) \subseteq 1 .. n
  BY DEF Named, n
<1>7. CASE rc.match = "exact" /\ <<m, p>> \in K
  <2>1. \A j \in 1 .. (n + 1) : j <= n + 1
    BY <1>1
  <2>2. Named(m, p)' \subseteq 1 .. (n + 1) /\ n + 1 \in 1 .. (n + 1)
    BY <1>1 DEF Named
  <2>3. n + 1 \in Named(m, p)'
    BY <1>1, <1>5, <1>7, <2>2 DEF Named
  <2>4. <<m, p>> \in DOMAIN exact' /\ exact'[<<m, p>>] = n + 1
    BY <1>3, <1>7
  <2> QED
    BY <2>1, <2>2, <2>3, <2>4
<1>8. CASE ~ (rc.match = "exact" /\ <<m, p>> \in K)
  <2>1. Named(m, p)' = Named(m, p)
    <3>1. ASSUME NEW i PROVE i \in Named(m, p)' <=> i \in Named(m, p)
      <4>1. i \in 1 .. n =>
               (i \in 1 .. (n + 1) /\ (i \in Named(m, p)' <=> i \in Named(m, p)))
        BY <1>1 DEF Named, n
      <4>2. n + 1 \notin Named(m, p)'
        BY <1>1, <1>5, <1>8 DEF Named
      <4>3. i \in Named(m, p)' => i \in 1 .. (n + 1)
        BY <1>1 DEF Named
      <4>4. i \in 1 .. (n + 1) => i \in 1 .. n \/ i = n + 1
        BY <1>1
      <4>5. i \in Named(m, p) => i \in 1 .. n
        BY <1>6
      <4> QED
        BY <4>1, <4>2, <4>3, <4>4, <4>5
    <3> QED
      BY <3>1
  <2>2. /\ <<m, p>> \in DOMAIN exact' <=> <<m, p>> \in DOMAIN exact
        /\ <<m, p>> \in DOMAIN exact' => exact'[<<m, p>>] = exact[<<m, p>>]
    BY <1>3, <1>8
  <2> QED
    BY <1>4, <2>1, <2>2
<1> QED
  BY <1>7, <1>8

LEMMA AddsKeeps ==
    ASSUME Inv, NEW rc \in RouteConfigs, NEW chain \in ByOrder(rc.plugins), Adds(rc, chain)
    PROVE  Inv'
<1>1. /\ TypeOK /\ ExactTable /\ Holds(prefix, "prefix") /\ Holds(regexes, "regex")
      /\ \A j, k \in 1 .. Len(regexes) : j < k => regexes[j] < regexes[k]
  BY DEF Inv, Tables, PrefixTable, RegexTable
<1>2. TypeOK' /\ ExactTable'
  BY <1>1, AddsTypes, AddsExact
<1>3. /\ declared' = Append(declared, rc) /\ routes' = Append(routes, BuildRoute(rc, chain))
      /\ prefix \in Seq(1 .. Len(declared)) /\ regexes \in Seq(1 .. Len(declared))
      /\ Holds(prefix, "prefix") /\ prefix' = Extended(prefix, rc, "prefix")
      /\ Holds(regexes, "regex") /\ regexes' = Extended(regexes, rc, "regex")
      /\ regexes' = IF rc.match = "regex" THEN Append(regexes, Len(declared) + 1) ELSE regexes
      /\ ~built /\ built' = built /\ req' = req
  BY <1>1 DEF TypeOK, Adds, Extended
<1>4. Holds(prefix, "prefix")'
  <2>1. /\ \A k \in 1 .. Len(prefix') : declared'[prefix'[k]].match = "prefix"
        /\ \A i \in 1 .. Len(declared') :
              declared'[i].match = "prefix" => \E k \in 1 .. Len(prefix') : prefix'[k] = i
    <3>1. /\ TypeOK
          /\ declared' = Append(declared, rc) /\ routes' = Append(routes, BuildRoute(rc, chain))
          /\ prefix \in Seq(1 .. Len(declared))
          /\ Holds(prefix, "prefix") /\ prefix' = Extended(prefix, rc, "prefix")
      BY <1>1, <1>3
    <3> DEFINE ex == Extended(prefix, rc, "prefix")
    <3>2. /\ \A k \in 1 .. Len(ex) : declared'[ex[k]].match = "prefix"
          /\ \A i \in 1 .. Len(declared') :
                declared'[i].match = "prefix" => \E k \in 1 .. Len(ex) : ex[k] = i
      BY <3>1, HoldsGrows, ZenonT(60)
    <3> HIDE DEF ex
    <3>3. ex = prefix'
      BY <3>1 DEF ex
    <3> QED
      BY <3>2, <3>3
  <2> QED
    BY <2>1 DEF Holds
<1>5. Holds(regexes, "regex")'
  <2>1. /\ \A k \in 1 .. Len(regexes') : declared'[regexes'[k]].match = "regex"
        /\ \A i \in 1 .. Len(declared') :
              declared'[i].match = "regex" => \E k \in 1 .. Len(regexes') : regexes'[k] = i
    <3>1. /\ TypeOK
          /\ declared' = Append(declared, rc) /\ routes' = Append(routes, BuildRoute(rc, chain))
          /\ regexes \in Seq(1 .. Len(declared))
          /\ Holds(regexes, "regex") /\ regexes' = Extended(regexes, rc, "regex")
      BY <1>1, <1>3
    <3> DEFINE ex == Extended(regexes, rc, "regex")
    <3>2. /\ \A k \in 1 .. Len(ex) : declared'[ex[k]].match = "regex"
          /\ \A i \in 1 .. Len(declared') :
                declared'[i].match = "regex" => \E k \in 1 .. Len(ex) : ex[k] = i
      BY <3>1, HoldsGrows, ZenonT(60)
    <3> HIDE DEF ex
    <3>3. ex = regexes'
      BY <3>1 DEF ex
    <3> QED
      BY <3>2, <3>3
  <2> QED
    BY <2>1 DEF Holds
<1>6. ASSUME NEW j \in 1 .. Len(regexes'), NEW k \in 1 .. Len(regexes'), j < k
      PROVE  regexes'[j] < regexes'[k]
  <2>1. CASE rc.match # "regex"
    BY <1>1, <1>3, <1>6, <2>1
  <2>2. CASE rc.match = "regex"
    <3> DEFINE n == Len(declared)
               l == Len(regexes)
    <3>1. regexes' = Append(regexes, n + 1) /\ n \in Nat /\ l \in Nat
      BY <1>1, <1>3, <2>2 DEF TypeOK
    <3>2. /\ Len(regexes') = l + 1 /\ regexes'[l + 1] = n + 1
          /\ \A h \in 1 .. l : regexes'[h] = regexes[h] /\ regexes[h] \in 1 .. n
      <4>1. regexes \in Seq(1 .. n)
        BY <1>3
      <4> HIDE DEF n
      <4> QED
        BY <3>1, <4>1
    <3> HIDE DEF n, l
    <3>3. j \in 1 .. l
      BY <1>6, <3>1, <3>2
    <3>4. CASE k = l + 1
      BY <3>1, <3>2, <3>3, <3>4
    <3>5. CASE k # l + 1
      <4>1. k \in 1 .. l
        BY <3>1, <3>2, <3>5
      <4> QED
        BY <1>1, <1>6, <3>2, <3>3, <4>1 DEF l
    <3> QED
      BY <3>4, <3>5
  <2> QED
    BY <2>1, <2>2
<1>7. Tables'
  BY <1>2, <1>3, <1>4, <1>5, <1>6 DEF Tables, PrefixTable, RegexTable
<1>8. Request'
  <2>1. req = Idle
    BY <1>3 DEF Inv, Request, Active
  <2> QED
    BY <1>3, <2>1 DEF Request, Idle, NoHeaders
<1> QED
  BY <1>2, <1>7, <1>8 DEF Inv

LEMMA DeclareKeeps ==
    ASSUME Inv, NEW rc \in RouteConfigs, Declare(rc)
    PROVE  Inv'
<1>1. PICK chain \in ByOrder(rc.plugins) :
         LET route == BuildRoute(rc, chain)
             i == Len(routes) + 1
         IN /\ ~built /\ i <= MaxRoutes
            /\ declared' = Append(declared, rc)
            /\ routes' = Append(routes, route)
            /\ exact' = IF route.match = "exact" THEN ExactKeys(exact, i, route) ELSE exact
            /\ prefix' = IF route.match = "prefix" THEN Append(prefix, i) ELSE prefix
            /\ regexes' = IF route.match = "regex" THEN Append(regexes, i) ELSE regexes
            /\ UNCHANGED <<built, req>>
  BY DEF Declare
<1>2. Len(routes) = Len(declared) /\ BuildRoute(rc, chain).match = rc.match
  BY BuildFacts DEF Inv, TypeOK
<1>3. Adds(rc, chain)
  BY <1>1, <1>2 DEF Adds
<1> QED
  BY <1>3, AddsKeeps

(* The sort keeps the prefix routes and puts the longer ones first.        *)
LEMMA FinishKeeps ==
    ASSUME Inv, Finish
    PROVE  Inv'
<1>1. /\ TypeOK /\ ExactTable /\ Holds(prefix, "prefix") /\ RegexTable
      /\ prefix \in Seq(1 .. Len(declared)) /\ Len(routes) = Len(declared)
  BY DEF Inv, Tables, PrefixTable, TypeOK
<1>2. /\ ~built /\ built' = TRUE /\ declared' = declared /\ routes' = routes
      /\ exact' = exact /\ regexes' = regexes /\ req' = req
      /\ prefix' \in Arrangements(prefix)
      /\ \A j, k \in 1 .. Len(prefix') :
            j < k => Len(routes[prefix'[j]].path) >= Len(routes[prefix'[k]].path)
  BY DEF Finish
<1>3. /\ prefix' \in Seq(1 .. Len(declared)) /\ Len(prefix') = Len(prefix)
      /\ \A k \in 1 .. Len(prefix) : \E j \in 1 .. Len(prefix) : prefix'[k] = prefix[j]
      /\ \A j \in 1 .. Len(prefix) : \E k \in 1 .. Len(prefix) : prefix'[k] = prefix[j]
  <2> DEFINE S == 1 .. Len(declared)
  <2>1. prefix \in Seq(S) /\ prefix' \in Arrangements(prefix)
    BY <1>1, <1>2
  <2> HIDE DEF S
  <2>2. /\ prefix' \in Seq(S) /\ Len(prefix') = Len(prefix)
        /\ \A k \in 1 .. Len(prefix) : \E j \in 1 .. Len(prefix) : prefix'[k] = prefix[j]
        /\ \A j \in 1 .. Len(prefix) : \E k \in 1 .. Len(prefix) : prefix'[k] = prefix[j]
    BY <2>1, Arranged
  <2> QED
    BY <2>2 DEF S
<1>4. TypeOK'
  <2>1. /\ declared \in Seq(RouteConfigs) /\ Len(declared) <= MaxRoutes
        /\ routes \in Seq(Routes)
        /\ \A i \in 1 .. Len(declared) :
              \E chain \in ByOrder(declared[i].plugins) : routes[i] = BuildRoute(declared[i], chain)
        /\ exact \in [DOMAIN exact -> 1 .. Len(routes)] /\ regexes \in Seq(1 .. Len(routes))
        /\ req \in RequestRecord
    BY <1>1 DEF TypeOK
  <2>2. prefix' \in Seq(1 .. Len(routes))
    BY <1>1, <1>3
  <2> QED
    BY <1>1, <1>2, <2>1, <2>2 DEF TypeOK
<1>5. Holds(prefix, "prefix")'
  <2>1. ASSUME NEW k \in 1 .. Len(prefix') PROVE declared[prefix'[k]].match = "prefix"
    <3>1. PICK j \in 1 .. Len(prefix) : prefix'[k] = prefix[j]
      BY <1>3
    <3> QED
      BY <1>1, <3>1 DEF Holds
  <2>2. ASSUME NEW i \in 1 .. Len(declared), declared[i].match = "prefix"
        PROVE  \E k \in 1 .. Len(prefix') : prefix'[k] = i
    <3>1. PICK j \in 1 .. Len(prefix) : prefix[j] = i
      BY <1>1, <2>2 DEF Holds
    <3>2. PICK k \in 1 .. Len(prefix) : prefix'[k] = prefix[j]
      BY <1>3
    <3> QED
      BY <1>3, <3>1, <3>2
  <2> QED
    BY <1>2, <2>1, <2>2 DEF Holds
<1>6. ASSUME NEW j \in 1 .. Len(prefix'), NEW k \in 1 .. Len(prefix'), j < k
      PROVE  Len(declared[prefix'[j]].path) >= Len(declared[prefix'[k]].path)
  <2>1. prefix'[j] \in 1 .. Len(declared) /\ prefix'[k] \in 1 .. Len(declared)
    <3> DEFINE S == 1 .. Len(declared)
    <3>1. prefix' \in Seq(S)
      BY <1>3
    <3> HIDE DEF S
    <3>2. prefix'[j] \in S /\ prefix'[k] \in S
      BY <3>1
    <3> QED
      BY <3>2 DEF S
  <2>2. /\ routes[prefix'[j]].path = declared[prefix'[j]].path
        /\ routes[prefix'[k]].path = declared[prefix'[k]].path
    BY <1>1, <2>1, RouteFacts
  <2> QED
    BY <1>2, <1>6, <2>2
<1>7. ExactTable' /\ RegexTable'
  BY <1>1, <1>2 DEF ExactTable, Named, RegexTable, Holds
<1>8. Tables'
  BY <1>2, <1>5, <1>6, <1>7 DEF Tables, PrefixTable
<1>9. Request'
  <2>1. req = Idle
    BY <1>2 DEF Inv, Request, Active
  <2> QED
    BY <1>2, <2>1 DEF Request, Idle, NoHeaders
<1> QED
  BY <1>4, <1>8, <1>9 DEF Inv

-----------------------------------------------------------------------------
(* A request.                                                              *)

(* A step of a request leaves the tables as they are.                      *)
LEMMA RequestSteps ==
    ASSUME Inv, UNCHANGED tables, req' \in RequestRecord, req' = Idle \/ Active(req')
    PROVE  Inv'
<1>1. TypeOK /\ Tables
  BY DEF Inv
<1>2. /\ declared' = declared /\ routes' = routes /\ exact' = exact /\ prefix' = prefix
      /\ regexes' = regexes /\ built' = built
  BY DEF tables
<1>3. TypeOK'
  BY <1>1, <1>2 DEF TypeOK
<1>4. Tables'
  <2>1. ExactTable'
    BY <1>1, <1>2 DEF Tables, ExactTable, Named
  <2>2. PrefixTable'
    BY <1>1, <1>2 DEF Tables, PrefixTable, Holds
  <2>3. RegexTable'
    BY <1>1, <1>2 DEF Tables, RegexTable, Holds
  <2> QED
    BY <1>1, <1>2, <2>1, <2>2, <2>3 DEF Tables
<1>5. Request'
  <2>1. CASE req' = Idle
    BY <2>1 DEF Request, Idle, NoHeaders
  <2>2. CASE Active(req')
    BY <1>2, <2>2 DEF Request, Active, Best, Preferred, Read
  <2> QED
    BY <2>1, <2>2
<1> QED
  BY <1>3, <1>4, <1>5 DEF Inv

LEMMA Statuses ==
    ASSUME NEW plugin, NEW h, NEW method
    PROVE  ExecuteRequest(plugin, h, method) \in {Pass, 204, 401, 403, 429}
<1>1. JWT(plugin.mode, h) \in {Pass, 204, 401, 403, 429}
  BY DEF JWT
<1>2. CORS(plugin.mode, h, method) \in {Pass, 204, 401, 403, 429}
  BY DEF CORS
<1>3. RateLimit(h) \in {Pass, 204, 401, 403, 429}
  BY DEF RateLimit
<1> QED
  BY <1>1, <1>2, <1>3 DEF ExecuteRequest

(* The record of a request that was just taken up.                         *)
Fresh(i, m, p, size, h, limit) ==
    [Idle EXCEPT
        !.pc = IF i = None THEN "notfound" ELSE "chain",
        !.method = m, !.path = p, !.headers = h, !.route = i,
        !.size = size, !.left = size, !.quota = limit]

LEMMA FreshFacts ==
    ASSUME NEW i \in 0 .. MaxRoutes, NEW m \in Methods, NEW p \in Paths,
           NEW size \in 0 .. MaxSize, NEW h \in Headers, NEW limit \in Nat,
           NEW q, q = Fresh(i, m, p, size, h, limit)
    PROVE  /\ q \in RequestRecord
           /\ q.pc = IF i = None THEN "notfound" ELSE "chain"
           /\ q.method = m /\ q.path = p /\ q.route = i /\ q.headers = h
           /\ q.size = size /\ q.left = size /\ q.quota = limit
           /\ q.read = 0 /\ q.got = 0 /\ q.ran = 0
           /\ q.user = NoUser /\ q.key = "none"
<1>1. q = [pc |-> IF i = None THEN "notfound" ELSE "chain", method |-> m, path |-> p,
           route |-> i, size |-> size, left |-> size, quota |-> limit, read |-> 0,
           got |-> 0, headers |-> h, ran |-> 0, user |-> NoUser, key |-> "none",
           status |-> Pass]
  BY DEF Fresh, Idle
<1>2. 0 \in 0 .. MaxSize
  BY RoutingAssumption
<1> QED
  BY <1>1, <1>2 DEF RequestRecord

LEMMA ServeKeeps ==
    ASSUME Inv, NEW m \in Methods, NEW p \in Paths, Serve(m, p)
    PROVE  Inv'
<1> DEFINE i == Match(m, p)
           limit == IF i = None THEN 0 ELSE routes[i].maxBody
<1>1. built /\ TypeOK /\ Tables /\ UNCHANGED tables
  BY DEF Inv, Serve
<1>2. i \in 0 .. Len(declared) /\ Best(i, m, p)
  BY <1>1, MatchBest
<1>3. PICK size \in 0 .. MaxSize, h \in Headers : req' = Fresh(i, m, p, size, h, limit)
  <2>1. \E size \in (IF limit > 0 THEN 0 .. MaxSize ELSE {0}),
           h \in (IF i # None /\ routes[i].plugins # <<>> THEN Headers ELSE {NoHeaders}) :
           req' = Fresh(i, m, p, size, h, limit)
    BY DEF Serve, Fresh
  <2> HIDE DEF i, limit
  <2>2. 0 \in 0 .. MaxSize /\ NoHeaders \in Headers
    BY RoutingAssumption DEF NoHeaders, Headers
  <2> QED
    BY <2>1, <2>2
<1>4. i # None => i \in 1 .. Len(declared)
  BY <1>2 DEF None
<1>5. limit \in Nat /\ (i # None => limit = routes[i].maxBody)
  <2>1. CASE i = None
    BY <2>1
  <2>2. CASE i # None
    <3>1. routes[i].maxBody \in Nat
      BY <1>1, <1>4, <2>2, RouteFacts DEF Routes
    <3> QED
      BY <2>2, <3>1
  <2> QED
    BY <2>1, <2>2
<1>6. i \in 0 .. MaxRoutes
  BY <1>1, <1>2, RoutingAssumption DEF TypeOK
<1>7. i # None => routes[i].plugins \in Seq(PluginRef)
  BY <1>1, <1>4, RouteFacts DEF Routes
<1> HIDE DEF i, limit
<1>8. PICK q : q = req'
  OBVIOUS
<1>9. /\ q \in RequestRecord
      /\ q.pc = IF i = None THEN "notfound" ELSE "chain"
      /\ q.method = m /\ q.path = p /\ q.route = i /\ q.headers = h
      /\ q.size = size /\ q.left = size /\ q.quota = limit
      /\ q.read = 0 /\ q.got = 0 /\ q.ran = 0
      /\ q.user = NoUser /\ q.key = "none"
  BY <1>3, <1>5, <1>6, <1>8, FreshFacts
<1>10. CASE i = None
  <2>1. Active(q)
    BY <1>1, <1>2, <1>9, <1>10 DEF Active
  <2> QED
    BY <1>1, <1>8, <1>9, <2>1, RequestSteps
<1>11. CASE i # None
  <2>1. Read(q)
    BY <1>5, <1>9, <1>11 DEF Read
  <2>2. Ran(q, routes[i].plugins)
    <3> DEFINE chain == routes[i].plugins
    <3>1. Len(chain) \in Nat
      BY <1>7, <1>11
    <3> HIDE DEF chain
    <3> QED
      BY <1>9, <1>11, <3>1 DEF Ran, NoUser, chain
  <2>3. Keyed(q, routes[i].plugins)
    BY <1>9 DEF Keyed
  <2>4. Active(q)
    BY <1>1, <1>2, <1>4, <1>9, <1>11, <2>1, <2>2, <2>3 DEF Active
  <2> QED
    BY <1>1, <1>8, <1>9, <2>4, RequestSteps
<1> QED
  BY <1>10, <1>11

(* What is known of a request under way.                                   *)
LEMMA UnderWay ==
    ASSUME Inv, req.pc \notin {"idle", "notfound"}
    PROVE  /\ Active(req) /\ req \in RequestRecord
           /\ req.route \in 1 .. Len(declared)
           /\ Read(req) /\ Ran(req, routes[req.route].plugins)
           /\ Keyed(req, routes[req.route].plugins)
           /\ routes[req.route].plugins \in Seq(PluginRef)
           /\ routes[req.route].maxBody \in Nat
<1>1. TypeOK /\ req \in RequestRecord
  BY DEF Inv, TypeOK
<1>2. Active(req)
  BY DEF Inv, Request, Idle
<1>3. /\ req.route \in 1 .. Len(declared) /\ Read(req)
      /\ Ran(req, routes[req.route].plugins) /\ Keyed(req, routes[req.route].plugins)
  BY <1>2 DEF Active
<1>4. routes[req.route] \in Routes
  BY <1>1, <1>3, RouteFacts
<1> QED
  BY <1>1, <1>2, <1>3, <1>4 DEF Routes

(* One more plugin ran.                                                    *)
LEMMA OneMoreRan ==
    ASSUME NEW q \in RequestRecord, NEW r \in RequestRecord, NEW chain \in Seq(PluginRef),
           NEW status, q.pc = "chain", q.ran < Len(chain), Ran(q, chain), Keyed(q, chain),
           status = ExecuteRequest(chain[q.ran + 1], q.headers, q.method),
           r.pc = IF status = Pass THEN "chain" ELSE "aborted",
           r.status = status, r.ran = q.ran + 1,
           r.headers = q.headers, r.method = q.method,
           r.user = UserAfter(chain[q.ran + 1], q.headers, q.user),
           r.key = IF chain[q.ran + 1].type = "rate-limit"
                   THEN BucketKey(chain[q.ran + 1].mode, q.user) ELSE q.key
    PROVE  Ran(r, chain) /\ Keyed(r, chain)
<1> DEFINE n == q.ran
           len == Len(chain)
           plugin == chain[n + 1]
<1>1. /\ n \in Nat /\ len \in Nat /\ n < len /\ r.ran = n + 1
      /\ q.user \in {NoUser, "user"}
  BY DEF RequestRecord
<1>2. /\ \A k \in 1 .. len :
            k < n \/ k = n => ExecuteRequest(chain[k], q.headers, q.method) = Pass
      /\ q.user = "user" <=>
            /\ q.headers.token = "user"
            /\ \E k \in 1 .. len : k <= n /\ Authenticates(chain[k])
  BY DEF Ran
<1>3. /\ q.key = "user" =>
            \E j, k \in 1 .. len :
               /\ j < k
               /\ Authenticates(chain[j])
               /\ Limits(chain[k]) /\ chain[k].mode = "per-user"
      /\ q.key = "ip" /\ q.headers.token = "user" =>
            \E k \in 1 .. len :
               /\ Limits(chain[k])
               /\ \/ chain[k].mode # "per-user"
                  \/ \A j \in 1 .. len : j < k => ~Authenticates(chain[j])
  BY DEF Keyed
<1>4. status = ExecuteRequest(plugin, q.headers, q.method)
  OBVIOUS
<1>5. r.user = "user" <=> (Authenticates(plugin) /\ q.headers.token = "user") \/ q.user = "user"
  BY DEF UserAfter, Authenticates
<1>6. /\ r.key = "user" =>
            \/ Limits(plugin) /\ plugin.mode = "per-user" /\ q.user = "user"
            \/ q.key = "user"
      /\ r.key = "ip" =>
            \/ Limits(plugin) /\ (plugin.mode # "per-user" \/ q.user # "user")
            \/ q.key = "ip"
  BY <1>1 DEF BucketKey, Limits, NoUser
<1> HIDE DEF n, len, plugin
<1>7. n + 1 \in 1 .. len /\ chain[n + 1] = plugin
  BY <1>1 DEF plugin
<1>8. ASSUME NEW k \in 1 .. len, k < r.ran \/ (k = r.ran /\ r.pc # "aborted")
      PROVE  ExecuteRequest(chain[k], r.headers, r.method) = Pass
  <2>1. CASE k = n + 1
    <3>1. status = Pass
      BY <1>1, <1>8, <2>1
    <3> QED
      BY <1>4, <1>7, <2>1, <3>1
  <2>2. CASE k # n + 1
    <3>1. k < n \/ k = n
      BY <1>1, <1>8, <2>2
    <3> QED
      BY <1>2, <3>1
  <2> QED
    BY <2>1, <2>2
<1>9. r.user = "user" <=>
         /\ r.headers.token = "user"
         /\ \E k \in 1 .. len : k <= r.ran /\ Authenticates(chain[k])
  <2>1. (\E k \in 1 .. len : k <= n + 1 /\ Authenticates(chain[k]))
           <=> Authenticates(plugin) \/ \E k \in 1 .. len : k <= n /\ Authenticates(chain[k])
    <3>1. \A k \in 1 .. len : k <= n + 1 <=> k <= n \/ k = n + 1
      BY <1>1
    <3> QED
      BY <1>7, <3>1
  <2> QED
    BY <1>1, <1>2, <1>5, <2>1
<1>10. r.pc = "aborted" => status # Pass
  OBVIOUS
<1>11. Ran(r, chain)
  <2>1. r.ran \in 0 .. Len(chain) /\ r.ran > 0 /\ chain[r.ran] = plugin
    BY <1>1, <1>7 DEF len
  <2> QED
    BY <1>4, <1>8, <1>9, <1>10, <2>1 DEF Ran, len
<1>12. ASSUME r.key = "user"
       PROVE  \E j, k \in 1 .. len :
                 /\ j < k
                 /\ Authenticates(chain[j])
                 /\ Limits(chain[k]) /\ chain[k].mode = "per-user"
  <2>1. CASE q.key = "user"
    BY <1>3, <2>1
  <2>2. CASE Limits(plugin) /\ plugin.mode = "per-user" /\ q.user = "user"
    <3>1. PICK j \in 1 .. len : j <= n /\ Authenticates(chain[j])
      BY <1>2, <2>2
    <3>2. j < n + 1
      BY <1>1, <3>1
    <3> QED
      BY <1>7, <2>2, <3>1, <3>2
  <2> QED
    BY <1>6, <1>12, <2>1, <2>2
<1>13. ASSUME r.key = "ip", r.headers.token = "user"
       PROVE  \E k \in 1 .. len :
                 /\ Limits(chain[k])
                 /\ \/ chain[k].mode # "per-user"
                    \/ \A j \in 1 .. len : j < k => ~Authenticates(chain[j])
  <2>1. CASE q.key = "ip"
    BY <1>3, <1>13, <2>1
  <2>2. CASE Limits(plugin) /\ plugin.mode # "per-user"
    BY <1>7, <2>2
  <2>3. CASE Limits(plugin) /\ q.user # "user"
    <3>1. \A j \in 1 .. len : j <= n => ~Authenticates(chain[j])
      BY <1>2, <1>13, <2>3
    <3>2. \A j \in 1 .. len : j < n + 1 => j <= n
      BY <1>1
    <3> QED
      BY <1>7, <2>3, <3>1, <3>2
  <2> QED
    BY <1>6, <1>13, <2>1, <2>2, <2>3
<1>14. Keyed(r, chain)
  BY <1>12, <1>13 DEF Keyed, len
<1> QED
  BY <1>11, <1>14

(* A request record with the fields that a step may change.                *)
With(r, pc, left, quota, read, got, ran, user, key, status) ==
    [pc |-> pc, method |-> r.method, path |-> r.path, route |-> r.route,
     size |-> r.size, left |-> left, quota |-> quota, read |-> read, got |-> got,
     headers |-> r.headers, ran |-> ran, user |-> user, key |-> key, status |-> status]

WithTyped(r, pc, left, quota, read, got, ran, user, key, status) ==
    /\ r \in RequestRecord
    /\ pc \in {"idle", "notfound", "chain", "aborted", "upstream", "eof", "too_large"}
    /\ left \in 0 .. MaxSize /\ quota \in Nat /\ read \in 0 .. MaxSize
    /\ got \in 0 .. MaxSize /\ ran \in Nat /\ user \in {NoUser, "user"}
    /\ key \in {"none", "user", "ip"} /\ status \in {Pass, 204, 401, 403, 429}

WithFields(q, r, pc, left, quota, read, got, ran, user, key, status) ==
    /\ q \in RequestRecord
    /\ q.pc = pc /\ q.status = status /\ q.user = user /\ q.key = key /\ q.ran = ran
    /\ q.method = r.method /\ q.path = r.path /\ q.route = r.route
    /\ q.size = r.size /\ q.left = left /\ q.quota = quota
    /\ q.read = read /\ q.got = got /\ q.headers = r.headers

LEMMA Updated ==
    ASSUME NEW r, NEW pc, NEW left, NEW quota, NEW read, NEW got, NEW ran, NEW user, NEW key,
           NEW status, WithTyped(r, pc, left, quota, read, got, ran, user, key, status)
    PROVE  WithFields(With(r, pc, left, quota, read, got, ran, user, key, status),
                      r, pc, left, quota, read, got, ran, user, key, status)
<1>0. /\ r \in RequestRecord
      /\ pc \in {"idle", "notfound", "chain", "aborted", "upstream", "eof", "too_large"}
      /\ left \in 0 .. MaxSize /\ quota \in Nat /\ read \in 0 .. MaxSize
      /\ got \in 0 .. MaxSize /\ ran \in Nat /\ user \in {NoUser, "user"}
      /\ key \in {"none", "user", "ip"} /\ status \in {Pass, 204, 401, 403, 429}
  BY DEF WithTyped
<1>1. /\ r.method \in Methods \cup {AnyMethod} /\ r.path \in Paths \cup {<<>>}
      /\ r.route \in 0 .. MaxRoutes /\ r.size \in 0 .. MaxSize /\ r.headers \in Headers
  BY <1>0 DEF RequestRecord
<1> QED
  BY <1>0, <1>1 DEF RequestRecord, With, WithFields

LEMMA RunPluginKeeps ==
    ASSUME Inv, RunPlugin
    PROVE  Inv'
<1> DEFINE chain == routes[req.route].plugins
           plugin == chain[req.ran + 1]
           status == ExecuteRequest(plugin, req.headers, req.method)
           user == UserAfter(plugin, req.headers, req.user)
           key == IF plugin.type = "rate-limit" THEN BucketKey(plugin.mode, req.user) ELSE req.key
<1>1. /\ req.pc = "chain" /\ req.ran < Len(chain) /\ UNCHANGED tables
      /\ req' = [req EXCEPT !.pc = IF status = Pass THEN @ ELSE "aborted", !.status = status,
                            !.user = user, !.key = key, !.ran = @ + 1]
  BY DEF RunPlugin
<1>2. /\ Active(req) /\ req \in RequestRecord /\ req.route \in 1 .. Len(declared)
      /\ Read(req) /\ Ran(req, chain) /\ Keyed(req, chain) /\ chain \in Seq(PluginRef)
  BY <1>1, UnderWay
<1>3. status \in {Pass, 204, 401, 403, 429}
  BY Statuses
<1>4. user \in {NoUser, "user"} /\ key \in {"none", "user", "ip"}
  BY <1>2 DEF UserAfter, BucketKey, RequestRecord
<1>5. PICK q : q = req'
  OBVIOUS
<1> HIDE DEF status, user, key
<1>6. /\ q \in RequestRecord
      /\ q.pc = (IF status = Pass THEN "chain" ELSE "aborted")
      /\ q.status = status /\ q.user = user /\ q.key = key /\ q.ran = req.ran + 1
      /\ q.method = req.method /\ q.path = req.path /\ q.route = req.route
      /\ q.size = req.size /\ q.left = req.left /\ q.quota = req.quota
      /\ q.read = req.read /\ q.got = req.got /\ q.headers = req.headers
  <2> DEFINE pc == IF status = Pass THEN "chain" ELSE "aborted"
             ran == req.ran + 1
  <2>1. /\ pc \in {"idle", "notfound", "chain", "aborted", "upstream", "eof", "too_large"}
        /\ ran \in Nat
    BY <1>2 DEF RequestRecord
  <2>2. q = [req EXCEPT !.pc = pc, !.status = status, !.user = user, !.key = key, !.ran = ran]
    BY <1>1, <1>5
  <2> HIDE DEF pc, ran
  <2>3. q = With(req, pc, req.left, req.quota, req.read, req.got, ran, user, key, status)
    BY <1>2, <2>2, ZenonT(60) DEF RequestRecord, With
  <2>4. /\ req.left \in 0 .. MaxSize /\ req.quota \in Nat /\ req.read \in 0 .. MaxSize
        /\ req.got \in 0 .. MaxSize
    BY <1>2 DEF RequestRecord
  <2>5. /\ q \in RequestRecord
        /\ q.pc = pc
        /\ q.status = status /\ q.user = user /\ q.key = key /\ q.ran = ran
        /\ q.method = req.method /\ q.path = req.path /\ q.route = req.route
        /\ q.size = req.size /\ q.left = req.left /\ q.quota = req.quota
        /\ q.read = req.read /\ q.got = req.got /\ q.headers = req.headers
    <3>1. WithTyped(req, pc, req.left, req.quota, req.read, req.got, ran, user, key, status)
      BY <1>2, <1>3, <1>4, <2>1, <2>4 DEF WithTyped
    <3>2. WithFields(q, req, pc, req.left, req.quota, req.read, req.got, ran, user, key, status)
      BY <2>3, <3>1, Updated
    <3> QED
      BY <3>2 DEF WithFields
  <2> QED
    BY <2>5 DEF pc, ran
<1>7. Ran(q, chain) /\ Keyed(q, chain)
  <2> HIDE DEF chain
  <2> QED
    BY <1>1, <1>2, <1>6, OneMoreRan DEF status, user, key
<1>8. Read(q)
  BY <1>1, <1>2, <1>6 DEF Read
<1>9. Active(q)
  BY <1>1, <1>2, <1>6, <1>7, <1>8 DEF Active
<1> QED
  BY <1>1, <1>5, <1>6, <1>9, RequestSteps

LEMMA GoUpstreamKeeps ==
    ASSUME Inv, GoUpstream
    PROVE  Inv'
<1> DEFINE chain == routes[req.route].plugins
<1>1. /\ req.pc = "chain" /\ req.ran = Len(chain) /\ UNCHANGED tables
      /\ req' = [req EXCEPT !.pc = "upstream"]
  BY DEF GoUpstream
<1>2. /\ Active(req) /\ req \in RequestRecord /\ req.route \in 1 .. Len(declared)
      /\ Read(req) /\ Ran(req, chain) /\ Keyed(req, chain)
  BY <1>1, UnderWay
<1>3. PICK q : q = req'
  OBVIOUS
<1>4. /\ q \in RequestRecord /\ q.pc = "upstream"
      /\ q.user = req.user /\ q.key = req.key /\ q.ran = req.ran
      /\ q.method = req.method /\ q.path = req.path /\ q.route = req.route
      /\ q.size = req.size /\ q.left = req.left /\ q.quota = req.quota
      /\ q.read = req.read /\ q.got = req.got /\ q.headers = req.headers
  BY <1>1, <1>2, <1>3 DEF RequestRecord
<1> HIDE DEF chain
<1>5. Ran(q, chain)
  BY <1>1, <1>2, <1>4 DEF Ran
<1>6. Keyed(q, chain)
  BY <1>2, <1>4 DEF Keyed
<1>7. Read(q)
  BY <1>1, <1>2, <1>4 DEF Read
<1>8. Active(q)
  BY <1>1, <1>2, <1>4, <1>5, <1>6, <1>7 DEF Active, chain
<1> QED
  BY <1>1, <1>3, <1>4, <1>8, RequestSteps

(* A read of the body hands over what the limit still allows, and counts   *)
(* it.                                                                     *)
LEMMA ReadBodyKeeps ==
    ASSUME Inv, NEW k \in 0 .. MaxSize, NEW eof \in BOOLEAN, ReadBody(k, eof)
    PROVE  Inv'
<1> DEFINE chain == routes[req.route].plugins
           limit == routes[req.route].maxBody
<1>1. req.pc = "upstream" /\ limit > 0 /\ UNCHANGED tables
  BY DEF ReadBody, Limit
<1>2. /\ Active(req) /\ req \in RequestRecord /\ req.route \in 1 .. Len(declared)
      /\ Read(req) /\ Ran(req, chain) /\ Keyed(req, chain) /\ limit \in Nat
  BY <1>1, UnderWay
<1>3. /\ req.size \in Nat /\ req.left \in Nat /\ req.quota \in Nat
      /\ req.read \in Nat /\ req.got \in Nat /\ req.size <= MaxSize /\ k \in Nat
      /\ req.got = req.read /\ req.got + req.left = req.size
      /\ req.quota + req.read = limit /\ MaxSize \in Nat
  BY <1>1, <1>2, RoutingAssumption DEF RequestRecord, Read
<1>4. PICK q : q = req'
  OBVIOUS
<1> DEFINE Same == /\ q.user = req.user /\ q.key = req.key /\ q.ran = req.ran
                   /\ q.method = req.method /\ q.path = req.path /\ q.route = req.route
                   /\ q.size = req.size /\ q.headers = req.headers
<1>5. ASSUME q \in RequestRecord, Same, q.pc \in {"upstream", "eof", "too_large"}, Read(q)
      PROVE  Inv'
  <2>1. Ran(q, chain) /\ Keyed(q, chain)
    <3> HIDE DEF chain
    <3>1. Ran(q, chain)
      BY <1>1, <1>2, <1>5 DEF Ran
    <3>2. Keyed(q, chain)
      BY <1>2, <1>5 DEF Keyed
    <3> QED
      BY <3>1, <3>2
  <2>2. Active(q)
    BY <1>1, <1>2, <1>5, <2>1 DEF Active
  <2> QED
    BY <1>1, <1>4, <1>5, <2>2, RequestSteps
<1>6. CASE req.read >= limit
  <2>1. q = [req EXCEPT !.pc = "too_large"]
    BY <1>4, <1>6 DEF ReadBody, Limit
  <2>2. /\ q \in RequestRecord /\ q.pc = "too_large" /\ Same
        /\ q.left = req.left /\ q.quota = req.quota /\ q.read = req.read /\ q.got = req.got
    BY <1>2, <2>1, SMTT(40) DEF RequestRecord
  <2>3. Read(q)
    <3> HIDE DEF limit
    <3>1. /\ q.got = q.read /\ q.quota + q.read = limit
          /\ q.quota = 0 /\ q.size >= limit
      BY <1>3, <1>6, <2>2
    <3> QED
      BY <2>2, <3>1 DEF Read, limit
  <2> QED
    BY <1>5, <2>2, <2>3
<1>7. CASE ~ (req.read >= limit)
  <2> DEFINE n == MaxBytesRead(k).n
             ok == MaxBytesRead(k).ok
             pc == IF ~ok THEN "too_large" ELSE IF eof THEN "eof" ELSE "upstream"
  <2>1. /\ k <= req.left /\ (eof => k = req.left)
        /\ q = [req EXCEPT !.pc = pc, !.left = req.left - k, !.quota = req.quota - n,
                           !.read = req.read + n, !.got = req.got + n]
    BY <1>1, <1>4, <1>7 DEF ReadBody, Limit
  <2>2. /\ ok \in BOOLEAN /\ n \in Nat /\ n <= k /\ n <= req.quota
        /\ ok => n = k
        /\ ~ok => n = req.quota /\ k > req.quota
    BY <1>3 DEF MaxBytesRead
  <2> HIDE DEF n, ok, limit
  <2>3. pc \in {"upstream", "eof", "too_large"}
    OBVIOUS
  <2>4. /\ req.left - k \in 0 .. MaxSize /\ req.quota - n \in Nat
        /\ req.read + n \in 0 .. MaxSize /\ req.got + n \in 0 .. MaxSize
    BY <1>3, <2>1, <2>2
  <2> DEFINE left == req.left - k
             quota == req.quota - n
             read == req.read + n
             got == req.got + n
  <2>5. /\ got = read /\ (ok => got + left = req.size) /\ quota + read = limit
        /\ (ok /\ eof => got = req.size)
        /\ (~ok => quota = 0 /\ req.size >= limit)
    BY <1>3, <2>1, <2>2
  <2>6. /\ left \in 0 .. MaxSize /\ quota \in Nat
        /\ read \in 0 .. MaxSize /\ got \in 0 .. MaxSize
        /\ q = [req EXCEPT !.pc = pc, !.left = left, !.quota = quota, !.read = read, !.got = got]
    BY <2>1, <2>4
  <2>7. /\ pc # "too_large" => ok
        /\ pc = "eof" => ok /\ eof
        /\ pc = "too_large" => ~ok
    OBVIOUS
  <2> HIDE DEF pc, left, quota, read, got
  <2>8. /\ q \in RequestRecord /\ q.pc = pc /\ Same
        /\ q.left = left /\ q.quota = quota /\ q.read = read /\ q.got = got
    <3>1. q = With(req, pc, left, quota, read, got, req.ran, req.user, req.key, req.status)
      BY <1>2, <2>6, ZenonT(60) DEF RequestRecord, With
    <3>2. /\ req.ran \in Nat /\ req.user \in {NoUser, "user"}
          /\ req.key \in {"none", "user", "ip"} /\ req.status \in {Pass, 204, 401, 403, 429}
      BY <1>2 DEF RequestRecord
    <3>3. pc \in {"idle", "notfound", "chain", "aborted", "upstream", "eof", "too_large"}
      BY <2>3
    <3>4. /\ left \in 0 .. MaxSize /\ quota \in Nat
          /\ read \in 0 .. MaxSize /\ got \in 0 .. MaxSize /\ req \in RequestRecord
      BY <1>2, <2>6
    <3>5. WithTyped(req, pc, left, quota, read, got, req.ran, req.user, req.key, req.status)
      BY <3>2, <3>3, <3>4 DEF WithTyped
    <3>6. WithFields(q, req, pc, left, quota, read, got, req.ran, req.user, req.key, req.status)
      BY <3>1, <3>5, Updated
    <3> QED
      BY <3>6 DEF WithFields
  <2>9. Read(q)
    BY <2>5, <2>7, <2>8 DEF Read, limit
  <2> QED
    BY <1>5, <2>3, <2>8, <2>9
<1> QED
  BY <1>6, <1>7

LEMMA ReturnKeeps ==
    ASSUME Inv, Return
    PROVE  Inv'
<1>1. Idle \in RequestRecord
  BY RoutingAssumption DEF Idle, RequestRecord, NoHeaders, Headers, NoUser, Pass, None
<1>2. req' = Idle /\ UNCHANGED tables
  BY DEF Return
<1> QED
  BY <1>1, <1>2, RequestSteps

-----------------------------------------------------------------------------
(* The invariant holds in every reachable state of the router and of the   *)
(* requests it serves.                                                     *)
THEOREM Invariance == Spec => []Inv
<1>1. Init => Inv
  BY Initially
<1>2. Inv /\ [Next]_vars => Inv'
  <2> SUFFICES ASSUME Inv, [Next]_vars PROVE Inv'
    OBVIOUS
  <2>1. CASE \E rc \in RouteConfigs : Declare(rc)
    BY <2>1, DeclareKeeps
  <2>2. CASE Finish
    BY <2>2, FinishKeeps
  <2>3. CASE \E m \in Methods, p \in Paths : Serve(m, p)
    BY <2>3, ServeKeeps
  <2>4. CASE RunPlugin
    BY <2>4, RunPluginKeeps
  <2>5. CASE GoUpstream
    BY <2>5, GoUpstreamKeeps
  <2>6. CASE \E k \in 0 .. MaxSize, eof \in BOOLEAN : ReadBody(k, eof)
    BY <2>6, ReadBodyKeeps
  <2>7. CASE Return
    BY <2>7, ReturnKeeps
  <2>8. CASE UNCHANGED vars
    <3>1. UNCHANGED tables /\ req' = req
      BY <2>8 DEF vars, tables
    <3>2. req' \in RequestRecord /\ (req' = Idle \/ Active(req'))
      BY <3>1 DEF Inv, TypeOK, Request
    <3> QED
      BY <3>1, <3>2, RequestSteps
  <2> QED
    BY <2>1, <2>2, <2>3, <2>4, <2>5, <2>6, <2>7, <2>8 DEF Next
<1> QED
  BY <1>1, <1>2, PTL DEF Spec

(* The tables hold declared routes, each with its plugins sorted, and the  *)
(* request has its type (router.New, Handler.ServeHTTP).                   *)
THEOREM TypeCorrect == Spec => []TypeOK
<1>1. Inv => TypeOK
  BY DEF Inv
<1> QED
  BY <1>1, Invariance, PTL

(* Match finds a best route: whatever was declared in whatever order and   *)
(* spelling, a request gets a route that applies to it and to which none   *)
(* is preferred, and none only if none applies (Router.Match).             *)
THEOREM BestRoute == Spec => []MatchIsBest
<1>1. Inv => MatchIsBest
  BY DEF Inv, Request, Active, MatchIsBest, Idle
<1> QED
  BY <1>1, Invariance, PTL

(* Through MaxBytesReader and limitedBodyReader the reader of a body gets  *)
(* all of it or an error, never more than the route's limit, and no body   *)
(* below the limit is refused (Handler.ServeHTTP, limitedBodyReader.Read). *)
THEOREM ExactBodyLimit == Spec => []BodyWholeOrRefused
<1>1. Inv => BodyWholeOrRefused
  <2> SUFFICES ASSUME Inv, req.pc \in {"upstream", "eof", "too_large"}
               PROVE  BodyWholeOrRefused
    BY DEF BodyWholeOrRefused
  <2>1. /\ req \in RequestRecord /\ Read(req) /\ routes[req.route].maxBody \in Nat
    BY UnderWay
  <2> DEFINE limit == routes[req.route].maxBody
  <2>2. /\ req.got = req.read /\ req.quota + req.read = limit
        /\ req.pc = "eof" => req.got = req.size
        /\ req.pc = "too_large" => req.quota = 0 /\ req.size >= limit
    BY <2>1 DEF Read
  <2>3. req.quota \in Nat /\ req.read \in Nat /\ limit \in Nat
    BY <2>1 DEF RequestRecord
  <2> HIDE DEF limit
  <2>4. req.got <= limit /\ (req.pc = "too_large" => req.got = limit)
    BY <2>2, <2>3
  <2> QED
    BY <2>2, <2>4 DEF BodyWholeOrRefused, Limit, limit
<1> QED
  BY <1>1, Invariance, PTL

(* The chain that runs a request, against the plugins in the file.         *)
LEMMA ChainOfRequest ==
    ASSUME Inv, req.pc \notin {"idle", "notfound"}, NEW chain, NEW refs,
           chain = routes[req.route].plugins, refs = Range(declared[req.route].plugins)
    PROVE  /\ Len(chain) \in Nat
           /\ \A k \in 1 .. Len(chain) : chain[k] \in refs /\ chain[k].order \in Int
           /\ \A pl \in refs : \E k \in 1 .. Len(chain) : chain[k] = pl
           /\ \A j, k \in 1 .. Len(chain) : j < k => chain[j].order <= chain[k].order
           /\ \A j, k \in 1 .. Len(chain) :
                 j < k /\ chain[j] # chain[k] => chain[j].order < chain[k].order
<1>1. TypeOK /\ req.route \in 1 .. Len(declared)
  BY UnderWay DEF Inv
<1>2. PICK rc \in RouteConfigs : rc = declared[req.route]
  BY <1>1, RouteFacts
<1>3. chain \in ByOrder(rc.plugins) /\ refs = Range(rc.plugins)
  BY <1>1, <1>2, RouteFacts
<1>4. /\ chain \in Seq(PluginRef)
      /\ \A k \in 1 .. Len(chain) : chain[k] \in Range(rc.plugins)
      /\ \A pl \in Range(rc.plugins) : \E k \in 1 .. Len(chain) : chain[k] = pl
      /\ \A j, k \in 1 .. Len(chain) : j < k => chain[j].order <= chain[k].order
      /\ \A j, k \in 1 .. Len(chain) :
            chain[j] # chain[k] => chain[j].order # chain[k].order
  BY <1>3, ChainFacts, ZenonT(60)
<1>5. Len(chain) \in Nat /\ \A k \in 1 .. Len(chain) : chain[k].order \in Int
  <2>1. chain \in Seq(PluginRef)
    BY <1>4
  <2>2. Len(chain) \in Nat /\ \A k \in 1 .. Len(chain) : chain[k] \in PluginRef
    BY <2>1
  <2>3. \A pl \in PluginRef : pl.order \in Int
    BY DEF PluginRef
  <2> QED
    BY <2>2, <2>3
<1>6. ASSUME NEW j \in 1 .. Len(chain), NEW k \in 1 .. Len(chain), j < k, chain[j] # chain[k]
      PROVE  chain[j].order < chain[k].order
  <2>1. chain[j].order <= chain[k].order /\ chain[j].order # chain[k].order
    BY <1>4, <1>6
  <2>2. chain[j].order \in Int /\ chain[k].order \in Int
    BY <1>5
  <2> QED
    BY <2>1, <2>2
<1> QED
  BY <1>3, <1>4, <1>5, <1>6

(* The orders decide, not the layout of the file: only a request to which  *)
(* no plugin of its route objects goes upstream, the objecting plugin of   *)
(* least order answers, and a per-user limiter counts a user exactly when  *)
(* a plugin that authenticates comes before it (Chain, JWTPlugin,          *)
(* RateLimitPlugin.bucketKey).                                             *)
THEOREM OrderDecides == Spec => []ChainByOrder
<1>1. ASSUME Inv PROVE ChainByOrder
  <2>1. CASE req.pc \in {"idle", "notfound"}
    <3>1. req.key = "none"
      BY <1>1, <2>1 DEF Inv, Request, Active, Idle
    <3> QED
      BY <2>1, <3>1 DEF ChainByOrder
  <2>2. CASE req.pc \notin {"idle", "notfound"}
    <3>1. PICK chain : chain = routes[req.route].plugins
      OBVIOUS
    <3>2. PICK refs : refs = Range(declared[req.route].plugins)
      OBVIOUS
    <3>3. /\ Len(chain) \in Nat
          /\ \A k \in 1 .. Len(chain) : chain[k] \in refs /\ chain[k].order \in Int
          /\ \A pl \in refs : \E k \in 1 .. Len(chain) : chain[k] = pl
          /\ \A j, k \in 1 .. Len(chain) : j < k => chain[j].order <= chain[k].order
          /\ \A j, k \in 1 .. Len(chain) :
                j < k /\ chain[j] # chain[k] => chain[j].order < chain[k].order
      BY <1>1, <2>2, <3>1, <3>2, ChainOfRequest, SMTT(40)
    <3>4. Ran(req, chain) /\ Keyed(req, chain)
      BY <1>1, <2>2, <3>1, UnderWay
    <3>5. Objecting = {pl \in refs : ExecuteRequest(pl, req.headers, req.method) # Pass}
      BY <3>2 DEF Objecting
    <3>6. ASSUME req.pc \in {"upstream", "eof", "too_large"} PROVE Objecting = {}
      <4>1. ASSUME NEW pl \in refs PROVE ExecuteRequest(pl, req.headers, req.method) = Pass
        <5>1. PICK k \in 1 .. Len(chain) : chain[k] = pl
          BY <3>3
        <5>2. req.ran = Len(chain) /\ req.pc # "aborted"
          BY <3>4, <3>6 DEF Ran
        <5>3. k < req.ran \/ k = req.ran
          BY <3>3, <5>2
        <5> QED
          BY <3>4, <5>1, <5>2, <5>3 DEF Ran
      <4> QED
        BY <3>5, <4>1
    <3>7. ASSUME req.pc = "aborted"
          PROVE  \E first \in Objecting :
                    /\ \A pl \in Objecting : first.order <= pl.order
                    /\ req.status = ExecuteRequest(first, req.headers, req.method)
      <4> DEFINE n == req.ran
      <4>1. /\ n \in 1 .. Len(chain)
            /\ req.status = ExecuteRequest(chain[n], req.headers, req.method)
            /\ req.status # Pass
        BY <3>3, <3>4, <3>7 DEF Ran
      <4>2. \A k \in 1 .. Len(chain) :
               k < n => ExecuteRequest(chain[k], req.headers, req.method) = Pass
        BY <3>4 DEF Ran
      <4> HIDE DEF n
      <4>3. chain[n] \in Objecting
        BY <3>3, <3>5, <4>1
      <4>4. ASSUME NEW pl \in Objecting PROVE chain[n].order <= pl.order
        <5>1. pl \in refs /\ ExecuteRequest(pl, req.headers, req.method) # Pass
          BY <3>5
        <5>2. PICK k \in 1 .. Len(chain) : chain[k] = pl
          BY <3>3, <5>1
        <5>3. ~ (k < n)
          BY <4>2, <5>1, <5>2
        <5>4. k = n \/ n < k
          BY <4>1, <5>3
        <5>5. chain[n].order <= chain[k].order
          <6>1. CASE k = n
            BY <3>3, <4>1, <6>1
          <6>2. CASE n < k
            BY <3>3, <4>1, <6>2
          <6> QED
            BY <5>4, <6>1, <6>2
        <5> QED
          BY <5>2, <5>5
      <4> QED
        BY <4>1, <4>3, <4>4
    <3>8. ASSUME req.key = "user"
          PROVE  \E jwt, rl \in refs :
                    /\ jwt.type = "jwt-auth" /\ jwt.mode # "passthrough"
                    /\ rl.type = "rate-limit" /\ rl.mode = "per-user"
                    /\ jwt.order < rl.order
      <4>1. PICK j \in 1 .. Len(chain), k \in 1 .. Len(chain) :
               /\ j < k
               /\ chain[j].type = "jwt-auth" /\ chain[j].mode # "passthrough"
               /\ chain[k].type = "rate-limit" /\ chain[k].mode = "per-user"
        BY <3>4, <3>8 DEF Keyed, Authenticates, Limits
      <4>2. chain[j] # chain[k]
        BY <4>1
      <4>3. chain[j].order < chain[k].order /\ chain[j] \in refs /\ chain[k] \in refs
        BY <3>3, <4>1, <4>2
      <4> QED
        BY <4>1, <4>3
    <3>9. ASSUME req.key = "ip", req.headers.token = "user"
          PROVE  \E rl \in refs : rl.type = "rate-limit" /\
                    \/ rl.mode # "per-user"
                    \/ \A jwt \in refs : jwt.type = "jwt-auth" /\ jwt.mode # "passthrough"
                                           => rl.order < jwt.order
      <4>1. PICK k \in 1 .. Len(chain) :
               /\ chain[k].type = "rate-limit"
               /\ \/ chain[k].mode # "per-user"
                  \/ \A j \in 1 .. Len(chain) : j < k => ~Authenticates(chain[j])
        BY <3>4, <3>9 DEF Keyed, Limits
      <4>2. chain[k] \in refs
        BY <3>3
      <4>3. CASE chain[k].mode # "per-user"
        BY <4>1, <4>2, <4>3
      <4>4. CASE \A j \in 1 .. Len(chain) : j < k => ~Authenticates(chain[j])
        <5>1. ASSUME NEW jwt \in refs, jwt.type = "jwt-auth", jwt.mode # "passthrough"
              PROVE  chain[k].order < jwt.order
          <6>1. PICK j \in 1 .. Len(chain) : chain[j] = jwt
            BY <3>3
          <6>2. ~ (j < k)
            BY <4>4, <5>1, <6>1 DEF Authenticates
          <6>3. chain[k] # chain[j]
            BY <4>1, <5>1, <6>1
          <6>4. k < j
            <7>1. j # k
              BY <6>3
            <7> QED
              BY <6>2, <7>1
          <6>5. chain[k].order < chain[j].order
            BY <3>3, <6>3, <6>4
          <6> QED
            BY <6>1, <6>5
        <5> QED
          BY <4>1, <4>2, <5>1
      <4> QED
        BY <4>1, <4>3, <4>4
    <3> QED
      BY <3>2, <3>6, <3>7, <3>8, <3>9 DEF ChainByOrder
  <2> QED
    BY <2>1, <2>2
<1> QED
  BY <1>1, Invariance, PTL
=============================================================================
