------------------------------- MODULE Routing --------------------------------
(***************************************************************************)
(* How a request finds its rule: the route function of the data plane      *)
(* (proxy-core/src/routing.rs) on the table that the control plane makes   *)
(* of the HTTPRoutes (controller/httproute.rs).                            *)
(*                                                                         *)
(* The function is a scan.  It walks over the routes, over the rules of    *)
(* each route that is attached to the listener and has the request's host, *)
(* and over the matches of each rule, and keeps the best candidate so far. *)
(* An action is one turn of one of the three loops.                        *)
(*                                                                         *)
(* A path is a sequence of characters, a host a sequence of labels without *)
(* its port (<<>> when there is no Host header).  Hosts, header names and  *)
(* methods that differ in case only are one value.                         *)
(***************************************************************************)
EXTENDS Integers, Sequences

CONSTANTS
    Tables,     \* the route tables a proxy may have
    Requests,   \* the requests that may arrive, each at a listener
    Filter,     \* the filters a rule may have, each with its type (see Filters)
    PathRegex,  \* the pairs <<p, t>> where p is valid and matches somewhere in the path t
    ValueRegex  \* the same for the values of headers and query parameters

PathTypes == {"none", "exact", "prefix", "regex"}
Path == Seq(STRING)

\* A RouteMatch; an absent path has type "none", an absent method is "any".
Condition == [name : STRING, type : {"exact", "regex"}, value : STRING]
PathMatch == {p \in [type : PathTypes, value : Path] : p.type = "none" => p.value = <<>>}
Match == [path : PathMatch, method : STRING, headers : Seq(Condition), params : Seq(Condition)]

Rule == [matches : Seq(Match), filters : Seq(Filter)]
Hostname == [wild : BOOLEAN, labels : Seq(STRING)]
Route == [attached : SUBSET STRING, hostnames : SUBSET Hostname, rules : Seq(Rule)]

Request == [listener : STRING, host : Seq(STRING), path : Path, method : STRING,
            headers : SUBSET (STRING \X STRING), params : SUBSET (STRING \X STRING)]

ASSUME RoutingAssumption == Tables \subseteq Seq(Route) /\ Requests \subseteq Request

-----------------------------------------------------------------------------
(* The table: what convert_httproute_to_config makes of an HTTPRoute.      *)

\* A path without a type is a prefix, and one without a value is "/".
ConvertPath(p) ==
    [type |-> IF p.type = "default" THEN "prefix" ELSE p.type,
     value |-> IF p.type # "none" /\ p.value = <<>> THEN <<"/">> ELSE p.value]

ConvertMatch(m) == [m EXCEPT !.path = ConvertPath(@)]

MatchAnything ==
    [path |-> [type |-> "none", value |-> <<>>], method |-> "any", headers |-> <<>>, params |-> <<>>]

\* A rule without matches gets one that matches everything.
ConvertRule(rule) ==
    [rule EXCEPT !.matches = IF @ = <<>> THEN <<MatchAnything>>
                             ELSE [i \in DOMAIN @ |-> ConvertMatch(@[i])]]

ConvertHttpRoute(spec, listeners) ==
    [attached |-> listeners, hostnames |-> spec.hostnames,
     rules |-> [i \in DOMAIN spec.rules |-> ConvertRule(spec.rules[i])]]

-----------------------------------------------------------------------------
(* The conditions.                                                         *)

HostMatches(h, host) ==
    IF h.wild THEN Len(host) > 1 /\ Tail(host) = h.labels
              ELSE host = h.labels

HostnameMatches(route, host) ==
    \/ route.hostnames = {}
    \/ host # <<>> /\ \E h \in route.hostnames : HostMatches(h, host)

StartsWith(s, t) == Len(t) <= Len(s) /\ \A i \in 1 .. Len(t) : s[i] = t[i]

\* Bug: no element boundary after the prefix.
PrefixPathMatchesAnywhere(prefix, path) == StartsWith(path, prefix)

PrefixPathMatches(prefix, path) ==
    \/ prefix = <<"/">>
    \/ path = prefix
    \/ StartsWith(path, prefix) /\ Len(path) > Len(prefix) /\ path[Len(prefix) + 1] = "/"

PathMatches(p, path) ==
    CASE p.type = "none" -> TRUE
      [] p.type = "exact" -> path = p.value
      [] p.type = "prefix" -> PrefixPathMatches(p.value, path)
      [] p.type = "regex" -> <<p.value, path>> \in PathRegex

\* Some header (query parameter) of the condition's name has a value it accepts.
ConditionHolds(c, pairs) ==
    \E pair \in pairs : /\ pair[1] = c.name
                        /\ IF c.type = "exact" THEN pair[2] = c.value
                                               ELSE <<c.value, pair[2]>> \in ValueRegex

MatchApplies(m, req) ==
    /\ PathMatches(m.path, req.path)
    /\ m.method \in {"any", req.method}
    /\ \A i \in DOMAIN m.headers : ConditionHolds(m.headers[i], req.headers)
    /\ \A i \in DOMAIN m.params : ConditionHolds(m.params[i], req.params)

-----------------------------------------------------------------------------
(* The precedence of a match.                                              *)

\* path_kind, path_length, has_method, header_count, query_param_count.
MatchPrecedence == [1 .. 5 -> Nat]

PathKind(p) == CASE p.type = "exact" -> 2 [] p.type = "prefix" -> 1 [] OTHER -> 0

\* Bug: query parameters do not count.
PrecedenceWithoutParams(m) ==
    << PathKind(m.path), Len(m.path.value), IF m.method = "any" THEN 0 ELSE 1, Len(m.headers), 0 >>

Precedence(m) ==
    << PathKind(m.path), Len(m.path.value), IF m.method = "any" THEN 0 ELSE 1,
       Len(m.headers), Len(m.params) >>

Lowest == <<0, 0, 0, 0, 0>>

\* Tuples compare lexicographically.
PrecedenceBeats(a, b) ==
    \E i \in 1 .. 5 : a[i] > b[i] /\ \A j \in 1 .. i - 1 : a[j] = b[j]

-----------------------------------------------------------------------------
(* The scan.                                                               *)

VARIABLES
    table,      \* the routes
    request,    \* the request
    at,         \* where the three loops are
    ruleBest,   \* best of rule_matches: the best precedence within the rule, if any
    best,       \* best of route: the best candidate, if any
    outcome     \* the decision
vars == <<table, request, at, ruleBest, best, outcome>>

Start == [route |-> 1, rule |-> 1, match |-> 1]
Candidate == [rule : Nat \X Nat, precedence : MatchPrecedence]

Init ==
    /\ table \in Tables
    /\ request \in Requests
    /\ at = Start
    /\ ruleBest = {}
    /\ best = {}
    /\ outcome = "pending"

Considered(route) ==
    /\ request.listener \in route.attached
    /\ HostnameMatches(route, request.host)

InRoute == outcome = "pending" /\ at.route \in DOMAIN table /\ Considered(table[at.route])
Rules == table[at.route].rules
InRule == InRoute /\ at.rule \in DOMAIN Rules
Matches == Rules[at.rule].matches

\* Another listener's route, or another host's.
SkipRoute ==
    /\ outcome = "pending"
    /\ at.route \in DOMAIN table
    /\ ~Considered(table[at.route])
    /\ at' = [Start EXCEPT !.route = at.route + 1]
    /\ UNCHANGED <<table, request, ruleBest, best, outcome>>

TryMatch ==
    /\ InRule
    /\ at.match \in DOMAIN Matches
    /\ LET m == Matches[at.match]
           dominated == \A b \in ruleBest : PrecedenceBeats(Precedence(m), b)
       IN ruleBest' = IF MatchApplies(m, request) /\ dominated THEN {Precedence(m)} ELSE ruleBest
    /\ at' = [at EXCEPT !.match = @ + 1]
    /\ UNCHANGED <<table, request, best, outcome>>

\* What rule_matches returns; a rule without matches matches everything.
Returned == IF Matches = <<>> THEN {Lowest} ELSE ruleBest
Here(p) == [rule |-> <<at.route, at.rule>>, precedence |-> p]

EndRuleWith(beating, left) ==
    /\ InRule
    /\ at.match = Len(Matches) + 1
    /\ best' = IF beating = {} THEN best ELSE {Here(p) : p \in beating}
    /\ ruleBest' = left
    /\ at' = [route |-> at.route, rule |-> at.rule + 1, match |-> 1]
    /\ UNCHANGED <<table, request, outcome>>

\* Bugs: a tie goes to the last rule; the next rule starts from this one's best.
EndRuleLastOfEquals ==
    EndRuleWith({p \in Returned : \A b \in best : ~PrecedenceBeats(b.precedence, p)}, {})
EndRuleKeepsBest ==
    EndRuleWith({p \in Returned : \A b \in best : PrecedenceBeats(p, b.precedence)}, ruleBest)

EndRule == EndRuleWith({p \in Returned : \A b \in best : PrecedenceBeats(p, b.precedence)}, {})

EndRoute ==
    /\ InRoute
    /\ at.rule = Len(Rules) + 1
    /\ at' = [Start EXCEPT !.route = at.route + 1]
    /\ UNCHANGED <<table, request, ruleBest, best, outcome>>

RuleAt(place) == table[place[1]].rules[place[2]]

\* build_decision: a redirect filter anywhere in the rule makes it a redirect.
Decision(rule) ==
    IF \E i \in DOMAIN rule.filters : rule.filters[i].type = "RequestRedirect"
    THEN "redirect" ELSE "forward"

Decide ==
    /\ outcome = "pending"
    /\ at.route = Len(table) + 1
    /\ \/ best = {} /\ outcome' = "not_found"
       \/ \E c \in best : outcome' = Decision(RuleAt(c.rule))
    /\ UNCHANGED <<table, request, at, ruleBest, best>>

Next == SkipRoute \/ TryMatch \/ EndRule \/ EndRoute \/ Decide

Spec == Init /\ [][Next]_vars

-----------------------------------------------------------------------------
(* What the scan computes, said without the scan.                          *)

\* The precedences with which a rule matches the request.
RulePrecedences(rule) ==
    IF rule.matches = <<>> THEN {Lowest}
    ELSE {Precedence(rule.matches[i]) :
              i \in {i \in DOMAIN rule.matches : MatchApplies(rule.matches[i], request)}}

Places == UNION {{i} \X DOMAIN table[i].rules : i \in DOMAIN table}
ConsideredPlaces == {place \in Places : Considered(table[place[1]])}

Before(p, q) == p[1] < q[1] \/ (p[1] = q[1] /\ p[2] < q[2])

\* No candidate beats c, and c beats all that come before it.
FirstBest(c, places) ==
    /\ c.rule \in places
    /\ c.precedence \in RulePrecedences(RuleAt(c.rule))
    /\ \A q \in places : \A p \in RulePrecedences(RuleAt(q)) :
           /\ ~PrecedenceBeats(p, c.precedence)
           /\ Before(q, c.rule) => PrecedenceBeats(c.precedence, p)

Nothing(places) == \A q \in places : RulePrecedences(RuleAt(q)) = {}

-----------------------------------------------------------------------------
(* Properties.                                                             *)

\* The variables have their types: a table and a request, places in them, at
\* most one best precedence and one best candidate, a decision.
TypeOK ==
    /\ table \in Tables
    /\ request \in Requests
    /\ at \in [route : Nat, rule : Nat, match : Nat]
    /\ ruleBest \in SUBSET MatchPrecedence /\ \A p, q \in ruleBest : p = q
    /\ best \in SUBSET Candidate /\ \A c, d \in best : c = d
    /\ outcome \in {"pending", "not_found", "forward", "redirect"}

\* The loops are at a route, rule and match that exist, or just past the last.
LoopsInRange ==
    /\ at.route \in 1 .. Len(table) + 1
    /\ InRoute => at.rule \in 1 .. Len(Rules) + 1
    /\ InRule => at.match \in 1 .. Len(Matches) + 1
    /\ ~InRule => at.match = 1 /\ ruleBest = {}
    /\ ~InRoute => at.rule = 1
    /\ outcome # "pending" => at.route = Len(table) + 1

\* Loop invariant of rule_matches (routing.rs:243-250).
RuleBestIsBest ==
    InRule =>
        LET tried == {i \in DOMAIN Matches : i < at.match /\ MatchApplies(Matches[i], request)}
        IN /\ ruleBest = {} => tried = {}
           /\ \A b \in ruleBest :
                  /\ \E i \in tried : b = Precedence(Matches[i])
                  /\ \A i \in tried : ~PrecedenceBeats(Precedence(Matches[i]), b)

\* Loop invariant of route (routing.rs:87-109).
BestIsFirstBest ==
    LET scanned == {q \in ConsideredPlaces : Before(q, <<at.route, at.rule>>)}
    IN /\ best = {} => Nothing(scanned)
       /\ \A c \in best : FirstBest(c, scanned)

\* The decision is that of the best candidate.
DecisionOfBest ==
    /\ outcome = "not_found" => best = {}
    /\ outcome \in {"forward", "redirect"} => \E c \in best : outcome = Decision(RuleAt(c.rule))

\* The inductive invariant of the scan.
IInv == TypeOK /\ LoopsInRange /\ RuleBestIsBest /\ BestIsFirstBest /\ DecisionOfBest

\* What route returns (routing.rs:67-79): NotFound only if no rule of a route of
\* this listener and host matches; otherwise the first of the rules that no
\* other beats, and a redirect exactly if that rule has a redirect filter.
ChosenIsFirstBest ==
    /\ outcome = "not_found" => Nothing(ConsideredPlaces)
    /\ outcome \in {"forward", "redirect"} =>
           \E c \in best : FirstBest(c, ConsideredPlaces) /\ outcome = Decision(RuleAt(c.rule))

\* p is satisfied by fewer paths than q, or by the same.
Narrower(p, q) ==
    \/ p = q
    \/ q.type = "none" /\ p.value # <<>>
    \/ q.type # "exact" /\ p.type = "exact"
    \/ q.type = "prefix" /\ p.type = "prefix" /\ StartsWith(p.value, q.value)

\* m asks for everything that n asks for, and more.
Refines(m, n) ==
    /\ m # n
    /\ Narrower(m.path, n.path)
    /\ n.method \in {"any", m.method}
    /\ StartsWith(m.headers, n.headers)
    /\ StartsWith(m.params, n.params)

\* A match that adds conditions to another takes the requests that satisfy them,
\* whichever routes and rules the two are in: the rule chosen for a request has
\* a match that no applying match refines (precedence_beats, routing.rs:135-166).
MoreSpecificWins ==
    \A c \in best : outcome # "pending" =>
        \/ RuleAt(c.rule).matches = <<>>
        \/ \E i \in DOMAIN RuleAt(c.rule).matches :
               LET n == RuleAt(c.rule).matches[i] IN
               /\ MatchApplies(n, request)
               /\ \A q \in ConsideredPlaces : \A k \in DOMAIN RuleAt(q).matches :
                      LET m == RuleAt(q).matches[k]
                      IN MatchApplies(m, request) => ~Refines(m, n)

\* The elements of a path that begins with a slash, without the empty one after a
\* trailing slash.
Absolute(path) == path # <<>> /\ path[1] = "/"
WithCharacter(elements, c) ==
    IF c = "/" THEN Append(elements, <<>>) ELSE [elements EXCEPT ![Len(elements)] = Append(@, c)]
Elements(path) ==
    LET upTo[n \in 0 .. Len(path) - 1] ==
            IF n = 0 THEN <<<<>>>> ELSE WithCharacter(upTo[n - 1], path[n + 1])
        all == upTo[Len(path) - 1]
    IN IF all[Len(all)] = <<>> THEN SubSeq(all, 1, Len(all) - 1) ELSE all

\* A prefix matches element by element: /a matches /a, /a/ and /a/b but not /ab
\* (prefix_path_matches, routing.rs:317-331).  A prefix with a trailing slash of
\* its own is excepted: /a/ does not match /a in the code.
PrefixByElements ==
    \A i \in DOMAIN table : \A u \in DOMAIN table[i].rules : \A k \in DOMAIN table[i].rules[u].matches :
        LET p == table[i].rules[u].matches[k].path IN
        /\ p.type = "prefix" /\ Absolute(p.value) /\ Absolute(request.path)
        /\ p.value = <<"/">> \/ p.value[Len(p.value)] # "/"
        => (PathMatches(p, request.path) <=> StartsWith(Elements(request.path), Elements(p.value)))

=============================================================================
