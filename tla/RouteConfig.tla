------------------------------ MODULE RouteConfig ------------------------------
(***************************************************************************)
(* The routes of Routing, with the filters of Filters, as the types of     *)
(* Schema have them: what the control plane writes of an HTTPRoute and the *)
(* data plane reads.                                                       *)
(***************************************************************************)
EXTENDS Routing, Filters, Schema

CONSTANTS
    Texts,          \* names, schemes and parts of the values of headers
    RuleBackends,   \* the lists of backends that a rule may have
    RuleTimeouts,   \* the timeouts that a rule of an HTTPRoute may have
    Replacements    \* paths that a matched prefix may be replaced by

AtMostOneOf(S) == {set \in SUBSET S : \A x, y \in set : x = y}

-----------------------------------------------------------------------------
(* The filters of an HTTPRoute: the content is an option, and so is each   *)
(* part of it that need not be there.                                      *)

HeaderValue == [name : Texts, value : Seq(Texts)]
PathModifier == [type : {"ReplaceFullPath", "ReplacePrefixMatch"}, value : Path]
Modifications ==
    [add : AtMostOneOf(Seq(HeaderValue)), set : AtMostOneOf(Seq(HeaderValue)),
     remove : AtMostOneOf(Seq(Texts))]
Redirection ==
    [scheme : AtMostOneOf(Texts), hostname : AtMostOneOf(Seq(Texts)), port : AtMostOneOf(Int),
     path : AtMostOneOf(PathModifier), status : AtMostOneOf(Int)]
Rewriting == [hostname : AtMostOneOf(Seq(Texts)), path : AtMostOneOf(PathModifier)]
Mirrored == [ns : AtMostOneOf(Texts), name : Texts, port : AtMostOneOf(Int)]

SpecFilter ==
         [type : ModifierTypes, content : AtMostOneOf(Modifications)]
    \cup [type : {"RequestRedirect"}, content : AtMostOneOf(Redirection)]
    \cup [type : {"URLRewrite"}, content : AtMostOneOf(Rewriting)]
    \cup [type : {"RequestMirror"}, content : AtMostOneOf(Mirrored)]
    \cup [type : {"ExtensionRef"}, content : AtMostOneOf(Texts)]

-----------------------------------------------------------------------------
(* The types of the configuration.                                         *)

BackendRef == [ns : Texts, name : Texts, port : U16, weight : Nat, protocol : {"http1", "h2c"}]

RouteFilter ==
         [type : ModifierTypes, add : Seq(HeaderValue), set : Seq(HeaderValue), remove : Seq(Texts)]
    \cup [type : {"RequestRedirect"}, scheme : AtMostOneOf(Texts),
          hostname : AtMostOneOf(Seq(Texts)), port : AtMostOneOf(U16),
          path : AtMostOneOf(PathModifier), status : AtMostOneOf(U16)]
    \cup [type : {"URLRewrite"}, hostname : AtMostOneOf(Seq(Texts)), path : AtMostOneOf(PathModifier)]
    \cup [type : {"RequestMirror"}, backend : BackendRef, percent : AtMostOneOf(Nat)]

\* What ConvertFilters makes of filters of an HTTPRoute is of this type, and so may
\* be what is written by hand.
ASSUME RouteConfigAssumption ==
    /\ "" \in Texts
    /\ Filter \subseteq RouteFilter
    /\ RuleBackends \subseteq Seq(BackendRef)
    /\ Replacements \subseteq Path
    /\ \A r \in Requests : IsFiniteSet(r.headers)

\* A path, a method or a timeout that is absent is not written.
Option(x, absent) == IF x = absent THEN {} ELSE {x}
AsTyped(rule, backends, timeout) ==
    [name |-> {}, backends |-> backends, timeout |-> timeout, filters |-> rule.filters,
     matches |-> [i \in DOMAIN rule.matches |->
                     [rule.matches[i] EXCEPT !.path = IF @.type = "none" THEN {} ELSE {@},
                                             !.method = Option(@, "any")]]]

Timeouts == {{}} \cup {{ConvertTimeouts(t)} : t \in RuleTimeouts}

-----------------------------------------------------------------------------
(* The two implementations of filters.                                     *)

\* The request as the pipeline has it: its Host header has a port.
HttpRequest ==
    [path |-> request.path, query |-> "q",
     headers |-> [n \in HeaderNames |->
                     IF n = "host" THEN IF request.host = <<>> THEN <<>> ELSE <<Append(request.host, Port)>>
                     ELSE SetToSeq({<<pair[2]>> : pair \in {h \in request.headers : h[1] = n}})]]

\* Headers as the list that filter.rs has, and the values of a name in a list.
ListOf(headers) ==
    LET names == SetToSeq(HeaderNames)
    IN FlattenSeq([i \in DOMAIN names |->
           [k \in DOMAIN headers[names[i]] |-> [name |-> names[i], value |-> headers[names[i]][k]]]])
WithName(list, n) == Selected(list, {h \in ToSet(list) : h.name = n})
ValuesOf(list, n) == [i \in DOMAIN WithName(list, n) |-> WithName(list, n)[i].value]
UsableOf(hvs) == Selected(hvs, {hv \in ToSet(hvs) : hv.value \notin Unusable})

\* A repeated header that is set keeps its repetitions in filter.rs only.
HeadersAsTested(filters, type) ==
    LET headers == HttpRequest.headers
        m == Modification(filters, type)
        usable == [m EXCEPT !.add = UsableOf(@), !.set = UsableOf(@)]
        tested == ModifyList(ListOf(headers), usable)
        repeated == {n \in HeaderNames : /\ ValuesOf(usable.set, n) # <<>>
                                         /\ Len(Removed(headers, m.remove)[n]) > 1}
    IN \A n \in HeaderNames \ repeated : ModifyHeaders(headers, m)[n] = ValuesOf(tested, n)

\* The router looks neither at the query nor at the matched prefix, and writes a
\* standard port.
RedirectAsTested(filters) ==
    LET f == Head(OfType(filters, "RequestRedirect"))
        tested == ComputeRedirect(f, HttpRequest, request.host)
        done == RedirectTo(f, request.path, request.host)
    IN /\ request.host # <<>> => done.host = tested.host
       /\ done.scheme = tested.scheme /\ done.status = tested.status
       /\ (\A p \in f.path : p.type = "ReplaceFullPath") => done.path = tested.path
       /\ (\A p \in f.port : ~StandardPort(done.scheme, p)) => done.port = tested.port

\* Where a prefix of the rule is replaced the elements of the path are those of the
\* replacement and those after the prefix: no slash is doubled or missing.  Excepted
\* is a prefix that ends in a slash and is followed by another: one of these is lost.
Join(path, prefix) ==
    Len(path) > Len(prefix) /\ path[Len(prefix) + 1] = "/" => prefix[Len(prefix)] # "/"
PrefixReplaced(rule) ==
    \A i \in DOMAIN rule.matches, to \in Replacements :
        LET p == rule.matches[i].path
            after == SubSeq(Elements(request.path), Len(Elements(p.value)) + 1,
                            Len(Elements(request.path)))
        IN /\ p.type = "prefix" /\ PathMatches(p, request.path) /\ Join(request.path, p.value)
           /\ Absolute(p.value) /\ Absolute(request.path) /\ Absolute(to)
           => Elements(ReplacePrefix(request.path, p.value, to)) = Elements(to) \o after

-----------------------------------------------------------------------------
(* Properties.                                                             *)

\* The routes that the control plane converts are read by the data plane as they were
\* written, whatever their matches, filters, backends and timeouts leave out: the two
\* copies of the schema agree about what may be missing and what it then is
\* (controller/config.rs 218-490, proxy-core config.rs 7 "wire-compatible").
RoutesArrive ==
    \A i \in DOMAIN table :
        /\ Arrives(WriteRoute, ReadRoute,
                   [key |-> i, hostnames |-> table[i].hostnames, attached |-> table[i].attached,
                    rules |-> table[i].rules])
        /\ \A u \in DOMAIN table[i].rules : \A backends \in RuleBackends, timeout \in Timeouts :
               RuleArrives(AsTyped(table[i].rules[u], backends, timeout))

\* The filters of the chosen rule do to a request and its response, and to a
\* redirect, what the functions of filter.rs do that its tests are about, though the
\* pipeline and the router have their own (filter.rs 266-295 and pipeline.rs 785-807,
\* 838-865; filter.rs 129-187 and routing.rs 418-437); replace_prefix joins paths as
\* its comment says (filter.rs 312-322); and a request that had a host is forwarded
\* with one, though a filter removes it (pipeline.rs 809).
FiltersAsTested ==
    \A c \in best :
        LET filters == RuleAt(c.rule).filters IN
        outcome # "pending" =>
        /\ outcome = "redirect" => RedirectAsTested(filters)
        /\ PrefixReplaced(RuleAt(c.rule))
        /\ outcome = "forward" /\ ~Panics(filters) =>
               /\ HeadersAsTested(filters, "RequestHeaderModifier")
               /\ HeadersAsTested(filters, "ResponseHeaderModifier")
               /\ LET sent == UpstreamRequest(filters, HttpRequest).headers["host"]
                  IN request.host # <<>> => sent # <<>>

=============================================================================
