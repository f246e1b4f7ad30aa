------------------------------- MODULE MCRouting ------------------------------
(***************************************************************************)
(* Small route tables and requests for model checking Routing, and the      *)
(* filters of the rule that it chooses.                                    *)
(***************************************************************************)
EXTENDS RouteConfig, FiniteSetsExt

Root == <<"/">>
A == <<"/", "a">>
AB == <<"/", "a", "/", "b">>
Ab == <<"/", "a", "b">>
ASlash == <<"/", "a", "/">>
SlashA == <<"/", "/", "a">>
ASlashes == <<"/", "a", "/", "/">>
AnyA == <<".", "*", "a">>

P(type, value) == [type |-> type, value |-> value]
M(path, method, headers, params) ==
    [path |-> path, method |-> method, headers |-> headers, params |-> params]
OnPath(type, value) == M(P(type, value), "any", <<>>, <<>>)

Canary == [name |-> "x-canary", type |-> "exact", value |-> "yes"]
Tenant == [name |-> "tenant", type |-> "regex", value |-> "t.*"]

\* Matches as an HTTPRoute has them; "default" stands for an absent path type.
SpecMatches ==
    {OnPath("none", <<>>), OnPath("default", <<>>), OnPath("default", A), OnPath("prefix", ASlash),
     OnPath("prefix", AB), OnPath("exact", A), OnPath("regex", AnyA),
     M(P("default", A), "POST", <<>>, <<>>), M(P("default", A), "any", <<Canary>>, <<>>),
     M(P("default", A), "any", <<Canary>>, <<Tenant>>), M(P("none", <<>>), "any", <<>>, <<Tenant>>)}

\* Filters as an HTTPRoute has them.
F(type, content) == [type |-> type, content |-> {content}]
Modifier(type, add, set, remove) ==
    F(type, [add |-> {add}, set |-> {set}, remove |-> {remove}])
V(name, value) == [name |-> name, value |-> <<value>>]
Newline == <<"\n">>
Whole(value) == {[type |-> "ReplaceFullPath", value |-> value]}
Prefixed(value) == {[type |-> "ReplacePrefixMatch", value |-> value]}

Tag == Modifier("RequestHeaderModifier", <<V("x-canary", "v1")>>, <<V("x-tag", "v1")>>, <<"host">>)
Retag == Modifier("RequestHeaderModifier", <<V("x-tag", "v3")>>,
                  <<V("x-tag", "v2"), V("x-tag", "\n")>>, <<"x-canary", "x-tag">>)
Answered == Modifier("ResponseHeaderModifier", <<V("x-tag", "v4")>>, <<V("x-canary", "v4")>>, <<>>)
Inside == F("URLRewrite", [hostname |-> {<<"inside", "example">>}, path |-> Whole(<<"/", "b">>)])
Deeper == F("URLRewrite", [hostname |-> {}, path |-> Prefixed(<<"/", "b">>)])
Copy == F("RequestMirror", [ns |-> {}, name |-> "svc", port |-> {}])
Redirect(scheme, hostname, port, path) ==
    F("RequestRedirect", [scheme |-> scheme, hostname |-> hostname, port |-> port, path |-> path,
                          status |-> {}])
Empty(type) == [type |-> type, content |-> {}]

FilterLists ==
    {<<Tag>>, <<Retag>>, <<Tag, Retag>>, <<Retag, Answered, Tag>>, <<Tag, Inside, Copy>>,
     <<Empty("RequestHeaderModifier"), Empty("RequestRedirect"), F("ExtensionRef", "name")>>,
     <<Deeper>>, <<Copy, Redirect({}, {}, {}, {})>>,
     <<Redirect({"https"}, {<<"other">>}, {65536 + 8443}, Whole(<<"/", "b">>)), Tag>>,
     <<Redirect({"https"}, {}, {443}, Prefixed(<<"/", "b">>)), Redirect({}, {}, {80}, {})>>}
ASSUME FilterListsAssumption == FilterLists \subseteq Seq(SpecFilter)
AllFilters == UNION {ToSet(ConvertFilters(filters)) : filters \in FilterLists}

R(matches, filters) == [matches |-> matches, filters |-> ConvertFilters(filters)]
Singles == {R(<<m>>, <<>>) : m \in SpecMatches}
Others == {R(<<OnPath("default", A), m>>, <<Tag>>) : m \in SpecMatches}
       \cup {R(<<OnPath("default", A)>>, filters) : filters \in FilterLists}
       \cup {R(<<>>, <<Copy, Redirect({}, {}, {}, {})>>),
             R(<<OnPath("exact", A)>>, <<Redirect({}, {}, {}, {})>>)}

Host == <<"www", "example">>
Named == [wild |-> FALSE, labels |-> Host]
Wild == [wild |-> TRUE, labels |-> <<"example">>]
H(hostnames, rules) == [hostnames |-> hostnames, rules |-> rules]

\* One HTTPRoute with two rules; two HTTPRoutes with hostnames.
OneRoute == {<<ConvertHttpRoute(H({}, <<r, s>>), {"http"})>> : r \in Singles \cup Others, s \in Singles}
Plain == {R(<<>>, <<>>), R(<<OnPath("default", A)>>, <<>>),
          R(<<OnPath("default", Root), M(P("none", <<>>), "any", <<Canary>>, <<>>)>>, <<>>)}
HostRoutes == {ConvertHttpRoute(H(hs, <<r>>), on) :
                   hs \in {{}, {Named}, {Wild}}, r \in Plain, on \in {{"http"}, {"http", "https"}, {}}}
TwoRoutes == {<<r, s>> : r, s \in HostRoutes}

\* Tables that are not made by the control plane may have rules without matches.
ByHand == {<<[attached |-> {"http"}, hostnames |-> {}, rules |-> <<R(<<>>, <<>>), r, R(<<>>, <<>>)>>]>> :
               r \in {R(<<OnPath("prefix", A)>>, <<>>), R(<<>>, <<Redirect({}, {}, {}, {})>>)}}

D(number, unit) == [number |-> number, unit |-> unit]
AllTimeouts ==
    {[request |-> {<<D(1, "m")>>}, backendRequest |-> last] :
        last \in {{}, {<<D(10, "s")>>}, {<<D(500, "ms")>>}, {<<D(1, "h"), D(30, "m")>>}}}
AllBackends ==
    {<<>>, <<[ns |-> "a", name |-> "svc", port |-> 80, weight |-> 0, protocol |-> "http1"]>>}

AllTables == OneRoute \cup TwoRoutes \cup ByHand

Q(listener, host, path, method, headers, params) ==
    [listener |-> listener, host |-> host, path |-> path, method |-> method,
     headers |-> headers, params |-> params]
AllRequests ==
    {Q("http", Host, path, "GET", {}, {}) : path \in {Root, A, AB, Ab, ASlash, SlashA, ASlashes}}
    \cup {Q(listener, host, A, "POST", {<<"x-canary", "yes">>, <<"x-canary", "no">>}, {<<"tenant", "t1">>}) :
              listener \in {"http", "https"}, host \in {<<>>, Host, <<"example">>, <<"a", "b", "example">>}}

AllTexts == STRING
AllReplacements == {Root, <<"/", "b">>, <<"/", "b", "/">>, <<"/", "b", "/", "/">>}
AllHeaderNames == {"host", "x-canary", "x-tag"}
AllUnusable == {Newline}

AllPathRegex == {<<AnyA, path>> : path \in {A, AB, Ab, ASlash, SlashA, ASlashes}}
AllValueRegex == {<<"t.*", "t1">>}

=============================================================================
