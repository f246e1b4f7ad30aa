----------------------------- MODULE MCPublication -----------------------------
(* Two namespaces with a Gateway of the same name each, and one of another name. *)
EXTENDS Publication

MCGatewayKeys == {<<"a", "gw">>, <<"b", "gw">>, <<"a", "lan">>}
MCRouteKeys == {<<"a", "rt">>, <<"b", "rt">>}
MCServiceKeys == {<<"a", "svc">>, <<"b", "svc">>} \cup {<<k[1], DpName(k)>> : k \in MCGatewayKeys}
MCSecretKeys == {<<"a", "cert">>, <<"b", "cert">>}

MCClassStatus == [ours |-> "accepted", theirs |-> "foreign", waiting |-> "pending"]
MCNodes == <<[ready |-> FALSE, internal |-> <<"10.0.0.1">>],
             [ready |-> TRUE, internal |-> <<"10.0.0.2", "10.0.0.3">>]>>

\* "web", "tls" and "web-exter-intern".
MCBytes == [web |-> <<119, 101, 98>>, tls |-> <<116, 108, 115>>,
            webExternal |-> <<119, 101, 98, 45, 101, 120, 116, 101, 114, 45, 105, 110, 116,
                              101, 114, 110>>]

Plain(name, port, from) ==
    [name |-> name, port |-> port, protocol |-> "HTTP", hostname |-> {}, tls |-> {},
     from |-> from, selector |-> {}]
Cert(ns, name) == [ns |-> ns, name |-> name]
Secure(name, hostname, refs) ==
    [name |-> name, port |-> 443, protocol |-> "HTTPS", hostname |-> hostname,
     tls |-> {[mode |-> "Terminate", refs |-> refs]}, from |-> "Same", selector |-> {}]
Host(wild) == {[wild |-> wild, name |-> "example"]}
Gw(class, listeners) == [class |-> class, listeners |-> listeners, addresses |-> <<>>]

MCGatewaySpecs ==
    {Gw("ours", <<Plain("web", 80, "All"), Plain("webExternal", 81, "Same"),
                  Secure("tls", Host(FALSE), <<Cert({}, "cert"), Cert({"b"}, "cert")>>)>>),
     Gw("ours", <<Plain("web", 80, "default"),
                  Secure("tls", Host(TRUE), <<Cert({"b"}, "cert")>>)>>),
     Gw("ours", <<[Plain("web", 70000, "Selector") EXCEPT !.selector = {{"label"}}]>>),
     Gw("waiting", <<Plain("web", 80, "All")>>)}

To(ns, section) == [kind |-> "Gateway", ns |-> ns, name |-> "gw", section |-> section, port |-> {}]
Backend(ns) == [kind |-> "Service", ns |-> ns, name |-> "svc", port |-> {8080}, weight |-> {}]
MCRouteSpecs ==
    {[parents |-> <<To({"b"}, {}), To({"a"}, {"tls"})>>, backends |-> <<Backend({})>>],
     [parents |-> <<To({}, {})>>, backends |-> <<Backend({"b"})>>],
     [parents |-> <<[To({"a"}, {}) EXCEPT !.kind = "Service"], To({"a"}, {})>>,
      backends |-> <<>>]}

MCServices == {[ingress |-> <<>>, clusterIp |-> {"10.1.0.1"}]}
MCContents == {"pair", "unparsable", "half"}

From(kind, ns) == [kind |-> kind, ns |-> ns]
MCGrants ==
    {[ns |-> "a", from |-> {From("HTTPRoute", "b")}, to |-> {"Gateway"}],
     [ns |-> "b", from |-> {From("HTTPRoute", "a"), From("Gateway", "a")}, to |-> {"Service"}],
     [ns |-> "b", from |-> {From("Gateway", "a")}, to |-> {"Secret"}]}
=============================================================================
