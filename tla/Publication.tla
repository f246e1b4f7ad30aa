------------------------------ MODULE Publication ------------------------------
(***************************************************************************)
(* What the control plane makes of a cluster: which objects each reconcile *)
(* reads (SnapshotFetcher), what it decides about listeners, routes and    *)
(* backends (core/validate.rs), the configuration and the resources of a   *)
(* Gateway (core/reconcile.rs, controller/config.rs, httproute.rs), and    *)
(* what a data plane pod makes of its listeners (proxy-core/src/tls.rs).   *)
(*                                                                         *)
(* Users edit the cluster; what a reconcile computes is an operator on the *)
(* cluster of the moment.  That a reconcile takes time, and what others do *)
(* meanwhile, is the subject of ControlPlane.  An optional field of an     *)
(* object is a set of at most one value, and so is an object that may be   *)
(* missing.  Of a route the rules are the sequence of their backends: their *)
(* matches are in Routing, their filters and timeouts in Filters.  How the  *)
(* configuration is written and read is in Schema.                         *)
(***************************************************************************)
EXTENDS Integers, Sequences, FiniteSets, SequencesExt, Schema

CONSTANTS
    GatewayKeys, RouteKeys, ServiceKeys, SecretKeys,    \* <<namespace, name>>
    ClassStatus,    \* of the GatewayClasses there are: ours and accepted or not
    Nodes,          \* in the order of their names: [ready, addresses]
    Bytes,          \* the bytes of each listener name
    GatewaySpecs, RouteSpecs, Services, Contents, Grants,   \* what users may write
    MaxObjects      \* bound: the objects in the cluster at once

Default(option, value) == IF option = {} THEN value ELSE CHOOSE x \in option : TRUE
The(option) == CHOOSE x \in option : TRUE

VARIABLES gateways, routes, services, secrets, grants
vars == <<gateways, routes, services, secrets, grants>>

-----------------------------------------------------------------------------
(* Snapshots: what is fetched for a reconcile.                             *)

Only(objects, keys) == [k \in DOMAIN objects |-> IF k \in keys THEN objects[k] ELSE {}]

\* DataPlaneNames: the namespace is the Gateway's.
DpName(k) == "multiway-dp-" \o k[2]
ConfigMapName(k) == "multiway-config-" \o k[2]
Labels(k) == [managedBy |-> "multiway", gateway |-> k[2], namespace |-> k[1],
              component |-> "dataplane", app |-> "multiway"]
SelectorLabels(k) == [gateway |-> k[2], namespace |-> k[1], component |-> "dataplane"]

ParentKey(r, p) == <<Default(p.ns, r[1]), p.name>>
BackendKey(r, b) == <<Default(b.ns, r[1]), b.name>>

\* Bug: only the first parentRef counts.
RefersFirst(spec, r, k) == spec.parents # <<>> /\ ParentKey(r, spec.parents[1]) = k

\* routes_for_gateway and fetch_routes_for_gateway look at names only.
Refers(spec, r, k) == \E i \in DOMAIN spec.parents : ParentKey(r, spec.parents[i]) = k
RoutesFor(s, k) == {r \in RouteKeys : \E spec \in s.routes[r] : Refers(spec, r, k)}

BackendServices(rs) ==
    UNION {{BackendKey(r, b) :
                b \in {c \in UNION {ToSet(spec.backends) : spec \in routes[r]} :
                           c.kind = "Service"}} : r \in rs}

ClassOf(objects, ks) == {spec.class : spec \in UNION {objects[k] : k \in ks}}

\* Bug: routes are listed in the namespace of the Gateway.
GatewaySnapshotOfNamespace(k) ==
    LET rs == {r \in RoutesFor([routes |-> routes], k) : r[1] = k[1]} IN
    [gateways |-> Only(gateways, {k}), classes |-> ClassOf(gateways, {k}),
     routes |-> Only(routes, rs),
     services |-> Only(services, BackendServices(rs) \cup {<<k[1], DpName(k)>>}),
     secrets |-> Only(secrets, {}), grants |-> {}, nodes |-> Nodes]

\* For a Gateway: its class, the routes that refer to it with their backends, the
\* Service of its data plane, the nodes.  No Secret and no ReferenceGrant.
GatewaySnapshot(k) ==
    LET rs == RoutesFor([routes |-> routes], k) IN
    [gateways |-> Only(gateways, {k}), classes |-> ClassOf(gateways, {k}),
     routes |-> Only(routes, rs),
     services |-> Only(services, BackendServices(rs) \cup {<<k[1], DpName(k)>>}),
     secrets |-> Only(secrets, {}), grants |-> {}, nodes |-> Nodes]

\* For an HTTPRoute: its parents with their classes and Services, its backends, the
\* grants that stand in its namespace or speak of it.
RouteSnapshot(r) ==
    LET ks == {ParentKey(r, p) : p \in {q \in UNION {ToSet(spec.parents) : spec \in routes[r]} :
                                            q.kind = "Gateway"}}
    IN [gateways |-> Only(gateways, ks), classes |-> ClassOf(gateways, ks),
        routes |-> Only(routes, {r}),
        services |-> Only(services, BackendServices({r})
                                        \cup {<<k[1], DpName(k)>> : k \in ks}),
        secrets |-> Only(secrets, {}),
        grants |-> {g \in grants : g.ns = r[1] \/ \E f \in g.from : f.ns = r[1]},
        nodes |-> <<>>]

\* The whole cluster, as the tests of reconcile.rs build their snapshots.
Whole ==
    [gateways |-> gateways, classes |-> DOMAIN ClassStatus, routes |-> routes,
     services |-> services, secrets |-> secrets, grants |-> grants, nodes |-> Nodes]

-----------------------------------------------------------------------------
(* Validation.                                                             *)

\* Bug: every grant in the namespace must have both.
GrantedByAll(s, fromKind, fromNs, toKind, toNs) ==
    /\ \E g \in s.grants : g.ns = toNs
    /\ \A g \in s.grants :
           g.ns = toNs => [kind |-> fromKind, ns |-> fromNs] \in g.from /\ toKind \in g.to

\* is_reference_allowed: some grant in the namespace has both.
Granted(s, fromKind, fromNs, toKind, toNs) ==
    \E g \in s.grants :
        /\ g.ns = toNs
        /\ [kind |-> fromKind, ns |-> fromNs] \in g.from
        /\ toKind \in g.to

Accepting(s, name) == name \in s.classes \cap DOMAIN ClassStatus /\ ClassStatus[name] = "accepted"

ListenerReason(l) ==
    IF l.protocol \notin {"HTTP", "HTTPS"} THEN "UnsupportedProtocol"
    ELSE IF (l.tls = {}) # (l.protocol = "HTTP") THEN "InvalidTLS"
    ELSE IF l.port \notin 1 .. 65535 THEN "InvalidPort"
    ELSE "Accepted"

ListenersValid(gw) == \A i \in DOMAIN gw.listeners : ListenerReason(gw.listeners[i]) = "Accepted"

\* A selector stands for every namespace, unless it is empty.
Admits(l, gatewayNs, ns) ==
    \/ l.from = "All"
    \/ l.from \in {"default", "Same"} /\ ns = gatewayNs
    \/ l.from = "Selector" /\ IF l.selector = {} THEN ns = gatewayNs ELSE The(l.selector) # {}

MatchingListeners(gw, p) ==
    {l \in ToSet(gw.listeners) :
        /\ p.section # {} => l.name = The(p.section)
        /\ p.port # {} => l.port = The(p.port)
        /\ l.protocol \in {"HTTP", "HTTPS"}}

BackendReason(s, r, b) ==
    IF b.kind # "Service" THEN "InvalidBackendRef"
    ELSE IF s.services[BackendKey(r, b)] = {} THEN "BackendNotFound"
    ELSE IF BackendKey(r, b)[1] # r[1]
            /\ ~Granted(s, "HTTPRoute", r[1], "Service", BackendKey(r, b)[1])
         THEN "RefNotPermitted"
    ELSE "Accepted"

Permitted(s, gw, k, r, p) ==
    \/ \E l \in MatchingListeners(gw, p) : Admits(l, k[1], r[1])
    \/ r[1] = k[1]
    \/ Granted(s, "HTTPRoute", r[1], "Gateway", k[1])

Refused(reason) == [accepted |-> FALSE, reason |-> reason, attached |-> {}]

FirstRefusal(s, r, backends) ==
    LET first == SelectInSeq(backends, LAMBDA b : BackendReason(s, r, b) # "Accepted")
    IN BackendReason(s, r, backends[first])

\* validate_parent_ref, with the first reason that it finds.
Verdict(s, r, spec, p) ==
    LET k == ParentKey(r, p)
        gw == The(s.gateways[k])
    IN IF p.kind # "Gateway" THEN Refused("InvalidParentRef")
       ELSE IF s.gateways[k] = {} THEN Refused("NoMatchingParent")
       ELSE IF ~Accepting(s, gw.class) THEN Refused("NotAllowedByGateway")
       ELSE IF MatchingListeners(gw, p) = {} THEN Refused("NoMatchingListenerHostname")
       ELSE IF ~Permitted(s, gw, k, r, p) THEN Refused("RefNotPermitted")
       ELSE IF \E b \in ToSet(spec.backends) : BackendReason(s, r, b) # "Accepted"
            THEN Refused(FirstRefusal(s, r, spec.backends))
       ELSE [accepted |-> TRUE, reason |-> "Accepted",
             attached |-> {l.name : l \in MatchingListeners(gw, p)}]

-----------------------------------------------------------------------------
(* The configuration of a Gateway.                                         *)

\* What there is of a certificate reference in the snapshot: the Secret must be
\* permitted and have both parts.
Certificates(k, l) ==
    LET refs == The(l.tls).refs
    IN [i \in DOMAIN refs |-> <<Default(refs[i].ns, k[1]), refs[i].name>>]
Pem(s, k, secret) ==
    {content \in s.secrets[secret] :
        /\ secret[1] = k[1] \/ Granted(s, "Gateway", k[1], "Secret", secret[1])
        /\ content # "half"}

\* The certificates that are found, in the order of the references.
Among(certificates, found) ==
    LET kept[n \in 0 .. Len(certificates)] ==
            IF n = 0 THEN <<>>
            ELSE IF certificates[n] \in found THEN Append(kept[n - 1], certificates[n])
            ELSE kept[n - 1]
    IN kept[Len(certificates)]
Found(s, k, l) == {secret \in ToSet(Certificates(k, l)) : Pem(s, k, secret) # {}}

\* Bug: an unresolved certificate is passed over.
ListenerTlsPassesOver(s, k, l) ==
    [mode |-> The(l.tls).mode, hostname |-> l.hostname, certificates |-> Certificates(k, l),
     inline |-> Among(Certificates(k, l), Found(s, k, l)), resolved |-> TRUE]

\* resolve_listener_tls of a listener with TLS; the certificates that are resolved
\* are in the configuration, each with the listener's hostname.
ListenerTls(s, k, l) ==
    [mode |-> The(l.tls).mode, hostname |-> l.hostname, certificates |-> Certificates(k, l),
     inline |-> Among(Certificates(k, l), Found(s, k, l)),
     resolved |-> ToSet(Certificates(k, l)) \subseteq Found(s, k, l)]
Resolved(s, k, l) == l.tls = {} \/ ListenerTls(s, k, l).resolved

\* The cast to u16.
PublishedPort(port) == port % 65536

PublishedListener(s, k, l) ==
    [name |-> l.name, port |-> PublishedPort(l.port), hostname |-> l.hostname,
     protocol |-> IF l.protocol = "HTTPS" THEN "HTTPS" ELSE "HTTP",
     tls |-> IF l.tls = {} THEN {} ELSE {ListenerTls(s, k, l)}]

ConvertBackend(r, b) ==
    [ns |-> BackendKey(r, b)[1], name |-> b.name,
     port |-> PublishedPort(Default(b.port, 80)), weight |-> Default(b.weight, 1),
     protocol |-> "http1"]

\* Every route that refers to the Gateway, attached to every listener.  (In the
\* ConfigMap they are in the order of their keys.)
PublishedRoute(s, gw, r) ==
    LET spec == The(s.routes[r])
    IN [key |-> r, attached |-> {l.name : l \in ToSet(gw.listeners)},
        backends |-> [i \in DOMAIN spec.backends |-> ConvertBackend(r, spec.backends[i])]]

GatewayConfig(s, k) ==
    LET gw == The(s.gateways[k])
    IN [version |-> "v1", gateway |-> k,
        listeners |-> [i \in DOMAIN gw.listeners |-> PublishedListener(s, k, gw.listeners[i])],
        routes |-> {PublishedRoute(s, gw, r) : r \in RoutesFor(s, k)}]

-----------------------------------------------------------------------------
(* The Gateway's status.                                                   *)

\* The first internal address of a node that is ready.
NodeIp(s) ==
    LET up == SelectSeq(s.nodes, LAMBDA n : n.ready /\ n.internal # <<>>)
    IN IF up = <<>> THEN {} ELSE {Head(Head(up).internal)}

Addresses(s, k, gw) ==
    LET svc == s.services[<<k[1], DpName(k)>>]
        ingress == IF svc = {} THEN <<>> ELSE The(svc).ingress
    IN IF gw.addresses # <<>> THEN gw.addresses
       ELSE IF svc = {} THEN <<>>
       ELSE IF ingress # <<>> THEN ingress
       ELSE IF NodeIp(s) # {} THEN <<The(NodeIp(s))>>
       ELSE IF The(svc).clusterIp # {} THEN <<The(The(svc).clusterIp)>>
       ELSE <<>>

InvalidStatus(reason) ==
    [accepted |-> FALSE, reason |-> reason, programmed |-> FALSE, addresses |-> <<>>,
     attached |-> 0, resolved |-> {}]

AcceptedStatus(s, k, gw) ==
    [accepted |-> TRUE, reason |-> "Accepted", addresses |-> Addresses(s, k, gw),
     programmed |-> Addresses(s, k, gw) # <<>>,
     attached |-> Cardinality(RoutesFor(s, k)),
     resolved |-> {l.name : l \in {m \in ToSet(gw.listeners) : Resolved(s, k, m)}}]

-----------------------------------------------------------------------------
(* The resources of its data plane.                                        *)

MaxPortNameLength == 15
Hyphen == 45
Hash(name) ==
    LET hash[n \in 0 .. Len(name)] ==
            IF n = 0 THEN 0 ELSE (hash[n - 1] * 31 + name[n]) % 65536
    IN hash[Len(name)]

\* Without leading zeros.
HexDigit(n) == IF n < 10 THEN 48 + n ELSE 87 + n
Hex(n) ==
    LET digits == <<n \div 4096, (n \div 256) % 16, (n \div 16) % 16, n % 16>>
        zeros == IF n < 16 THEN 3 ELSE IF n < 256 THEN 2 ELSE IF n < 4096 THEN 1 ELSE 0
    IN [i \in 1 .. 4 - zeros |-> HexDigit(digits[zeros + i])]
TrimEnd(name) ==
    LET kept == {n \in DOMAIN name : name[n] # Hyphen}
    IN SubSeq(name, 1, IF kept = {} THEN 0 ELSE CHOOSE n \in kept : \A m \in kept : m <= n)

\* Bug: the truncated name keeps the hyphen that it ends with.
SanitizePortNameUntrimmed(name) ==
    IF Len(name) <= MaxPortNameLength THEN name
    ELSE LET suffix == Hex(Hash(name))
         IN SubSeq(name, 1, MaxPortNameLength - 1 - Len(suffix)) \o <<Hyphen>> \o suffix

SanitizePortName(name) ==
    IF Len(name) <= MaxPortNameLength THEN name
    ELSE LET suffix == Hex(Hash(name))
         IN TrimEnd(SubSeq(name, 1, MaxPortNameLength - 1 - Len(suffix))) \o <<Hyphen>> \o suffix

\* Of the listeners that share a port the first gives it its name.
ExposedPorts(gw) ==
    {[port |-> gw.listeners[i].port, name |-> SanitizePortName(Bytes[gw.listeners[i].name])] :
        i \in {j \in DOMAIN gw.listeners :
                  \A h \in 1 .. j - 1 : gw.listeners[h].port # gw.listeners[j].port}}

Service(k, gw) == [ns |-> k[1], name |-> DpName(k), selector |-> SelectorLabels(k),
                   ports |-> ExposedPorts(gw)]
Deployment(k, gw) ==
    [ns |-> k[1], name |-> DpName(k), labels |-> Labels(k), account |-> DpName(k),
     ports |-> ExposedPorts(gw), gatewayName |-> k[2], gatewayNamespace |-> k[1]]
\* Bug: the Role is for the ConfigMaps of the namespace.
RoleForAll(k, gw) ==
    [ns |-> k[1], name |-> DpName(k), configMaps |-> {ConfigMapName(j) : j \in GatewayKeys}]

Role(k, gw) == [ns |-> k[1], name |-> DpName(k), configMaps |-> {ConfigMapName(k)}]
RoleBinding(k) == [ns |-> k[1], role |-> DpName(k),
                   subject |-> [ns |-> k[1], account |-> DpName(k)]]

\* reconcile_gateway: the status, and what is written.
Nothing == [status |-> {}, resources |-> {}]
ReconcileGateway(s, k) ==
    LET gw == The(s.gateways[k])
    IN IF s.gateways[k] = {} THEN Nothing
       ELSE IF ~Accepting(s, gw.class)
            THEN [Nothing EXCEPT !.status = {InvalidStatus("Invalid")}]
       ELSE IF ~ListenersValid(gw)
            THEN [Nothing EXCEPT !.status = {InvalidStatus("ListenersNotValid")}]
       ELSE [status |-> {AcceptedStatus(s, k, gw)},
             resources |-> {[config |-> GatewayConfig(s, k), role |-> Role(k, gw),
                             roleBinding |-> RoleBinding(k), service |-> Service(k, gw),
                             deployment |-> Deployment(k, gw)]}]

\* reconcile_httproute: a verdict for each parent, and the ConfigMaps that are
\* written, as the snapshot of the route has them.
ReconcileHttpRoute(s, r) ==
    LET spec == The(s.routes[r])
        verdicts == {[key |-> ParentKey(r, p), verdict |-> Verdict(s, r, spec, p)] :
                        p \in ToSet(spec.parents)}
    IN IF s.routes[r] = {} THEN [parents |-> {}, configs |-> {}]
       ELSE [parents |-> verdicts,
             configs |-> {GatewayConfig(s, v.key) :
                             v \in {w \in verdicts : w.verdict.accepted}}]

-----------------------------------------------------------------------------
(* The data plane: what a pod may read, and the TLS of its listeners.      *)

Deployed == UNION {ReconcileGateway(GatewaySnapshot(k), k).resources : k \in GatewayKeys}

\* The pod asks for the ConfigMap of its name and namespace.
Asks(pod) == [ns |-> pod.gatewayNamespace, name |-> "multiway-config-" \o pod.gatewayName]
MayRead(pod, ns, configMap) ==
    \E d, e \in Deployed :
        /\ d.roleBinding.subject = [ns |-> pod.ns, account |-> pod.account]
        /\ d.roleBinding.ns = ns /\ e.role.ns = ns
        /\ d.roleBinding.role = e.role.name
        /\ configMap \in e.role.configMaps
Selects(service, pod) ==
    /\ service.ns = pod.ns
    /\ \A label \in DOMAIN service.selector : service.selector[label] = pod.labels[label]

\* build_tls_acceptor: whether the worker speaks TLS at all, and the certificate that
\* it has for a client, by the name that the client gives.
Readable(s, tls) == \A i \in DOMAIN tls.inline : s.secrets[tls.inline[i]] = {"pair"}
Terminates(s, tls) ==
    /\ tls.mode = "Terminate" /\ tls.inline # <<>> /\ Readable(s, tls)
    /\ Len(tls.inline) > 1 => \A h \in tls.hostname : ~h.wild
Offered(s, tls, sni) ==
    IF ~Terminates(s, tls) THEN {}
    ELSE IF Len(tls.inline) = 1 THEN {Head(tls.inline)}
    ELSE IF sni # {} /\ sni = tls.hostname THEN {Last(tls.inline)}
    ELSE {}

-----------------------------------------------------------------------------
(* Users edit the cluster.                                                 *)

\* What users write has the types of the Gateway API ...
AtMostOne(specs) == {set \in SUBSET specs : \A x, y \in set : x = y}
ListenerSpec ==
    [name : STRING, port : Int, protocol : STRING,
     hostname : AtMostOne([wild : BOOLEAN, name : STRING]),
     tls : AtMostOne([mode : {"Terminate", "Passthrough"},
                      refs : Seq([ns : AtMostOne(STRING), name : STRING])]),
     from : {"default", "All", "Same", "Selector"}, selector : AtMostOne(SUBSET STRING)]
BackendSpec == [kind : STRING, ns : AtMostOne(STRING), name : STRING,
                port : AtMostOne(Int), weight : AtMostOne(Int)]
ASSUME TypesAssumption ==
    /\ GatewayKeys \subseteq STRING \X STRING
    /\ \A gw \in GatewaySpecs :
          /\ gw.listeners \in Seq(ListenerSpec)
          /\ \A l \in ToSet(gw.listeners) : Bytes[l.name] \in Seq(0 .. 255)
    /\ \A spec \in RouteSpecs : spec.backends \in Seq(BackendSpec)

\* ... the names that are made of different names differ ...
ASSUME NamesAssumption ==
    \A j, k \in GatewayKeys :
        DpName(j) = DpName(k) \/ ConfigMapName(j) = ConfigMapName(k) => j[2] = k[2]

\* ... and it refers to objects that there may be.
ASSUME KeysAssumption ==
    /\ IsFiniteSet(RouteKeys)
    /\ \A r \in RouteKeys, spec \in RouteSpecs :
          /\ \A i \in DOMAIN spec.parents : ParentKey(r, spec.parents[i]) \in GatewayKeys
          /\ \A i \in DOMAIN spec.backends : BackendKey(r, spec.backends[i]) \in ServiceKeys
    /\ \A k \in GatewayKeys :
          /\ <<k[1], DpName(k)>> \in ServiceKeys
          /\ \A gw \in GatewaySpecs : \A l \in ToSet(gw.listeners) :
                 l.tls # {} => ToSet(Certificates(k, l)) \subseteq SecretKeys

NoObject(keys) == [k \in keys |-> {}]
Objects ==
    Cardinality({k \in GatewayKeys : gateways[k] # {}})
    + Cardinality({r \in RouteKeys : routes[r] # {}})
    + Cardinality({k \in ServiceKeys : services[k] # {}})
    + Cardinality({k \in SecretKeys : secrets[k] # {}}) + Cardinality(grants)
MayCreate(present) == present # {} \/ Objects < MaxObjects

Init ==
    /\ gateways = NoObject(GatewayKeys) /\ routes = NoObject(RouteKeys)
    /\ services = NoObject(ServiceKeys) /\ secrets = NoObject(SecretKeys)
    /\ grants = {}

EditGateway(k) ==
    /\ \/ \E spec \in GatewaySpecs :
              MayCreate(gateways[k]) /\ gateways' = [gateways EXCEPT ![k] = {spec}]
       \/ gateways' = [gateways EXCEPT ![k] = {}]
    /\ UNCHANGED <<routes, services, secrets, grants>>

EditRoute(r) ==
    /\ \/ \E spec \in RouteSpecs :
              MayCreate(routes[r]) /\ routes' = [routes EXCEPT ![r] = {spec}]
       \/ routes' = [routes EXCEPT ![r] = {}]
    /\ UNCHANGED <<gateways, services, secrets, grants>>

EditService(k) ==
    /\ \/ \E service \in Services :
              MayCreate(services[k]) /\ services' = [services EXCEPT ![k] = {service}]
       \/ services' = [services EXCEPT ![k] = {}]
    /\ UNCHANGED <<gateways, routes, secrets, grants>>

EditSecret(k) ==
    /\ \/ \E content \in Contents :
              MayCreate(secrets[k]) /\ secrets' = [secrets EXCEPT ![k] = {content}]
       \/ secrets' = [secrets EXCEPT ![k] = {}]
    /\ UNCHANGED <<gateways, routes, services, grants>>

EditGrants ==
    /\ \E g \in Grants : \/ MayCreate({}) /\ grants' = grants \cup {g}
                         \/ grants' = grants \ {g}
    /\ UNCHANGED <<gateways, routes, services, secrets>>

Next ==
    \/ \E k \in GatewayKeys : EditGateway(k)
    \/ \E r \in RouteKeys : EditRoute(r)
    \/ \E k \in ServiceKeys : EditService(k)
    \/ \E k \in SecretKeys : EditSecret(k)
    \/ EditGrants

Spec == Init /\ [][Next]_vars

-----------------------------------------------------------------------------
(* Properties.                                                             *)

\* The types of the variables: at most one object for a key.
TypeOK ==
    /\ gateways \in [GatewayKeys -> AtMostOne(GatewaySpecs)]
    /\ routes \in [RouteKeys -> AtMostOne(RouteSpecs)]
    /\ services \in [ServiceKeys -> AtMostOne(Services)]
    /\ secrets \in [SecretKeys -> AtMostOne(Contents)]
    /\ grants \subseteq Grants

PublishedOfGateways ==
    UNION {{out.config : out \in ReconcileGateway(GatewaySnapshot(k), k).resources} :
               k \in GatewayKeys}
PublishedOfRoutes == UNION {ReconcileHttpRoute(RouteSnapshot(r), r).configs : r \in RouteKeys}
Published == PublishedOfGateways \cup PublishedOfRoutes

AcceptedBy(r) ==
    {v \in ReconcileHttpRoute(RouteSnapshot(r), r).parents : v.verdict.accepted}

\* A route that its own reconcile reports accepted by a Gateway is in what that
\* Gateway's reconcile publishes, at least at the listeners it was attached to, with
\* backends that exist and that it may refer to - unless the Gateway's own listeners
\* are not valid (validate.rs 276-398, snapshot.rs 125-140, reconcile.rs 681-692).
AcceptedIsPublished ==
    \A r \in RouteKeys : \A v \in AcceptedBy(r) :
        LET done == ReconcileGateway(GatewaySnapshot(v.key), v.key) IN
        /\ \E status \in done.status :
               status.reason # "Invalid" /\ (status.accepted => status.attached > 0)
        /\ \A out \in done.resources : \E route \in out.config.routes :
               /\ route.key = r /\ v.verdict.attached \subseteq route.attached
               /\ \A i \in DOMAIN route.backends :
                      LET b == route.backends[i] IN
                      /\ services[<<b.ns, b.name>>] # {}
                      /\ b.ns = r[1] \/ Granted(Whole, "HTTPRoute", r[1], "Service", b.ns)

\* The two reconciles that write a ConfigMap read different parts of the cluster and
\* agree about it: what a route's has is what the Gateway's has, except that other
\* routes are missing (reconcile.rs 1010-1024, fetcher.rs 49-179).
PublishersAgree ==
    \A r \in RouteKeys : \A config \in ReconcileHttpRoute(RouteSnapshot(r), r).configs :
        LET whole == GatewayConfig(GatewaySnapshot(config.gateway), config.gateway) IN
        config.listeners = whole.listeners /\ config.routes \subseteq whole.routes

\* Another ReferenceGrant never makes a route refused that was accepted, nor a
\* certificate unresolved, wherever it stands and whatever it names (snapshot.rs
\* 163-189).
AcceptedPairs == UNION {{<<r, v.key>> : v \in AcceptedBy(r)} : r \in RouteKeys}
ResolvedListeners ==
    UNION {{<<k, l>> : l \in {m \in UNION {ToSet(gw.listeners) : gw \in gateways[k]} :
                                 Resolved(Whole, k, m)}} : k \in GatewayKeys}
GrantsOnlyAdmit ==
    [][grants \subseteq grants' /\ UNCHANGED <<gateways, routes, services, secrets>>
       => AcceptedPairs \subseteq AcceptedPairs' /\ ResolvedListeners \subseteq ResolvedListeners']_vars

\* A listener whose references are all resolved is served with TLS, if what they
\* refer to can be read: to every client with its one certificate, and with one of
\* several to a client that names its hostname (reconcile.rs 568-651, tls.rs 112-171).
\* This is of a snapshot that has the Secrets.
Names == {{}} \cup UNION {{l.hostname : l \in ToSet(gw.listeners)} : gw \in GatewaySpecs}
ResolvedIsServed ==
    \A k \in GatewayKeys : \A gw \in gateways[k] : \A l \in ToSet(gw.listeners) :
        l.tls # {} =>
            LET tls == ListenerTls(Whole, k, l) IN
            tls.mode = "Terminate" /\ tls.resolved /\ tls.certificates # <<>> /\ Readable(Whole, tls)
            => /\ Len(tls.certificates) = 1 =>
                      \A sni \in Names : Offered(Whole, tls, sni) = ToSet(tls.certificates)
               /\ \A h \in l.hostname :
                      ~h.wild => /\ Offered(Whole, tls, l.hostname) # {}
                                 /\ Offered(Whole, tls, l.hostname) \subseteq ToSet(tls.certificates)

\* The Service and the pods of a Gateway have each of its ports once, under a name
\* that Kubernetes takes if the listener's name is of letters, digits and single
\* hyphens and begins with a letter (reconcile.rs 781-812, "a valid Kubernetes port
\* name", 815-890).
Letter(byte) == byte \in 97 .. 122
Alphanumeric(byte) == Letter(byte) \/ byte \in 48 .. 57
PlainName(name) ==
    /\ \A i \in DOMAIN name : Alphanumeric(name[i]) \/ name[i] = Hyphen
    /\ \A i \in 1 .. Len(name) - 1 : ~(name[i] = Hyphen /\ name[i + 1] = Hyphen)
    /\ Letter(name[1]) /\ Alphanumeric(name[Len(name)])
PortsExposed ==
    \A k \in GatewayKeys : \A out \in ReconcileGateway(GatewaySnapshot(k), k).resources :
        LET listeners == UNION {ToSet(gw.listeners) : gw \in gateways[k]}
            ports == out.service.ports
        IN /\ {p.port : p \in ports} = {l.port : l \in listeners}
           /\ \A p, q \in ports : p.port = q.port => p = q
           /\ out.deployment.ports = ports
           /\ (\A l \in listeners : PlainName(Bytes[l.name])) =>
                 \A p \in ports : PlainName(p.name) /\ Len(p.name) <= MaxPortNameLength

\* The configuration as the types of Schema have it: a certificate in it is written
\* with its PEM texts and the hostname of its listener.
Ref(key) == [ns |-> key[1], name |-> key[2]]
AsTyped(l) ==
    [l EXCEPT !.tls = {[mode |-> tls.mode,
                        certificates |-> [i \in DOMAIN tls.certificates |-> Ref(tls.certificates[i])],
                        inline |-> [i \in DOMAIN tls.inline |->
                                       [pem |-> tls.inline[i], hostnames |-> SetToSeq(tls.hostname)]]]
                          : tls \in @}]
ConfigArrives(config) ==
    /\ Arrives(WriteConfig, ReadConfig, config)
    /\ Arrives(WriteRef, ReadRef, Ref(config.gateway))
    /\ \A i \in DOMAIN config.listeners : ListenerArrives(AsTyped(config.listeners[i]))
    /\ \A route \in config.routes : AllArrive(WriteBackend, ReadBackend, route.backends)

\* A data plane reads the ConfigMap of its own Gateway and may read no other's, and
\* the Service of a Gateway selects the pods of that Gateway alone, though names
\* repeat in other namespaces.  What either publisher has written there, or would
\* write with the certificates resolved, it reads as it was meant (reconcile.rs
\* 736-778, controller/config.rs 493-573, dataplane main.rs 48-110, proxy-core
\* config.rs 7 "wire-compatible with the control plane's GatewayConfig JSON schema").
DataPlaneReadsItsConfig ==
    \A d \in Deployed :
        LET pod == d.deployment
            own == d.config.gateway
        IN /\ Asks(pod) = [ns |-> own[1], name |-> ConfigMapName(own)]
           /\ \A k \in GatewayKeys : MayRead(pod, k[1], ConfigMapName(k)) <=> k = own
           /\ \A e \in Deployed : Selects(d.service, e.deployment) <=> d = e
           /\ ConfigArrives(GatewayConfig(Whole, own))
           /\ \A config \in Published : config.gateway = own => ConfigArrives(config)

=============================================================================
