--------------------------- MODULE PublicationProofs ---------------------------
(***************************************************************************)
(* Proofs about Publication, for any sets of keys and of objects: the      *)
(* types, that the two publishers of a ConfigMap agree, that an accepted   *)
(* route is published, that a ReferenceGrant only ever admits, that a data *)
(* plane reads the configuration of its own Gateway and reads it as it was *)
(* meant, that a resolved listener is served with TLS, and that every port *)
(* is exposed under a name that Kubernetes takes.  The lemmas are about    *)
(* snapshots of any content; the theorems apply them to what is fetched.   *)
(***************************************************************************)
EXTENDS Publication, SchemaProofs, DataLemmas, FiniteSetTheorems, SequenceTheorems

-----------------------------------------------------------------------------
(* Types.                                                                  *)

LEMMA OneObject == ASSUME NEW Specs, NEW spec \in Specs
                   PROVE  {spec} \in AtMostOne(Specs) /\ {} \in AtMostOne(Specs)
  BY DEF AtMostOne

\* Whatever users do there is at most one object for a key, and of the kind that
\* the cluster keeps there.
THEOREM TypeCorrect == Spec => []TypeOK
<1>1. Init => TypeOK
  BY DEF Init, TypeOK, NoObject, AtMostOne
<1>2. TypeOK /\ [Next]_vars => TypeOK'
  <2> SUFFICES ASSUME TypeOK, [Next]_vars PROVE TypeOK'
    OBVIOUS
  <2>1. ASSUME NEW k \in GatewayKeys, EditGateway(k) PROVE TypeOK'
    <3>1. gateways' \in [GatewayKeys -> AtMostOne(GatewaySpecs)]
      BY <2>1, OneObject DEF EditGateway, TypeOK, AtMostOne
    <3> QED BY <2>1, <3>1 DEF EditGateway, TypeOK
  <2>2. ASSUME NEW r \in RouteKeys, EditRoute(r) PROVE TypeOK'
    <3>1. routes' \in [RouteKeys -> AtMostOne(RouteSpecs)]
      BY <2>2, OneObject DEF EditRoute, TypeOK, AtMostOne
    <3> QED BY <2>2, <3>1 DEF EditRoute, TypeOK
  <2>3. ASSUME NEW k \in ServiceKeys, EditService(k) PROVE TypeOK'
    <3>1. services' \in [ServiceKeys -> AtMostOne(Services)]
      BY <2>3, OneObject DEF EditService, TypeOK, AtMostOne
    <3> QED BY <2>3, <3>1 DEF EditService, TypeOK
  <2>4. ASSUME NEW k \in SecretKeys, EditSecret(k) PROVE TypeOK'
    <3>1. secrets' \in [SecretKeys -> AtMostOne(Contents)]
      BY <2>4, OneObject DEF EditSecret, TypeOK, AtMostOne
    <3> QED BY <2>4, <3>1 DEF EditSecret, TypeOK
  <2>5. CASE EditGrants
    BY <2>5 DEF EditGrants, TypeOK
  <2>6. CASE UNCHANGED vars
    BY <2>6 DEF vars, TypeOK
  <2> QED BY <2>1, <2>2, <2>3, <2>4, <2>5, <2>6 DEF Next
<1> QED BY <1>1, <1>2, PTL DEF Spec

-----------------------------------------------------------------------------
(* Snapshots.                                                              *)

LEMMA TheIn == ASSUME NEW option, option # {} PROVE The(option) \in option
  BY DEF The

\* What a snapshot has it has from the cluster.
LEMMA OnlyThere == ASSUME NEW objects, NEW keys, NEW k \in DOMAIN objects
                   PROVE  /\ k \in keys => Only(objects, keys)[k] = objects[k]
                          /\ Only(objects, keys)[k] # {} => k \in keys /\ Only(objects, keys)[k] = objects[k]
  BY DEF Only

\* When validate_parent_ref accepts.
LEMMA Accepts ==
    ASSUME NEW s, NEW r, NEW spec, NEW p, Verdict(s, r, spec, p).accepted
    PROVE  LET k == ParentKey(r, p)
               gw == The(s.gateways[k])
           IN /\ p.kind = "Gateway"
              /\ s.gateways[k] # {}
              /\ Accepting(s, gw.class)
              /\ MatchingListeners(gw, p) # {}
              /\ Permitted(s, gw, k, r, p)
              /\ \A b \in ToSet(spec.backends) : BackendReason(s, r, b) = "Accepted"
              /\ Verdict(s, r, spec, p).attached = {l.name : l \in MatchingListeners(gw, p)}
<1> DEFINE k == ParentKey(r, p)
           gw == The(s.gateways[k])
           attached == {l.name : l \in MatchingListeners(gw, p)}
           refused == \E b \in ToSet(spec.backends) : BackendReason(s, r, b) # "Accepted"
<1> HIDE DEF k, gw, attached, refused
<1>1. ASSUME NEW reason PROVE ~Refused(reason).accepted
  BY DEF Refused
<1>2. Verdict(s, r, spec, p) =
        IF p.kind # "Gateway" THEN Refused("InvalidParentRef")
        ELSE IF s.gateways[k] = {} THEN Refused("NoMatchingParent")
        ELSE IF ~Accepting(s, gw.class) THEN Refused("NotAllowedByGateway")
        ELSE IF MatchingListeners(gw, p) = {} THEN Refused("NoMatchingListenerHostname")
        ELSE IF ~Permitted(s, gw, k, r, p) THEN Refused("RefNotPermitted")
        ELSE IF refused THEN Refused(FirstRefusal(s, r, spec.backends))
        ELSE [accepted |-> TRUE, reason |-> "Accepted", attached |-> attached]
  BY DEF Verdict, k, gw, attached, refused
<1>3. /\ p.kind = "Gateway" /\ s.gateways[k] # {} /\ Accepting(s, gw.class)
      /\ MatchingListeners(gw, p) # {} /\ Permitted(s, gw, k, r, p) /\ ~refused
  BY <1>1, <1>2
<1>4. Verdict(s, r, spec, p).attached = attached
  BY <1>2, <1>3
<1> QED BY <1>3, <1>4 DEF k, gw, attached, refused

LEMMA AcceptsWhen ==
    ASSUME NEW s, NEW r, NEW spec, NEW p,
           p.kind = "Gateway",
           s.gateways[ParentKey(r, p)] # {},
           Accepting(s, The(s.gateways[ParentKey(r, p)]).class),
           MatchingListeners(The(s.gateways[ParentKey(r, p)]), p) # {},
           Permitted(s, The(s.gateways[ParentKey(r, p)]), ParentKey(r, p), r, p),
           \A b \in ToSet(spec.backends) : BackendReason(s, r, b) = "Accepted"
    PROVE  Verdict(s, r, spec, p).accepted
<1> DEFINE refused == \E b \in ToSet(spec.backends) : BackendReason(s, r, b) # "Accepted"
<1>1. ~refused
  OBVIOUS
<1> HIDE DEF refused
<1>2. Verdict(s, r, spec, p) =
        [accepted |-> TRUE, reason |-> "Accepted",
         attached |-> {l.name : l \in MatchingListeners(The(s.gateways[ParentKey(r, p)]), p)}]
  BY <1>1 DEF Verdict, refused
<1> QED BY <1>2

-----------------------------------------------------------------------------
(* Reconciling a route: an accepted parent is a Gateway that was fetched.  *)

LEMMA AcceptedParent ==
    ASSUME NEW s, NEW r, s.routes[r] # {},
           NEW v \in ReconcileHttpRoute(s, r).parents, v.verdict.accepted
    PROVE  \E p \in ToSet(The(s.routes[r]).parents) :
              v.key = ParentKey(r, p) /\ v.verdict = Verdict(s, r, The(s.routes[r]), p)
  BY DEF ReconcileHttpRoute

LEMMA NoRouteNoParents ==
    ASSUME NEW s, NEW r, s.routes[r] = {}
    PROVE  ReconcileHttpRoute(s, r).parents = {} /\ ReconcileHttpRoute(s, r).configs = {}
  BY DEF ReconcileHttpRoute

\* The ConfigMaps that are written are those of the accepted parents.
LEMMA ConfigsOfParents ==
    ASSUME NEW s, NEW r, NEW config \in ReconcileHttpRoute(s, r).configs
    PROVE  \E v \in ReconcileHttpRoute(s, r).parents :
              v.verdict.accepted /\ config = GatewayConfig(s, v.key)
  BY DEF ReconcileHttpRoute

\* The fetched part of a route is the cluster's.
LEMMA RouteFetched ==
    ASSUME TypeOK, NEW r \in RouteKeys, RouteSnapshot(r).routes[r] # {}
    PROVE  /\ routes[r] # {}
           /\ RouteSnapshot(r).routes[r] = routes[r]
           /\ The(routes[r]) \in routes[r]
           /\ The(routes[r]) \in RouteSpecs
<1>1. RouteSnapshot(r).routes = Only(routes, {r}) /\ r \in DOMAIN routes
  BY DEF RouteSnapshot, TypeOK
<1>2. RouteSnapshot(r).routes[r] = routes[r]
  BY <1>1, OnlyThere
<1>3. routes[r] \subseteq RouteSpecs
  BY DEF TypeOK, AtMostOne
<1> QED BY <1>2, <1>3, TheIn

\* So is an accepted parent, which is one of the Gateways.
LEMMA ParentFetched ==
    ASSUME TypeOK, NEW r \in RouteKeys,
           NEW v \in ReconcileHttpRoute(RouteSnapshot(r), r).parents, v.verdict.accepted
    PROVE  /\ \E p \in ToSet(The(routes[r]).parents) :
                  /\ v.key = ParentKey(r, p)
                  /\ v.verdict = Verdict(RouteSnapshot(r), r, The(routes[r]), p)
           /\ v.key \in GatewayKeys
           /\ gateways[v.key] # {}
           /\ RouteSnapshot(r).gateways[v.key] = gateways[v.key]
           /\ RouteSnapshot(r).routes[r] = routes[r]
           /\ The(routes[r]) \in routes[r]
           /\ The(routes[r]) \in RouteSpecs
           /\ r \in RoutesFor([routes |-> routes], v.key)
<1> DEFINE s == RouteSnapshot(r)
           spec == The(routes[r])
           ks == {ParentKey(r, p) : p \in {q \in UNION {ToSet(other.parents) : other \in routes[r]} :
                                               q.kind = "Gateway"}}
<1>1. s.gateways = Only(gateways, ks) /\ DOMAIN gateways = GatewayKeys
  BY DEF RouteSnapshot, TypeOK
<1>2. s.routes[r] # {}
  BY NoRouteNoParents
<1>3. s.routes[r] = routes[r] /\ spec \in routes[r] /\ spec \in RouteSpecs
  BY <1>2, RouteFetched
<1>4. PICK p \in ToSet(spec.parents) : v.key = ParentKey(r, p) /\ v.verdict = Verdict(s, r, spec, p)
  BY <1>2, <1>3, AcceptedParent
<1>5. PICK i \in DOMAIN spec.parents : p = spec.parents[i]
  BY <1>4 DEF ToSet
<1>6. v.key \in GatewayKeys
  BY <1>3, <1>4, <1>5, KeysAssumption
<1>7. s.gateways[v.key] # {}
  BY <1>4, Accepts
<1>8. s.gateways[v.key] = gateways[v.key]
  BY <1>1, <1>6, <1>7, OnlyThere
<1>9. r \in RoutesFor([routes |-> routes], v.key)
  BY <1>3, <1>4, <1>5 DEF RoutesFor, Refers
<1> QED BY <1>3, <1>4, <1>6, <1>7, <1>8, <1>9

\* The routes and the Gateway itself in the snapshot of a Gateway's reconcile.
LEMMA GatewayFetched ==
    ASSUME TypeOK, NEW k \in GatewayKeys
    PROVE  /\ GatewaySnapshot(k).gateways[k] = gateways[k]
           /\ RoutesFor(GatewaySnapshot(k), k) = RoutesFor([routes |-> routes], k)
           /\ \A r \in RoutesFor([routes |-> routes], k) : GatewaySnapshot(k).routes[r] = routes[r]
<1> DEFINE rs == RoutesFor([routes |-> routes], k)
           t == GatewaySnapshot(k)
<1>1. t.gateways = Only(gateways, {k}) /\ t.routes = Only(routes, rs)
  BY DEF GatewaySnapshot
<1>2. k \in DOMAIN gateways /\ DOMAIN routes = RouteKeys
  BY DEF TypeOK
<1>3. t.gateways[k] = gateways[k]
  BY <1>1, <1>2, OnlyThere
<1>4. rs \subseteq RouteKeys
  BY DEF RoutesFor
<1>5. \A r \in rs : t.routes[r] = routes[r]
  BY <1>1, <1>2, <1>4, OnlyThere
<1>6. \A r \in RouteKeys : t.routes[r] # {} => r \in rs /\ t.routes[r] = routes[r]
  BY <1>1, <1>2, OnlyThere
<1>7. RoutesFor(t, k) = rs
  BY <1>5, <1>6 DEF RoutesFor
<1> QED BY <1>3, <1>5, <1>7

-----------------------------------------------------------------------------
(* The two publishers of a ConfigMap.                                      *)

\* Without the Secrets no certificate is found.
LEMMA NoSecretNotFound ==
    ASSUME TypeOK, NEW s, s.secrets = Only(secrets, {}),
           NEW k \in GatewayKeys, NEW gw \in GatewaySpecs,
           NEW l \in ToSet(gw.listeners), l.tls # {}
    PROVE  Found(s, k, l) = {}
<1> SUFFICES ASSUME NEW secret \in ToSet(Certificates(k, l)) PROVE Pem(s, k, secret) = {}
  BY DEF Found
<1>1. secret \in SecretKeys
  BY KeysAssumption
<1>2. s.secrets[secret] = {}
  BY <1>1 DEF Only, TypeOK
<1> QED BY <1>2 DEF Pem

LEMMA SameListener ==
    ASSUME NEW s, NEW t, NEW k, NEW l,
           l.tls # {} => Found(s, k, l) = Found(t, k, l)
    PROVE  PublishedListener(s, k, l) = PublishedListener(t, k, l)
<1>1. CASE l.tls = {}
  BY <1>1 DEF PublishedListener
<1>2. CASE l.tls # {}
  <2>1. ListenerTls(s, k, l) = ListenerTls(t, k, l)
    BY <1>2 DEF ListenerTls
  <2> QED BY <2>1 DEF PublishedListener
<1> QED BY <1>1, <1>2

\* The invariant of the runs: a ConfigMap written for a route has the listeners of
\* the one written for its Gateway and no route that that one has not, whatever else
\* the two snapshots have (reconcile.rs 1010-1024, fetcher.rs 49-179).
THEOREM PublicationsAgree == Spec => []PublishersAgree
<1>1. TypeOK => PublishersAgree
  <2> SUFFICES ASSUME TypeOK, NEW r \in RouteKeys,
                      NEW config \in ReconcileHttpRoute(RouteSnapshot(r), r).configs
               PROVE  LET whole == GatewayConfig(GatewaySnapshot(config.gateway), config.gateway) IN
                      config.listeners = whole.listeners /\ config.routes \subseteq whole.routes
    BY DEF PublishersAgree
  <2> DEFINE s == RouteSnapshot(r)
  <2>1. PICK v \in ReconcileHttpRoute(s, r).parents :
            v.verdict.accepted /\ config = GatewayConfig(s, v.key)
    BY ConfigsOfParents
  <2> DEFINE k == v.key
             t == GatewaySnapshot(k)
             gw == The(gateways[k])
  <2>2. /\ k \in GatewayKeys
        /\ gateways[k] # {}
        /\ s.gateways[k] = gateways[k]
        /\ s.routes[r] = routes[r]
        /\ r \in RoutesFor([routes |-> routes], k)
    BY <2>1, ParentFetched
  <2>3. /\ t.gateways[k] = gateways[k]
        /\ RoutesFor(t, k) = RoutesFor([routes |-> routes], k)
        /\ t.routes[r] = routes[r]
    BY <2>2, GatewayFetched
  <2>4. gw \in GatewaySpecs
    BY <2>2, TheIn DEF TypeOK, AtMostOne
  <2>5. s.secrets = Only(secrets, {}) /\ t.secrets = Only(secrets, {})
    BY DEF RouteSnapshot, GatewaySnapshot
  <2>6. RoutesFor(s, k) \subseteq {r}
    <3>1. \A q \in RouteKeys : s.routes[q] # {} => q = r
      BY OnlyThere DEF RouteSnapshot, TypeOK
    <3> QED BY <3>1 DEF RoutesFor
  <2> HIDE DEF s, t, k, gw
  <2>7. config.gateway = k
    BY <2>1 DEF GatewayConfig, k
  <2>8. /\ config.listeners = [i \in DOMAIN gw.listeners |-> PublishedListener(s, k, gw.listeners[i])]
        /\ config.routes = {PublishedRoute(s, gw, q) : q \in RoutesFor(s, k)}
    BY <2>1, <2>2 DEF GatewayConfig, k, gw
  <2>9. /\ GatewayConfig(t, k).listeners =
             [i \in DOMAIN gw.listeners |-> PublishedListener(t, k, gw.listeners[i])]
        /\ GatewayConfig(t, k).routes = {PublishedRoute(t, gw, q) : q \in RoutesFor(t, k)}
    BY <2>3 DEF GatewayConfig, gw
  <2>10. \A i \in DOMAIN gw.listeners :
            PublishedListener(s, k, gw.listeners[i]) = PublishedListener(t, k, gw.listeners[i])
    <3> SUFFICES ASSUME NEW i \in DOMAIN gw.listeners
                 PROVE  PublishedListener(s, k, gw.listeners[i]) = PublishedListener(t, k, gw.listeners[i])
      OBVIOUS
    <3> DEFINE l == gw.listeners[i]
    <3>1. l \in ToSet(gw.listeners)
      BY DEF ToSet
    <3>2. l.tls # {} => Found(s, k, l) = {} /\ Found(t, k, l) = {}
      BY <2>2, <2>4, <2>5, <3>1, NoSecretNotFound
    <3> QED BY <3>2, SameListener
  <2>11. PublishedRoute(s, gw, r) = PublishedRoute(t, gw, r)
    BY <2>2, <2>3 DEF PublishedRoute
  <2>12. config.listeners = GatewayConfig(t, k).listeners
    BY <2>8, <2>9, <2>10
  <2>13. config.routes \subseteq GatewayConfig(t, k).routes
    BY <2>2, <2>3, <2>6, <2>8, <2>9, <2>11
  <2> QED BY <2>7, <2>12, <2>13 DEF t
<1> QED BY <1>1, TypeCorrect, PTL

-----------------------------------------------------------------------------
(* More grants.                                                            *)

\* A snapshot that differs in its grants, and has more of them.
MoreGrants(s, t) ==
    /\ t.gateways = s.gateways /\ t.classes = s.classes /\ t.routes = s.routes
    /\ t.services = s.services /\ t.secrets = s.secrets
    /\ s.grants \subseteq t.grants

LEMMA GrantedMonotone ==
    ASSUME NEW s, NEW t, MoreGrants(s, t),
           NEW fromKind, NEW fromNs, NEW toKind, NEW toNs,
           Granted(s, fromKind, fromNs, toKind, toNs)
    PROVE  Granted(t, fromKind, fromNs, toKind, toNs)
  BY DEF MoreGrants, Granted

LEMMA BackendMonotone ==
    ASSUME NEW s, NEW t, MoreGrants(s, t), NEW r, NEW b, BackendReason(s, r, b) = "Accepted"
    PROVE  BackendReason(t, r, b) = "Accepted"
<1>1. /\ b.kind = "Service"
      /\ s.services[BackendKey(r, b)] # {}
      /\ BackendKey(r, b)[1] = r[1] \/ Granted(s, "HTTPRoute", r[1], "Service", BackendKey(r, b)[1])
  BY DEF BackendReason
<1>2. t.services[BackendKey(r, b)] # {}
  BY <1>1 DEF MoreGrants
<1>3. BackendKey(r, b)[1] = r[1] \/ Granted(t, "HTTPRoute", r[1], "Service", BackendKey(r, b)[1])
  BY <1>1, GrantedMonotone
<1> QED BY <1>1, <1>2, <1>3 DEF BackendReason

LEMMA VerdictMonotone ==
    ASSUME NEW s, NEW t, MoreGrants(s, t), NEW r, NEW spec, NEW p,
           Verdict(s, r, spec, p).accepted
    PROVE  Verdict(t, r, spec, p).accepted
<1> DEFINE k == ParentKey(r, p)
           gw == The(s.gateways[k])
<1>1. /\ p.kind = "Gateway" /\ s.gateways[k] # {} /\ Accepting(s, gw.class)
      /\ MatchingListeners(gw, p) # {} /\ Permitted(s, gw, k, r, p)
      /\ \A b \in ToSet(spec.backends) : BackendReason(s, r, b) = "Accepted"
  BY Accepts
<1>2. t.gateways[k] = s.gateways[k] /\ Accepting(t, gw.class)
  BY <1>1 DEF MoreGrants, Accepting
<1>3. Permitted(t, gw, k, r, p)
  BY <1>1, GrantedMonotone DEF Permitted
<1>4. \A b \in ToSet(spec.backends) : BackendReason(t, r, b) = "Accepted"
  BY <1>1, BackendMonotone
<1> QED BY <1>1, <1>2, <1>3, <1>4, AcceptsWhen

LEMMA AcceptedMonotone ==
    ASSUME NEW s, NEW t, MoreGrants(s, t), NEW r,
           NEW v \in ReconcileHttpRoute(s, r).parents, v.verdict.accepted
    PROVE  \E w \in ReconcileHttpRoute(t, r).parents : w.key = v.key /\ w.verdict.accepted
<1> DEFINE spec == The(s.routes[r])
<1>1. s.routes[r] # {} /\ t.routes[r] = s.routes[r]
  BY NoRouteNoParents DEF MoreGrants
<1>2. PICK p \in ToSet(spec.parents) : v.key = ParentKey(r, p) /\ v.verdict = Verdict(s, r, spec, p)
  BY <1>1, AcceptedParent
<1>3. Verdict(t, r, spec, p).accepted
  BY <1>2, VerdictMonotone
<1>4. [key |-> ParentKey(r, p), verdict |-> Verdict(t, r, spec, p)] \in ReconcileHttpRoute(t, r).parents
  BY <1>1, <1>2 DEF ReconcileHttpRoute
<1> QED BY <1>2, <1>3, <1>4

LEMMA ResolvedMonotone ==
    ASSUME NEW s, NEW t, MoreGrants(s, t), NEW k, NEW l, Resolved(s, k, l)
    PROVE  Resolved(t, k, l)
<1> SUFFICES ASSUME l.tls # {} PROVE ListenerTls(t, k, l).resolved
  BY DEF Resolved
<1>1. ToSet(Certificates(k, l)) \subseteq Found(s, k, l)
  BY DEF Resolved, ListenerTls
<1>2. ASSUME NEW secret PROVE Pem(s, k, secret) \subseteq Pem(t, k, secret)
  BY GrantedMonotone DEF Pem, MoreGrants
<1>3. Found(s, k, l) \subseteq Found(t, k, l)
  BY <1>2 DEF Found
<1> QED BY <1>1, <1>3 DEF ListenerTls

\* The action property of the runs: no ReferenceGrant takes away what another, or
\* the namespace, allows (snapshot.rs 163-189).
THEOREM GrantsAdmit == Spec => GrantsOnlyAdmit
<1> DEFINE Added == grants \subseteq grants' /\ UNCHANGED <<gateways, routes, services, secrets>>
<1>1. ASSUME Added PROVE AcceptedPairs \subseteq AcceptedPairs'
  <2>1. ASSUME NEW r \in RouteKeys PROVE MoreGrants(RouteSnapshot(r), RouteSnapshot(r)')
    BY <1>1 DEF RouteSnapshot, MoreGrants, BackendServices
  <2>2. ASSUME NEW r \in RouteKeys, NEW v \in AcceptedBy(r)
        PROVE  \E w \in AcceptedBy(r)' : w.key = v.key
    BY <2>1, <2>2, AcceptedMonotone DEF AcceptedBy
  <2> QED BY <2>2 DEF AcceptedPairs
<1>2. ASSUME Added PROVE ResolvedListeners \subseteq ResolvedListeners'
  <2>1. MoreGrants(Whole, Whole')
    BY <1>2 DEF Whole, MoreGrants
  <2>2. \A k, l : Resolved(Whole, k, l) => Resolved(Whole', k, l)
    BY <2>1, ResolvedMonotone
  <2> QED BY <1>2, <2>2 DEF ResolvedListeners
<1> QED BY <1>1, <1>2, PTL DEF GrantsOnlyAdmit

-----------------------------------------------------------------------------
(* What is accepted is published.                                          *)

\* A backend that a route's reconcile accepts is there in the cluster, and the
\* cluster has the grant.
LEMMA BackendThere ==
    ASSUME TypeOK, NEW r \in RouteKeys, NEW b, BackendKey(r, b) \in ServiceKeys,
           BackendReason(RouteSnapshot(r), r, b) = "Accepted"
    PROVE  /\ services[BackendKey(r, b)] # {}
           /\ BackendKey(r, b)[1] = r[1]
              \/ Granted(Whole, "HTTPRoute", r[1], "Service", BackendKey(r, b)[1])
<1> DEFINE s == RouteSnapshot(r)
           ns == BackendKey(r, b)[1]
<1>1. /\ s.services[BackendKey(r, b)] # {}
      /\ ns = r[1] \/ Granted(s, "HTTPRoute", r[1], "Service", ns)
  BY DEF BackendReason
<1>2. s.services[BackendKey(r, b)] = services[BackendKey(r, b)]
  <2>1. BackendKey(r, b) \in DOMAIN services
    BY DEF TypeOK
  <2>2. \E keys : s.services = Only(services, keys)
    BY DEF RouteSnapshot
  <2> QED BY <1>1, <2>1, <2>2, OnlyThere
<1>3. s.grants \subseteq Whole.grants
  BY DEF RouteSnapshot, Whole
<1>4. Granted(s, "HTTPRoute", r[1], "Service", ns) => Granted(Whole, "HTTPRoute", r[1], "Service", ns)
  BY <1>3 DEF Granted
<1> QED BY <1>1, <1>2, <1>4

\* What a reconcile of a Gateway gives, by the class that it finds.
LEMMA GatewayReconciled ==
    ASSUME NEW t, NEW k, t.gateways[k] # {}, Accepting(t, The(t.gateways[k]).class)
    PROVE  LET done == ReconcileGateway(t, k) IN
           /\ \/ done.status = {InvalidStatus("ListenersNotValid")} /\ done.resources = {}
              \/ done.status = {AcceptedStatus(t, k, The(t.gateways[k]))}
           /\ \A out \in done.resources : out.config = GatewayConfig(t, k)
  BY DEF ReconcileGateway, Nothing

\* The invariant of the runs: what the reconcile of a route promises to a parent,
\* the reconcile of that parent keeps (validate.rs 276-398, reconcile.rs 681-692).
THEOREM AcceptancePublished == Spec => []AcceptedIsPublished
<1>1. TypeOK => AcceptedIsPublished
  <2> SUFFICES ASSUME TypeOK, NEW r \in RouteKeys, NEW v \in AcceptedBy(r)
               PROVE  LET done == ReconcileGateway(GatewaySnapshot(v.key), v.key) IN
                      /\ \E status \in done.status :
                             status.reason # "Invalid" /\ (status.accepted => status.attached > 0)
                      /\ \A out \in done.resources : \E route \in out.config.routes :
                             /\ route.key = r /\ v.verdict.attached \subseteq route.attached
                             /\ \A i \in DOMAIN route.backends :
                                    LET b == route.backends[i] IN
                                    /\ services[<<b.ns, b.name>>] # {}
                                    /\ b.ns = r[1]
                                       \/ Granted(Whole, "HTTPRoute", r[1], "Service", b.ns)
    BY DEF AcceptedIsPublished
  <2> DEFINE s == RouteSnapshot(r)
             k == v.key
             t == GatewaySnapshot(k)
             gw == The(gateways[k])
             spec == The(routes[r])
             done == ReconcileGateway(t, k)
             route == PublishedRoute(t, gw, r)
  <2>1. v \in ReconcileHttpRoute(s, r).parents /\ v.verdict.accepted
    BY DEF AcceptedBy
  <2>2. /\ k \in GatewayKeys
        /\ gateways[k] # {}
        /\ s.gateways[k] = gateways[k]
        /\ spec \in routes[r] /\ spec \in RouteSpecs
        /\ r \in RoutesFor([routes |-> routes], k)
        /\ \E p \in ToSet(spec.parents) : k = ParentKey(r, p) /\ v.verdict = Verdict(s, r, spec, p)
    BY <2>1, ParentFetched
  <2>3. /\ t.gateways[k] = gateways[k]
        /\ r \in RoutesFor(t, k)
        /\ t.routes[r] = routes[r]
    BY <2>2, GatewayFetched
  <2>4. PICK p \in ToSet(spec.parents) : k = ParentKey(r, p) /\ v.verdict = Verdict(s, r, spec, p)
    BY <2>2
  <2>5. /\ Accepting(s, gw.class)
        /\ \A b \in ToSet(spec.backends) : BackendReason(s, r, b) = "Accepted"
        /\ v.verdict.attached = {l.name : l \in MatchingListeners(gw, p)}
    BY <2>1, <2>2, <2>4, Accepts
  <2>6. Accepting(t, gw.class)
    <3>1. t.classes = ClassOf(gateways, {k})
      BY DEF GatewaySnapshot
    <3>2. gw \in gateways[k]
      BY <2>2, TheIn
    <3>3. gw.class \in t.classes
      BY <3>1, <3>2 DEF ClassOf
    <3> QED BY <2>5, <3>3 DEF Accepting
  <2>7. \E status \in done.status :
            status.reason # "Invalid" /\ (status.accepted => status.attached > 0)
    <3>1. CASE done.status = {InvalidStatus("ListenersNotValid")}
      BY <3>1 DEF InvalidStatus
    <3>2. CASE done.status = {AcceptedStatus(t, k, gw)}
      <4>1. IsFiniteSet(RoutesFor(t, k))
        BY KeysAssumption, FS_Subset DEF RoutesFor
      <4>2. Cardinality(RoutesFor(t, k)) \in Nat /\ Cardinality(RoutesFor(t, k)) # 0
        BY <2>3, <4>1, FS_CardinalityType, FS_EmptySet
      <4>3. /\ AcceptedStatus(t, k, gw).reason = "Accepted"
            /\ AcceptedStatus(t, k, gw).attached = Cardinality(RoutesFor(t, k))
        BY DEF AcceptedStatus
      <4>4. AcceptedStatus(t, k, gw).attached > 0
        BY <4>2, <4>3
      <4> QED BY <3>2, <4>3, <4>4
    <3> QED BY <2>2, <2>3, <2>6, <3>1, <3>2, GatewayReconciled
  <2>8. ASSUME NEW out \in done.resources PROVE route \in out.config.routes
    <3>1. out.config = GatewayConfig(t, k)
      BY <2>2, <2>3, <2>6, GatewayReconciled
    <3> QED BY <2>3, <3>1 DEF GatewayConfig
  <2>9. route.key = r /\ v.verdict.attached \subseteq route.attached
    BY <2>5 DEF PublishedRoute, MatchingListeners
  <2>10. ASSUME NEW i \in DOMAIN route.backends
         PROVE  LET b == route.backends[i] IN
                /\ services[<<b.ns, b.name>>] # {}
                /\ b.ns = r[1] \/ Granted(Whole, "HTTPRoute", r[1], "Service", b.ns)
    <3> DEFINE b == spec.backends[i]
    <3>1. i \in DOMAIN spec.backends /\ route.backends[i] = ConvertBackend(r, b)
      BY <2>3 DEF PublishedRoute
    <3>2. route.backends[i].ns = BackendKey(r, b)[1] /\ route.backends[i].name = b.name
      BY <3>1 DEF ConvertBackend
    <3>3. <<BackendKey(r, b)[1], b.name>> = BackendKey(r, b)
      BY DEF BackendKey
    <3>4. BackendKey(r, b) \in ServiceKeys
      BY <2>2, <3>1, KeysAssumption
    <3>5. BackendReason(s, r, b) = "Accepted"
      BY <2>5, <3>1 DEF ToSet
    <3> QED BY <3>2, <3>3, <3>4, <3>5, BackendThere
  <2> QED BY <2>7, <2>8, <2>9, <2>10
<1> QED BY <1>1, TypeCorrect, PTL

-----------------------------------------------------------------------------
(* What is written is read as it was meant.                                *)

LEMMA PortInRange == ASSUME NEW port \in Int PROVE PublishedPort(port) \in U16
<1> DEFINE cast == port % 65536
<1>1. cast \in U16
  BY SMTT(30) DEF U16
<1>2. PublishedPort(port) = cast
  BY SMTT(30) DEF PublishedPort
<1> HIDE DEF cast
<1> QED BY <1>1, <1>2

LEMMA ListenerArrivesAsPublished ==
    ASSUME NEW s, NEW k, NEW l \in ListenerSpec
    PROVE  ListenerArrives(AsTyped(PublishedListener(s, k, l)))
<1> DEFINE p == PublishedListener(s, k, l)
           port == PublishedPort(l.port)
           protocol == IF l.protocol = "HTTPS" THEN "HTTPS" ELSE "HTTP"
           Typed(tls) == [mode |-> tls.mode,
                          certificates |-> [i \in DOMAIN tls.certificates |-> Ref(tls.certificates[i])],
                          inline |-> [i \in DOMAIN tls.inline |->
                                         [pem |-> tls.inline[i], hostnames |-> SetToSeq(tls.hostname)]]]
           tlss == {Typed(tls) : tls \in p.tls}
           v == [name |-> l.name, port |-> port, hostname |-> l.hostname, protocol |-> protocol,
                 tls |-> tlss]
<1>1. port \in U16
  <2> HIDE DEF p, v, tlss
  <2>1. l.port \in Int
    BY DEF ListenerSpec
  <2> QED BY <2>1, PortInRange
<1>2. protocol \in {"HTTP", "HTTPS"}
  OBVIOUS
<1>3. AsTyped(p) = v
  <2> DEFINE tls == IF l.tls = {} THEN {} ELSE {ListenerTls(s, k, l)}
  <2>1. p = [name |-> l.name, port |-> port, hostname |-> l.hostname, protocol |-> protocol,
             tls |-> tls]
    BY DEF PublishedListener
  <2>2. AsTyped(p) = [p EXCEPT !.tls = tlss]
    BY DEF AsTyped
  <2> HIDE DEF p, port, protocol, tls, Typed, tlss
  <2> QED BY <2>1, <2>2
<1>4. Arrives(WriteListener, ReadListener, v)
  <2> HIDE DEF port, protocol, tlss
  <2> QED BY <1>1, <1>2, ListenerArrivesWhole
<1>5. ASSUME NEW t \in tlss
      PROVE  /\ Arrives(WriteTls, ReadTls, t)
             /\ AllArrive(WriteRef, ReadRef, t.certificates)
             /\ AllArrive(WriteInline, ReadInline, t.inline)
  <2>1. PICK tls \in p.tls : t = Typed(tls)
    OBVIOUS
  <2>2. l.tls # {} /\ tls = ListenerTls(s, k, l)
    BY <2>1 DEF PublishedListener
  <2>3. The(l.tls).mode \in {"Terminate", "Passthrough"}
    <3>1. The(l.tls) \in l.tls
      BY <2>2, TheIn
    <3>2. l.tls \subseteq [mode : {"Terminate", "Passthrough"},
                           refs : Seq([ns : AtMostOne(STRING), name : STRING])]
      BY DEF ListenerSpec, AtMostOne
    <3> QED BY <3>1, <3>2
  <2>4. tls.mode \in {"Terminate", "Passthrough"}
    BY <2>2, <2>3 DEF ListenerTls
  <2> DEFINE certificates == [i \in DOMAIN tls.certificates |-> Ref(tls.certificates[i])]
             inline == [i \in DOMAIN tls.inline |->
                           [pem |-> tls.inline[i], hostnames |-> SetToSeq(tls.hostname)]]
  <2>5. t = [mode |-> tls.mode, certificates |-> certificates, inline |-> inline]
    BY <2>1
  <2>6. AllArrive(WriteRef, ReadRef, certificates)
    <3> SUFFICES ASSUME NEW i \in DOMAIN tls.certificates
                 PROVE  Arrives(WriteRef, ReadRef, Ref(tls.certificates[i]))
      BY DEF AllArrive
    <3> QED BY RefArrivesWhole DEF Ref
  <2>7. AllArrive(WriteInline, ReadInline, inline)
    <3> SUFFICES ASSUME NEW i \in DOMAIN tls.inline
                 PROVE  Arrives(WriteInline, ReadInline,
                                [pem |-> tls.inline[i], hostnames |-> SetToSeq(tls.hostname)])
      BY DEF AllArrive
    <3> QED BY InlineArrivesWhole
  <2> HIDE DEF certificates, inline
  <2>8. Arrives(WriteTls, ReadTls, t)
    BY <2>4, <2>5, TlsArrivesWhole
  <2> QED BY <2>5, <2>6, <2>7, <2>8
<1>6. v.tls = tlss
  OBVIOUS
<1> HIDE DEF v, tlss, p
<1>7. ListenerArrives(v)
  BY <1>4, <1>5, <1>6 DEF ListenerArrives
<1> QED BY <1>3, <1>7 DEF p

LEMMA BackendsArrive ==
    ASSUME NEW s, NEW gw, NEW r, The(s.routes[r]) \in RouteSpecs
    PROVE  AllArrive(WriteBackend, ReadBackend, PublishedRoute(s, gw, r).backends)
<1> DEFINE spec == The(s.routes[r])
           bs == PublishedRoute(s, gw, r).backends
<1>1. spec.backends \in Seq(BackendSpec)
  BY TypesAssumption
<1>2. bs = [i \in DOMAIN spec.backends |-> ConvertBackend(r, spec.backends[i])]
  BY DEF PublishedRoute
<1> SUFFICES ASSUME NEW i \in DOMAIN spec.backends
             PROVE  Arrives(WriteBackend, ReadBackend, ConvertBackend(r, spec.backends[i]))
  BY <1>2 DEF AllArrive
<1> DEFINE b == spec.backends[i]
<1>3. b \in BackendSpec
  BY <1>1
<1> HIDE DEF b
<1>4. b.port \subseteq Int
  BY <1>3 DEF BackendSpec, AtMostOne
<1>5. Default(b.port, 80) \in Int
  BY <1>4 DEF Default
<1>6. PublishedPort(Default(b.port, 80)) \in U16
  BY <1>5, PortInRange
<1>7. ConvertBackend(r, b) = [ns |-> BackendKey(r, b)[1], name |-> b.name,
                              port |-> PublishedPort(Default(b.port, 80)),
                              weight |-> Default(b.weight, 1), protocol |-> "http1"]
  BY DEF ConvertBackend
<1>8. Arrives(WriteBackend, ReadBackend, ConvertBackend(r, b))
  BY <1>6, <1>7, BackendArrivesWhole
<1> QED BY <1>8 DEF b

\* Whatever the snapshot has, the configuration that is made of it arrives.
LEMMA WrittenIsRead ==
    ASSUME NEW s, NEW k, The(s.gateways[k]) \in GatewaySpecs,
           \A r \in RoutesFor(s, k) : s.routes[r] \subseteq RouteSpecs
    PROVE  ConfigArrives(GatewayConfig(s, k))
<1> DEFINE gw == The(s.gateways[k])
           c == GatewayConfig(s, k)
           listeners == [i \in DOMAIN gw.listeners |-> PublishedListener(s, k, gw.listeners[i])]
           published == {PublishedRoute(s, gw, r) : r \in RoutesFor(s, k)}
<1>1. c = [version |-> "v1", gateway |-> k, listeners |-> listeners, routes |-> published]
  BY DEF GatewayConfig
<1>2. Arrives(WriteConfig, ReadConfig, c)
  <2> HIDE DEF listeners, published, c
  <2> QED BY <1>1, ConfigArrivesWhole
<1>3. Arrives(WriteRef, ReadRef, Ref(c.gateway))
  BY RefArrivesWhole DEF Ref
<1>4. ASSUME NEW i \in DOMAIN gw.listeners
      PROVE  ListenerArrives(AsTyped(listeners[i]))
  <2>1. gw.listeners \in Seq(ListenerSpec)
    BY TypesAssumption
  <2>2. gw.listeners[i] \in ListenerSpec
    BY <2>1
  <2> QED BY <2>2, ListenerArrivesAsPublished
<1>5. ASSUME NEW route \in published
      PROVE  AllArrive(WriteBackend, ReadBackend, route.backends)
  <2>1. PICK r \in RoutesFor(s, k) : route = PublishedRoute(s, gw, r)
    OBVIOUS
  <2>2. s.routes[r] # {}
    BY DEF RoutesFor
  <2>3. The(s.routes[r]) \in RouteSpecs
    BY <2>2, TheIn
  <2> QED BY <2>1, <2>3, BackendsArrive
<1>6. /\ \A i \in DOMAIN c.listeners : ListenerArrives(AsTyped(c.listeners[i]))
      /\ \A route \in c.routes : AllArrive(WriteBackend, ReadBackend, route.backends)
  <2>1. DOMAIN listeners = DOMAIN gw.listeners
    OBVIOUS
  <2>2. c.listeners = listeners /\ c.routes = published
    BY <1>1
  <2> HIDE DEF c, listeners, published
  <2> QED BY <1>4, <1>5, <2>1, <2>2
<1> HIDE DEF c
<1>7. ConfigArrives(c)
  BY <1>2, <1>3, <1>6 DEF ConfigArrives
<1> QED BY <1>7 DEF c

-----------------------------------------------------------------------------
(* A data plane and what is its own.                                       *)

\* What a reconcile of the Gateway k deploys, if it deploys anything.
DeployedFor(k) ==
    LET gw == The(gateways[k]) IN
    [config |-> GatewayConfig(GatewaySnapshot(k), k), role |-> Role(k, gw),
     roleBinding |-> RoleBinding(k), service |-> Service(k, gw),
     deployment |-> Deployment(k, gw)]

LEMMA ReconcileDeploys ==
    ASSUME NEW t, NEW k, NEW out \in ReconcileGateway(t, k).resources
    PROVE  /\ t.gateways[k] # {}
           /\ LET gw == The(t.gateways[k]) IN
              out = [config |-> GatewayConfig(t, k), role |-> Role(k, gw),
                     roleBinding |-> RoleBinding(k), service |-> Service(k, gw),
                     deployment |-> Deployment(k, gw)]
  BY DEF ReconcileGateway, Nothing

LEMMA DeployedIs ==
    ASSUME TypeOK, NEW d \in Deployed
    PROVE  \E k \in GatewayKeys : gateways[k] # {} /\ d = DeployedFor(k)
<1>1. PICK k \in GatewayKeys : d \in ReconcileGateway(GatewaySnapshot(k), k).resources
  BY DEF Deployed
<1> DEFINE t == GatewaySnapshot(k)
<1>2. t.gateways[k] = gateways[k]
  BY GatewayFetched
<1> HIDE DEF t
<1>3. /\ t.gateways[k] # {}
      /\ LET gw == The(t.gateways[k]) IN
         d = [config |-> GatewayConfig(t, k), role |-> Role(k, gw),
              roleBinding |-> RoleBinding(k), service |-> Service(k, gw),
              deployment |-> Deployment(k, gw)]
  BY <1>1, ReconcileDeploys DEF t
<1> QED BY <1>2, <1>3 DEF DeployedFor, t

\* Its parts carry the Gateway's name and namespace.
LEMMA PartsOf ==
    ASSUME NEW k
    PROVE  LET d == DeployedFor(k) IN
           /\ d.config.gateway = k
           /\ d.role.ns = k[1] /\ d.role.name = DpName(k)
           /\ d.role.configMaps = {ConfigMapName(k)}
           /\ d.roleBinding.ns = k[1] /\ d.roleBinding.role = DpName(k)
           /\ d.roleBinding.subject = [ns |-> k[1], account |-> DpName(k)]
           /\ d.service.ns = k[1] /\ d.service.selector = SelectorLabels(k)
           /\ d.deployment.ns = k[1] /\ d.deployment.account = DpName(k)
           /\ d.deployment.labels = Labels(k)
           /\ d.deployment.gatewayName = k[2] /\ d.deployment.gatewayNamespace = k[1]
  BY DEF DeployedFor, GatewayConfig, Role, RoleBinding, Service, Deployment

LEMMA SameKey ==
    ASSUME NEW j \in GatewayKeys, NEW k \in GatewayKeys, j[1] = k[1], j[2] = k[2]
    PROVE  j = k
  BY TypesAssumption

\* A pod may read the ConfigMap of its Gateway and no other Gateway's.
LEMMA ReadsOwn ==
    ASSUME TypeOK, NEW own \in GatewayKeys, DeployedFor(own) \in Deployed,
           NEW k \in GatewayKeys
    PROVE  MayRead(DeployedFor(own).deployment, k[1], ConfigMapName(k)) <=> k = own
<1> DEFINE pod == DeployedFor(own).deployment
<1>1. pod.ns = own[1] /\ pod.account = DpName(own)
  BY PartsOf
<1>2. ASSUME MayRead(pod, k[1], ConfigMapName(k)) PROVE k = own
  <2>1. PICK d \in Deployed, e \in Deployed :
          /\ d.roleBinding.subject = [ns |-> pod.ns, account |-> pod.account]
          /\ d.roleBinding.ns = k[1] /\ e.role.ns = k[1]
          /\ d.roleBinding.role = e.role.name
          /\ ConfigMapName(k) \in e.role.configMaps
    BY <1>2 DEF MayRead
  <2>2. PICK i \in GatewayKeys : d = DeployedFor(i)
    BY DeployedIs
  <2>3. PICK j \in GatewayKeys : e = DeployedFor(j)
    BY DeployedIs
  <2>4. /\ d.roleBinding.subject = [ns |-> i[1], account |-> DpName(i)]
        /\ d.roleBinding.ns = i[1] /\ d.roleBinding.role = DpName(i)
    BY <2>2, PartsOf
  <2>5. e.role.name = DpName(j) /\ e.role.configMaps = {ConfigMapName(j)}
    BY <2>3, PartsOf
  <2>6. i[1] = own[1] /\ DpName(i) = DpName(own)
    <3>1. [ns |-> i[1], account |-> DpName(i)] = [ns |-> own[1], account |-> DpName(own)]
      BY <1>1, <2>1, <2>4
    <3> QED BY <3>1
  <2>7. i[1] = k[1] /\ DpName(i) = DpName(j) /\ ConfigMapName(k) = ConfigMapName(j)
    BY <2>1, <2>4, <2>5
  <2>8. k[2] = j[2] /\ j[2] = i[2] /\ i[2] = own[2]
    BY <2>6, <2>7, NamesAssumption
  <2> QED BY <2>6, <2>7, <2>8, SameKey
<1>3. ASSUME k = own PROVE MayRead(pod, k[1], ConfigMapName(k))
  <2> DEFINE d == DeployedFor(own)
  <2>1. /\ d.roleBinding.subject = [ns |-> pod.ns, account |-> pod.account]
        /\ d.roleBinding.ns = k[1] /\ d.role.ns = k[1]
        /\ d.roleBinding.role = d.role.name
        /\ ConfigMapName(k) \in d.role.configMaps
    BY <1>1, <1>3, PartsOf
  <2> HIDE DEF d, pod
  <2>2. d \in Deployed
    BY DEF d
  <2> QED BY <2>1, <2>2 DEF MayRead
<1> QED BY <1>2, <1>3

\* A Service selects the pods of its Gateway and no other's.
LEMMA SelectsOwn ==
    ASSUME TypeOK, NEW d \in Deployed, NEW e \in Deployed
    PROVE  Selects(d.service, e.deployment) <=> d = e
<1>1. PICK i \in GatewayKeys : d = DeployedFor(i)
  BY DeployedIs
<1>2. PICK j \in GatewayKeys : e = DeployedFor(j)
  BY DeployedIs
<1>3. d.service.ns = i[1] /\ d.service.selector = SelectorLabels(i)
  BY <1>1, PartsOf
<1>4. e.deployment.ns = j[1] /\ e.deployment.labels = Labels(j)
  BY <1>2, PartsOf
<1>5. ASSUME Selects(d.service, e.deployment) PROVE d = e
  <2>1. i[1] = j[1]
    BY <1>3, <1>4, <1>5 DEF Selects
  <2>2. i[2] = j[2]
    <3>1. "gateway" \in DOMAIN SelectorLabels(i) /\ SelectorLabels(i)["gateway"] = i[2]
      BY DEF SelectorLabels
    <3>2. Labels(j)["gateway"] = j[2]
      BY DEF Labels
    <3> QED BY <1>3, <1>4, <1>5, <3>1, <3>2 DEF Selects
  <2> QED BY <1>1, <1>2, <2>1, <2>2, SameKey
<1>6. ASSUME d = e PROVE Selects(d.service, e.deployment)
  <2>1. i[1] = j[1] /\ i[2] = j[2]
    <3>1. d.config.gateway = i /\ e.config.gateway = j
      BY <1>1, <1>2, PartsOf
    <3> QED BY <1>6, <3>1
  <2>2. \A label \in DOMAIN SelectorLabels(i) : SelectorLabels(i)[label] = Labels(j)[label]
    BY <2>1 DEF SelectorLabels, Labels
  <2> QED BY <1>3, <1>4, <2>1, <2>2 DEF Selects
<1> QED BY <1>5, <1>6

\* The configurations that are published are made of snapshots with their Gateway.
LEMMA PublishedArrives ==
    ASSUME TypeOK, NEW config \in Published PROVE ConfigArrives(config)
<1>1. CASE \E k \in GatewayKeys :
             \E out \in ReconcileGateway(GatewaySnapshot(k), k).resources : config = out.config
  <2>1. PICK k \in GatewayKeys :
            \E out \in ReconcileGateway(GatewaySnapshot(k), k).resources : config = out.config
    BY <1>1
  <2> DEFINE t == GatewaySnapshot(k)
  <2>2. t.gateways[k] = gateways[k] /\ \A r \in RoutesFor(t, k) : t.routes[r] = routes[r]
    BY GatewayFetched
  <2> HIDE DEF t
  <2>3. t.gateways[k] # {} /\ config = GatewayConfig(t, k)
    <3>1. PICK out \in ReconcileGateway(t, k).resources : config = out.config
      BY <2>1 DEF t
    <3> QED BY <3>1, ReconcileDeploys
  <2>4. The(t.gateways[k]) \in GatewaySpecs
    BY <2>2, <2>3, TheIn DEF TypeOK, AtMostOne
  <2>5. \A r \in RoutesFor(t, k) : t.routes[r] \subseteq RouteSpecs
    BY <2>2 DEF RoutesFor, TypeOK, AtMostOne
  <2> QED BY <2>3, <2>4, <2>5, WrittenIsRead
<1>2. CASE \E r \in RouteKeys : config \in ReconcileHttpRoute(RouteSnapshot(r), r).configs
  <2>1. PICK r \in RouteKeys : config \in ReconcileHttpRoute(RouteSnapshot(r), r).configs
    BY <1>2
  <2> DEFINE s == RouteSnapshot(r)
  <2>2. PICK v \in ReconcileHttpRoute(s, r).parents :
            v.verdict.accepted /\ config = GatewayConfig(s, v.key)
    BY <2>1, ConfigsOfParents
  <2>3. /\ v.key \in GatewayKeys /\ gateways[v.key] # {}
        /\ s.gateways[v.key] = gateways[v.key]
        /\ s.routes[r] = routes[r]
    BY <2>2, ParentFetched
  <2>4. The(s.gateways[v.key]) \in GatewaySpecs
    BY <2>3, TheIn DEF TypeOK, AtMostOne
  <2>5. \A q \in RoutesFor(s, v.key) : s.routes[q] \subseteq RouteSpecs
    <3>1. \A q \in RouteKeys : s.routes[q] # {} => q = r
      BY OnlyThere DEF RouteSnapshot, TypeOK
    <3>2. routes[r] \subseteq RouteSpecs
      BY DEF TypeOK, AtMostOne
    <3> QED BY <2>3, <3>1, <3>2 DEF RoutesFor
  <2> HIDE DEF s
  <2> QED BY <2>2, <2>4, <2>5, WrittenIsRead
<1> QED BY <1>1, <1>2 DEF Published, PublishedOfGateways, PublishedOfRoutes

\* The invariant of the runs: what a data plane may read and what a Service selects
\* is its own Gateway's, for any names and namespaces, and what is written for it is
\* read as it was meant, whatever the cluster has (reconcile.rs 736-778,
\* controller/config.rs 493-573, dataplane main.rs 48-110).
THEOREM ConfigIsItsOwn == Spec => []DataPlaneReadsItsConfig
<1>1. TypeOK => DataPlaneReadsItsConfig
  <2> SUFFICES ASSUME TypeOK, NEW d \in Deployed
               PROVE  LET pod == d.deployment
                          own == d.config.gateway
                      IN /\ Asks(pod) = [ns |-> own[1], name |-> ConfigMapName(own)]
                         /\ \A k \in GatewayKeys : MayRead(pod, k[1], ConfigMapName(k)) <=> k = own
                         /\ \A e \in Deployed : Selects(d.service, e.deployment) <=> d = e
                         /\ ConfigArrives(GatewayConfig(Whole, own))
                         /\ \A config \in Published : config.gateway = own => ConfigArrives(config)
    BY DEF DataPlaneReadsItsConfig
  <2>1. PICK own \in GatewayKeys : gateways[own] # {} /\ d = DeployedFor(own)
    BY DeployedIs
  <2>2. d.config.gateway = own
    BY <2>1, PartsOf
  <2>3. Asks(d.deployment) = [ns |-> own[1], name |-> ConfigMapName(own)]
    BY <2>1, PartsOf DEF Asks, ConfigMapName
  <2>4. \A k \in GatewayKeys : MayRead(d.deployment, k[1], ConfigMapName(k)) <=> k = own
    BY <2>1, ReadsOwn
  <2>5. \A e \in Deployed : Selects(d.service, e.deployment) <=> d = e
    BY SelectsOwn
  <2>6. ConfigArrives(GatewayConfig(Whole, own))
    <3>1. Whole.gateways = gateways /\ Whole.routes = routes
      BY DEF Whole
    <3>2. The(gateways[own]) \in GatewaySpecs
      BY <2>1, TheIn DEF TypeOK, AtMostOne
    <3>3. \A r \in RoutesFor(Whole, own) : routes[r] \subseteq RouteSpecs
      BY DEF RoutesFor, TypeOK, AtMostOne
    <3> QED BY <3>1, <3>2, <3>3, WrittenIsRead
  <2>7. \A config \in Published : ConfigArrives(config)
    BY PublishedArrives
  <2> QED BY <2>2, <2>3, <2>4, <2>5, <2>6, <2>7
<1> QED BY <1>1, TypeCorrect, PTL

-----------------------------------------------------------------------------
(* The certificates of a listener.                                         *)

\* When all are found, all are kept, in their order.
LEMMA AmongAll ==
    ASSUME NEW S, NEW certificates \in Seq(S), NEW found,
           \A i \in 1 .. Len(certificates) : certificates[i] \in found
    PROVE  Among(certificates, found) = certificates
<1> DEFINE N == Len(certificates)
           Goes(f) == [n \in 0 .. N |->
                         IF n = 0 THEN <<>>
                         ELSE IF certificates[n] \in found THEN Append(f[n - 1], certificates[n])
                         ELSE f[n - 1]]
           g == [n \in 0 .. N |-> [i \in 1 .. n |-> certificates[i]]]
           kept == CHOOSE f : f = Goes(f)
<1>1. g = Goes(g)
  <2>1. \A n \in 1 .. N : g[n] = Append(g[n - 1], certificates[n])
    <3> SUFFICES ASSUME NEW n \in 1 .. N PROVE g[n] = Append(g[n - 1], certificates[n])
      OBVIOUS
    <3>1. g[n - 1] = [i \in 1 .. n - 1 |-> certificates[i]] /\ g[n] = [i \in 1 .. n |-> certificates[i]]
      OBVIOUS
    <3>2. g[n - 1] \in Seq(S) /\ Len(g[n - 1]) = n - 1
      BY <3>1
    <3> HIDE DEF g
    <3> QED BY <3>1, <3>2
  <2>2. g[0] = <<>>
    OBVIOUS
  <2>3. \A n \in 0 .. N : g[n] = Goes(g)[n]
    <3>1. \A n \in 0 .. N : n = 0 \/ n \in 1 .. N
      OBVIOUS
    <3> HIDE DEF g, N
    <3> QED BY <2>1, <2>2, <3>1 DEF N
  <2> QED BY <2>3
<1>2. kept = Goes(kept)
  <2> HIDE DEF g, Goes
  <2> QED BY <1>1
<1> DEFINE T == {n \in 0 .. N : kept[n] = g[n]}
<1>3. N \in Nat
  OBVIOUS
<1> HIDE DEF N, kept
<1>4. 0 \in T
  BY <1>1, <1>2, <1>3
<1>5. ASSUME NEW n \in 0 .. N - 1, n \in T PROVE n + 1 \in T
  <2>1. n + 1 \in 1 .. N /\ n + 1 \in 0 .. N /\ n + 1 - 1 = n
    BY <1>3
  <2>2. kept[n + 1] = Goes(kept)[n + 1] /\ g[n + 1] = Goes(g)[n + 1]
    BY <1>1, <1>2
  <2>3. kept[n] = g[n]
    BY <1>5
  <2> HIDE DEF g
  <2> QED BY <2>1, <2>2, <2>3
<1>6. N \in T
  <2>1. 0 .. N \subseteq T
    <3> HIDE DEF T
    <3> QED BY <1>3, <1>4, <1>5, UpTo
  <2> QED BY <1>3, <2>1
<1>7. Among(certificates, found) = kept[N]
  BY DEF Among, kept, N
<1>8. g[N] = certificates
  BY <1>3 DEF N
<1> QED BY <1>6, <1>7, <1>8

\* The invariant of the runs: a listener whose references are all resolved, and can
\* be read, is served with TLS - to every client if it has one certificate, and if it
\* has several to a client that names its hostname (reconcile.rs 568-651, tls.rs
\* 112-171).
THEOREM ResolvedServed == Spec => []ResolvedIsServed
<1>1. TypeOK => ResolvedIsServed
  <2> SUFFICES ASSUME TypeOK, NEW k \in GatewayKeys, NEW gw \in gateways[k],
                      NEW l \in ToSet(gw.listeners), l.tls # {},
                      LET tls == ListenerTls(Whole, k, l) IN
                      tls.mode = "Terminate" /\ tls.resolved /\ tls.certificates # <<>>
                      /\ Readable(Whole, tls)
               PROVE  LET tls == ListenerTls(Whole, k, l) IN
                      /\ Len(tls.certificates) = 1 =>
                             \A sni \in Names : Offered(Whole, tls, sni) = ToSet(tls.certificates)
                      /\ \A h \in l.hostname :
                             ~h.wild => /\ Offered(Whole, tls, l.hostname) # {}
                                        /\ Offered(Whole, tls, l.hostname) \subseteq ToSet(tls.certificates)
    BY DEF ResolvedIsServed
  <2> DEFINE tls == ListenerTls(Whole, k, l)
             certificates == Certificates(k, l)
             found == Found(Whole, k, l)
  <2>1. tls = [mode |-> The(l.tls).mode, hostname |-> l.hostname, certificates |-> certificates,
               inline |-> Among(certificates, found),
               resolved |-> ToSet(certificates) \subseteq found]
    BY DEF ListenerTls
  <2>2. l \in ListenerSpec
    <3>1. gw \in GatewaySpecs
      BY DEF TypeOK, AtMostOne
    <3>2. gw.listeners \in Seq(ListenerSpec)
      BY <3>1, TypesAssumption
    <3>3. PICK i \in DOMAIN gw.listeners : l = gw.listeners[i]
      BY DEF ToSet
    <3> QED BY <3>2, <3>3
  <2>3. certificates \in Seq(ToSet(certificates))
    <3>1. The(l.tls) \in l.tls
      BY TheIn
    <3>2. l.tls \subseteq [mode : {"Terminate", "Passthrough"},
                           refs : Seq([ns : AtMostOne(STRING), name : STRING])]
      BY <2>2 DEF ListenerSpec, AtMostOne
    <3> DEFINE refs == The(l.tls).refs
    <3>3. refs \in Seq([ns : AtMostOne(STRING), name : STRING])
      BY <3>1, <3>2
    <3>4. certificates = [i \in DOMAIN refs |-> <<Default(refs[i].ns, k[1]), refs[i].name>>]
      BY DEF Certificates
    <3>5. DOMAIN certificates = 1 .. Len(refs) /\ Len(refs) \in Nat
      BY <3>3, <3>4
    <3>6. certificates \in [1 .. Len(refs) -> ToSet(certificates)]
      <4> HIDE DEF certificates, refs
      <4> QED BY <3>4, <3>5 DEF ToSet
    <3> HIDE DEF certificates, refs
    <3> QED BY <3>5, <3>6
  <2> HIDE DEF tls, certificates, found
  <2>4. /\ tls.certificates = certificates /\ tls.mode = "Terminate"
        /\ ToSet(certificates) \subseteq found /\ certificates # <<>> /\ Readable(Whole, tls)
    <3>1. tls.mode = "Terminate" /\ tls.resolved /\ tls.certificates # <<>> /\ Readable(Whole, tls)
      BY DEF tls
    <3> QED BY <2>1, <3>1
  <2> DEFINE N == Len(certificates)
  <2>6. N \in Nat /\ N # 0 /\ DOMAIN certificates = 1 .. N
    BY <2>4, <2>3
  <2>7. \A i \in 1 .. N : certificates[i] \in ToSet(certificates)
    BY <2>6 DEF ToSet
  <2>8. tls.inline = certificates
    BY <2>1, <2>4, <2>3, <2>7, AmongAll
  <2>9. \A h, i \in l.hostname : h = i
    BY <2>2 DEF ListenerSpec, AtMostOne
  <2>10. CASE N = 1
    <3>1. ToSet(certificates) = {Head(certificates)}
      BY <2>3, <2>6, <2>10 DEF ToSet
    <3>2. Terminates(Whole, tls)
      BY <2>4, <2>8, <2>10 DEF Terminates
    <3>3. \A sni : Offered(Whole, tls, sni) = {Head(certificates)}
      BY <2>8, <2>10, <3>2 DEF Offered
    <3> QED BY <2>4, <3>1, <3>3 DEF tls
  <2>11. CASE N # 1
    <3> SUFFICES ASSUME NEW h \in l.hostname, ~h.wild
                 PROVE  /\ Offered(Whole, tls, l.hostname) # {}
                        /\ Offered(Whole, tls, l.hostname) \subseteq ToSet(certificates)
      BY <2>4, <2>11 DEF tls
    <3>1. tls.hostname = l.hostname /\ \A i \in l.hostname : ~i.wild
      BY <2>1, <2>9
    <3>2. Terminates(Whole, tls)
      BY <2>4, <2>8, <3>1 DEF Terminates
    <3>3. Offered(Whole, tls, l.hostname) = {Last(certificates)}
      BY <2>8, <2>11, <3>1, <3>2 DEF Offered
    <3>4. Last(certificates) \in ToSet(certificates)
      BY <2>6, <2>7 DEF Last
    <3> QED BY <3>3, <3>4
  <2> QED BY <2>10, <2>11
<1> QED BY <1>1, TypeCorrect, PTL

-----------------------------------------------------------------------------
(* The ports that are exposed.                                             *)

\* The recursion over the bytes goes through, and every step casts.
LEMMA HashType == ASSUME NEW name \in Seq(0 .. 255) PROVE Hash(name) \in U16
<1> DEFINE N == Len(name)
           Half(x) == PublishedPort(x)
           zero == 0
           step == [n \in 1 .. N |-> [x \in U16 |-> Half(x * 31 + name[n])]]
           Goes(f) == [n \in 0 .. N |-> IF n = 0 THEN 0 ELSE Half(f[n - 1] * 31 + name[n])]
           hash == CHOOSE f : f = Goes(f)
<1>1. Hash(name) = hash[N]
  BY DEF Hash, PublishedPort
<1>2. zero \in U16 /\ U16 \subseteq Int /\ \A x \in Int : Half(x) \in U16
  <2>1. 0 \in U16 /\ U16 \subseteq Int
    BY SMTT(30) DEF U16
  <2> QED BY <2>1, PortInRange
<1> HIDE DEF Half, hash
<1>3. N \in Nat /\ \A n \in 1 .. N : name[n] \in Int
  <2>1. \A n \in 1 .. N : name[n] \in 0 .. 255
    BY ElementOfSeq
  <2>2. 0 .. 255 \subseteq Int
    OBVIOUS
  <2> QED BY <2>1, <2>2, LenProperties
<1> HIDE DEF N
<1>4. \A n \in 1 .. N : [x \in U16 |-> Half(x * 31 + name[n])] \in [U16 -> U16]
  <2> SUFFICES ASSUME NEW n \in 1 .. N, NEW x \in U16 PROVE Half(x * 31 + name[n]) \in U16
    OBVIOUS
  <2> QED BY <1>2, <1>3
<1>5. step \in [1 .. N -> [U16 -> U16]]
  BY <1>4
<1>6. PICK g \in [0 .. N -> U16] : g[0] = zero /\ \A n \in 1 .. N : g[n] = step[n][g[n - 1]]
  <2> DEFINE V == U16
  <2>1. zero \in V /\ N \in Nat /\ step \in [1 .. N -> [V -> V]]
    BY <1>2, <1>3, <1>5
  <2> HIDE DEF step, zero, V
  <2>2. \E g \in [0 .. N -> V] : g[0] = zero /\ \A n \in 1 .. N : g[n] = step[n][g[n - 1]]
    BY <2>1, Recursive
  <2> QED BY <2>2 DEF V
<1>7. g = Goes(g)
  <2>1. \A n \in 1 .. N : g[n] = Half(g[n - 1] * 31 + name[n])
    <3> SUFFICES ASSUME NEW n \in 1 .. N PROVE g[n] = Half(g[n - 1] * 31 + name[n])
      OBVIOUS
    <3>1. g[n - 1] \in U16
      BY <1>3
    <3>2. step[n][g[n - 1]] = Half(g[n - 1] * 31 + name[n])
      BY <3>1
    <3> HIDE DEF step
    <3> QED BY <1>6, <3>2
  <2>2. \A n \in 0 .. N : n = 0 \/ n \in 1 .. N
    BY <1>3
  <2> QED BY <1>6, <2>1, <2>2
<1>8. hash = Goes(hash)
  <2> HIDE DEF Goes
  <2> QED BY <1>7 DEF hash
<1> DEFINE T == {n \in 0 .. N : hash[n] \in U16}
<1>9. 0 \in T
  <2>1. hash[0] = Goes(hash)[0]
    BY <1>8
  <2>2. hash[0] = 0
    BY <1>3, <2>1
  <2> QED BY <1>2, <1>3, <2>2
<1>10. ASSUME NEW n \in 0 .. N - 1, n \in T PROVE n + 1 \in T
  <2>1. n + 1 \in 1 .. N /\ n + 1 \in 0 .. N /\ n + 1 # 0 /\ n + 1 - 1 = n
    BY <1>3
  <2>2. hash[n + 1] = Goes(hash)[n + 1]
    BY <1>8
  <2>3. hash[n + 1] = Half(hash[n] * 31 + name[n + 1])
    BY <2>1, <2>2
  <2>4. hash[n] * 31 + name[n + 1] \in Int
    <3>1. hash[n] \in Int /\ name[n + 1] \in Int
      BY <1>2, <1>3, <1>10, <2>1
    <3> QED BY <3>1
  <2>5. hash[n + 1] \in U16
    BY <1>2, <2>3, <2>4
  <2> QED BY <2>1, <2>5
<1>11. 0 .. N \subseteq T
  <2> HIDE DEF T
  <2> QED BY <1>3, <1>9, <1>10, UpTo
<1>12. hash[N] \in U16
  BY <1>3, <1>11
<1> QED BY <1>1, <1>12

LEMMA HexDigitType ==
    ASSUME NEW n \in 0 .. 15 PROVE HexDigit(n) \in 48 .. 57 \cup 97 .. 102
  BY DEF HexDigit

\* One to four digits, and nothing else.
LEMMA HexType ==
    ASSUME NEW n \in U16
    PROVE  /\ Hex(n) \in Seq(48 .. 57 \cup 97 .. 102)
           /\ Len(Hex(n)) \in 1 .. 4
<1> DEFINE digits == <<n \div 4096, (n \div 256) % 16, (n \div 16) % 16, n % 16>>
           zeros == IF n < 16 THEN 3 ELSE IF n < 256 THEN 2 ELSE IF n < 4096 THEN 1 ELSE 0
<1>1. /\ n \div 4096 \in 0 .. 15 /\ (n \div 256) % 16 \in 0 .. 15
      /\ (n \div 16) % 16 \in 0 .. 15 /\ n % 16 \in 0 .. 15
  <2>1. n \in Nat /\ n < 65536
    BY SMTT(30) DEF U16
  <2>2. n \div 4096 \in 0 .. 15
    BY <2>1
  <2>3. \A m \in Nat : m % 16 \in 0 .. 15
    OBVIOUS
  <2>4. n \div 256 \in Nat /\ n \div 16 \in Nat
    BY <2>1
  <2> QED BY <2>1, <2>2, <2>3, <2>4
<1>2. zeros \in 0 .. 3
  BY SMTT(30) DEF U16
<1>3. \A i \in 1 .. 4 : digits[i] \in 0 .. 15
  <2> DEFINE a == n \div 4096
             b == (n \div 256) % 16
             c == (n \div 16) % 16
             d == n % 16
  <2> HIDE DEF a, b, c, d
  <2>1. <<a, b, c, d>>[1] = a /\ <<a, b, c, d>>[2] = b /\ <<a, b, c, d>>[3] = c /\ <<a, b, c, d>>[4] = d
    OBVIOUS
  <2>2. digits = <<a, b, c, d>> /\ a \in 0 .. 15 /\ b \in 0 .. 15 /\ c \in 0 .. 15 /\ d \in 0 .. 15
    BY <1>1 DEF a, b, c, d
  <2> HIDE DEF digits
  <2> QED BY <2>1, <2>2
<1>4. Hex(n) = [i \in 1 .. 4 - zeros |-> HexDigit(digits[zeros + i])]
  BY DEF Hex
<1> HIDE DEF digits, zeros
<1>5. 4 - zeros \in 1 .. 4 /\ \A i \in 1 .. 4 - zeros : zeros + i \in 1 .. 4
  BY <1>2
<1>6. \A i \in 1 .. 4 - zeros : HexDigit(digits[zeros + i]) \in 48 .. 57 \cup 97 .. 102
  BY <1>3, <1>5, HexDigitType
<1> DEFINE K == 4 - zeros
<1>7. Hex(n) \in [1 .. K -> 48 .. 57 \cup 97 .. 102] /\ K \in 1 .. 4
  BY <1>4, <1>5, <1>6
<1> HIDE DEF K
<1> QED BY <1>7

\* The first bytes of a name.
LEMMA Start ==
    ASSUME NEW S, NEW s \in Seq(S), NEW n \in 0 .. Len(s)
    PROVE  /\ SubSeq(s, 1, n) \in Seq(S)
           /\ Len(SubSeq(s, 1, n)) = n
           /\ \A i \in 1 .. n : SubSeq(s, 1, n)[i] = s[i]
<1>1. \A i \in 1 .. n : s[i] \in S
  BY LenProperties, ElementOfSeq
<1>2. n \in Nat
  BY LenProperties
<1> DEFINE t == SubSeq(s, 1, n)
<1>3. /\ t \in Seq(S)
      /\ Len(t) = IF 1 <= n THEN n - 1 + 1 ELSE 0
      /\ \A i \in 1 .. n - 1 + 1 : t[i] = s[1 + i - 1]
  BY <1>1, <1>2, SubSeqProperties
<1> HIDE DEF t
<1>4. n - 1 + 1 = n /\ \A i \in 1 .. n : 1 + i - 1 = i
  BY <1>2
<1>5. Len(t) = n
  BY <1>2, <1>3
<1> QED BY <1>3, <1>4, <1>5 DEF t

\* A name that begins with anything but a hyphen is cut after its last other byte.
LEMMA TrimEndIs ==
    ASSUME NEW name \in Seq(0 .. 255), name # <<>>, name[1] # Hyphen
    PROVE  \E m \in 1 .. Len(name) :
              name[m] # Hyphen /\ TrimEnd(name) = SubSeq(name, 1, m)
<1> DEFINE N == Len(name)
           kept == {n \in DOMAIN name : name[n] # Hyphen}
<1>1. N \in Nat /\ N >= 1 /\ DOMAIN name = 1 .. N
  OBVIOUS
<1>2. 1 \in kept
  BY <1>1
<1>3. \E n \in kept : \A m \in kept : m <= n
  <2> DEFINE T == {N - n : n \in kept}
  <2>1. T \in SUBSET Nat /\ T # {}
    BY <1>1, <1>2
  <2>2. PICK t \in T : \A u \in T : t <= u
    <3> HIDE DEF T
    <3> QED BY <2>1, Least
  <2>3. PICK n \in kept : t = N - n
    BY <2>2
  <2>4. ASSUME NEW m \in kept PROVE m <= n
    <3>1. N - m \in T
      OBVIOUS
    <3>2. N - n <= N - m
      BY <2>2, <2>3, <3>1
    <3>3. m \in Int /\ n \in Int
      BY <1>1
    <3> QED BY <1>1, <3>2, <3>3
  <2> QED BY <2>4
<1> DEFINE last == CHOOSE n \in kept : \A m \in kept : m <= n
<1>4. last \in kept
  <2> HIDE DEF kept
  <2> QED BY <1>3
<1>5. TrimEnd(name) = SubSeq(name, 1, last)
  BY <1>2 DEF TrimEnd
<1> HIDE DEF last
<1> QED BY <1>1, <1>4, <1>5

\* A plain name is made a plain name that fits.
LEMMA SanitizedIsPlain ==
    ASSUME NEW name \in Seq(0 .. 255), PlainName(name)
    PROVE  PlainName(SanitizePortName(name)) /\ Len(SanitizePortName(name)) <= MaxPortNameLength
<1>1. CASE Len(name) <= MaxPortNameLength
  BY <1>1 DEF SanitizePortName
<1>2. CASE ~(Len(name) <= MaxPortNameLength)
  <2> DEFINE suffix == Hex(Hash(name))
             N == Len(suffix)
             start == SubSeq(name, 1, MaxPortNameLength - 1 - N)
             short == TrimEnd(start)
             r == short \o <<Hyphen>> \o suffix
  <2>1. suffix \in Seq(48 .. 57 \cup 97 .. 102) /\ N \in 1 .. 4
    BY HashType, HexType
  <2> HIDE DEF suffix
  <2>2. SanitizePortName(name) = r
    BY <1>2 DEF SanitizePortName, suffix
  <2>3. Len(name) \in Nat /\ Len(name) > 15 /\ MaxPortNameLength = 15
    BY <1>2 DEF MaxPortNameLength
  <2> DEFINE L == MaxPortNameLength - 1 - N
  <2>4. start = SubSeq(name, 1, L)
    OBVIOUS
  <2>bounds. L \in 10 .. 13 /\ L < Len(name) /\ L + N = 14
    <3>1. N \in 1 .. 4
      BY <2>1
    <3>2. L = 14 - N
      BY <2>3, <3>1
    <3> HIDE DEF N, L
    <3> QED BY <2>3, <3>1, <3>2
  <2> HIDE DEF N, L, start
  <2>5. /\ start \in Seq(0 .. 255) /\ Len(start) = L
        /\ \A i \in 1 .. L : start[i] = name[i]
    <3>1. L \in 0 .. Len(name)
      BY <2>3, <2>bounds
    <3> QED BY <2>4, <3>1, Start
  <2>6. /\ \A i \in DOMAIN name : Alphanumeric(name[i]) \/ name[i] = Hyphen
        /\ \A i \in 1 .. Len(name) - 1 : ~(name[i] = Hyphen /\ name[i + 1] = Hyphen)
        /\ Letter(name[1])
    BY DEF PlainName
  <2>7. name[1] # Hyphen
    <3>1. ~Letter(Hyphen)
      BY DEF Letter, Hyphen
    <3> QED BY <2>6, <3>1
  <2>8. PICK m \in 1 .. L : start[m] # Hyphen /\ short = SubSeq(start, 1, m)
    <3>1. start # <<>> /\ start[1] # Hyphen
      BY <2>bounds, <2>5, <2>7
    <3> QED BY <2>5, <3>1, TrimEndIs
  <2> HIDE DEF short
  <2>9. /\ short \in Seq(0 .. 255) /\ Len(short) = m
        /\ \A i \in 1 .. m : short[i] = name[i]
    <3>1. m \in 0 .. Len(start)
      BY <2>bounds, <2>5
    <3>2. /\ short \in Seq(0 .. 255) /\ Len(short) = m
          /\ \A i \in 1 .. m : short[i] = start[i]
      BY <2>5, <2>8, <3>1, Start
    <3>3. \A i \in 1 .. m : i \in 1 .. L
      BY <2>bounds
    <3> QED BY <2>5, <3>2, <3>3
  <2>10. m \in Nat /\ m <= L /\ L \in Nat /\ N \in Nat /\ N >= 1 /\ m + 1 + N <= 15
    BY <2>1, <2>bounds DEF N
  <2>11. /\ Len(r) = m + 1 + N
         /\ \A i \in 1 .. m : r[i] = short[i]
         /\ r[m + 1] = Hyphen
         /\ \A i \in 1 .. N : r[m + 1 + i] = suffix[i]
    <3>1. suffix \in Seq(0 .. 255)
      BY <2>1
    <3>2. <<Hyphen>> \in Seq(0 .. 255)
      BY DEF Hyphen
    <3> DEFINE u == short \o <<Hyphen>>
    <3>3. /\ u \in Seq(0 .. 255) /\ Len(u) = m + 1
          /\ \A i \in 1 .. m : u[i] = short[i]
          /\ u[m + 1] = Hyphen
      <4>1. u = Append(short, Hyphen) /\ Hyphen \in 0 .. 255
        BY <2>9, AppendIsConcat DEF Hyphen
      <4> HIDE DEF u
      <4> QED BY <2>9, <4>1, AppendProperties
    <3> HIDE DEF u
    <3>4. r = u \o suffix
      BY DEF u
    <3> HIDE DEF r
    <3>5. /\ Len(r) = Len(u) + Len(suffix)
          /\ \A i \in 1 .. Len(u) + Len(suffix) :
                r[i] = IF i <= Len(u) THEN u[i] ELSE suffix[i - Len(u)]
      <4>1. u \in Seq(0 .. 255)
        BY <3>3
      <4> QED BY <3>1, <3>4, <4>1, ConcatProperties
    <3>6. Len(u) = m + 1 /\ Len(suffix) = N
      BY <3>3 DEF N
    <3>7. \A i \in 1 .. N : m + 1 + i \in 1 .. m + 1 + N /\ ~(m + 1 + i <= m + 1)
                            /\ m + 1 + i - (m + 1) = i
      BY <2>10
    <3>8. \A i \in 1 .. m + 1 : i \in 1 .. m + 1 + N /\ i <= m + 1
      BY <2>10
    <3>9. (\A i \in 1 .. m : i \in 1 .. m + 1) /\ m + 1 \in 1 .. m + 1
      BY <2>10
    <3> QED BY <3>3, <3>5, <3>6, <3>7, <3>8, <3>9
  <2>12. \A i \in 1 .. N : Alphanumeric(suffix[i])
    <3>1. \A i \in 1 .. N : suffix[i] \in 48 .. 57 \cup 97 .. 102
      BY <2>1 DEF N
    <3> QED BY <3>1 DEF Alphanumeric, Letter
  <2>13. ~Alphanumeric(Hyphen)
    BY DEF Alphanumeric, Letter, Hyphen
  <2> HIDE DEF r
  <2>14. \A i \in 1 .. m + 1 + N :
            \/ i \in 1 .. m /\ r[i] = name[i]
            \/ i = m + 1 /\ r[i] = Hyphen
            \/ i - m - 1 \in 1 .. N /\ r[i] = suffix[i - m - 1]
    <3> SUFFICES ASSUME NEW i \in 1 .. m + 1 + N
                 PROVE  \/ i \in 1 .. m /\ r[i] = name[i]
                        \/ i = m + 1 /\ r[i] = Hyphen
                        \/ i - m - 1 \in 1 .. N /\ r[i] = suffix[i - m - 1]
      OBVIOUS
    <3>1. CASE i \in 1 .. m
      BY <2>9, <2>11, <3>1
    <3>2. CASE i = m + 1
      BY <2>11, <3>2
    <3>3. CASE i - m - 1 \in 1 .. N
      <4>1. m + 1 + (i - m - 1) = i
        BY <2>10
      <4> QED BY <2>11, <3>3, <4>1
    <3> QED BY <2>10, <3>1, <3>2, <3>3
  <2>15. \A i \in 1 .. m + 1 + N : Alphanumeric(r[i]) \/ r[i] = Hyphen
    <3>1. \A i \in 1 .. m : i \in DOMAIN name
      BY <2>3, <2>bounds, <2>10
    <3> QED BY <2>6, <2>12, <2>14, <3>1
  <2>16. ASSUME NEW i \in 1 .. m + N, r[i] = Hyphen, r[i + 1] = Hyphen PROVE FALSE
    <3>1. CASE i \in 1 .. m - 1
      <4>1. r[i] = name[i] /\ r[i + 1] = name[i + 1] /\ i \in 1 .. Len(name) - 1
        BY <2>3, <2>bounds, <2>9, <2>10, <2>11, <3>1
      <4> QED BY <2>6, <2>16, <4>1
    <3>2. CASE i = m
      <4>1. m \in 1 .. m /\ m \in 1 .. L
        BY <2>10
      <4>2. r[m] = start[m]
        BY <2>5, <2>9, <2>11, <4>1
      <4> QED BY <2>8, <2>16, <3>2, <4>2
    <3>3. CASE i - m \in 1 .. N
      <4>1. m + 1 + (i - m) = i + 1
        BY <2>10
      <4>2. r[i + 1] = suffix[i - m]
        BY <2>11, <3>3, <4>1
      <4> QED BY <2>12, <2>13, <2>16, <3>3, <4>2
    <3> QED BY <2>10, <3>1, <3>2, <3>3
  <2>17. Letter(r[1])
    <3>1. 1 \in 1 .. m
      BY <2>10
    <3>2. r[1] = name[1]
      BY <2>9, <2>11, <3>1
    <3> QED BY <2>6, <3>2
  <2>18. Alphanumeric(r[Len(r)])
    <3>1. r[m + 1 + N] = suffix[N] /\ N \in 1 .. N
      BY <2>10, <2>11
    <3> QED BY <2>11, <2>12, <3>1
  <2>19. DOMAIN r = 1 .. m + 1 + N
    <3>1. r \in Seq(0 .. 255)
      <4>1. suffix \in Seq(0 .. 255) /\ <<Hyphen>> \in Seq(0 .. 255)
        BY <2>1 DEF Hyphen
      <4> QED BY <2>9, <4>1 DEF r
    <3> QED BY <2>11, <3>1
  <2>20. PlainName(r)
    <3>1. Len(r) - 1 = m + N
      BY <2>10, <2>11
    <3> QED BY <2>15, <2>16, <2>17, <2>18, <2>19, <3>1 DEF PlainName
  <2> QED BY <2>2, <2>3, <2>10, <2>11, <2>20
<1> QED BY <1>1, <1>2

\* Every port of a listener is exposed, by the first listener that has it.
LEMMA PortsAreExposed ==
    ASSUME NEW gw, gw.listeners \in Seq(ListenerSpec)
    PROVE  /\ {p.port : p \in ExposedPorts(gw)} = {l.port : l \in ToSet(gw.listeners)}
           /\ \A p, q \in ExposedPorts(gw) : p.port = q.port => p = q
           /\ \A p \in ExposedPorts(gw) : \E l \in ToSet(gw.listeners) :
                  p.name = SanitizePortName(Bytes[l.name])
<1> DEFINE ls == gw.listeners
           N == Len(ls)
           firsts == {j \in DOMAIN ls : \A h \in 1 .. j - 1 : ls[h].port # ls[j].port}
           At(i) == [port |-> ls[i].port, name |-> SanitizePortName(Bytes[ls[i].name])]
<1>1. ExposedPorts(gw) = {At(i) : i \in firsts}
  BY DEF ExposedPorts
<1>2. N \in Nat /\ DOMAIN ls = 1 .. N
  BY LenProperties
<1>3. \A i \in 1 .. N : ls[i] \in ToSet(ls)
  BY <1>2 DEF ToSet
<1>4. ASSUME NEW l \in ToSet(ls) PROVE \E i \in firsts : ls[i].port = l.port
  <2> DEFINE T == {i \in 1 .. N : ls[i].port = l.port}
  <2>1. T # {}
    BY <1>2 DEF ToSet
  <2>2. T \in SUBSET Nat
    BY <1>2
  <2>3. PICK i \in T : \A j \in T : i <= j
    <3> HIDE DEF T
    <3> QED BY <2>1, <2>2, Least
  <2>4. ASSUME NEW h \in 1 .. i - 1 PROVE ls[h].port # ls[i].port
    <3>1. h \in 1 .. N /\ ~(i <= h)
      BY <1>2
    <3>2. h \notin T
      BY <2>3, <3>1
    <3> QED BY <3>1, <3>2
  <2>5. i \in firsts
    BY <1>2, <2>4
  <2> QED BY <2>5
<1>5. \A i \in firsts : i \in 1 .. N
  BY <1>2
<1>6. ASSUME NEW i \in firsts, NEW j \in firsts, ls[i].port = ls[j].port PROVE i = j
  <2>1. i \in Int /\ j \in Int /\ i >= 1 /\ j >= 1
    BY <1>2, <1>5
  <2>2. ~(i < j)
    <3> SUFFICES ASSUME i < j PROVE FALSE
      OBVIOUS
    <3>1. i \in 1 .. j - 1
      BY <2>1
    <3> QED BY <1>6, <3>1
  <2>3. ~(j < i)
    <3> SUFFICES ASSUME j < i PROVE FALSE
      OBVIOUS
    <3>1. j \in 1 .. i - 1
      BY <2>1
    <3> QED BY <1>6, <3>1
  <2> QED BY <2>1, <2>2, <2>3
<1>7. \A i : At(i).port = ls[i].port /\ At(i).name = SanitizePortName(Bytes[ls[i].name])
  OBVIOUS
<1> HIDE DEF At, firsts, ls, N
<1>8. {p.port : p \in ExposedPorts(gw)} = {l.port : l \in ToSet(ls)}
  <2>1. ASSUME NEW p \in ExposedPorts(gw) PROVE \E l \in ToSet(ls) : p.port = l.port
    BY <1>1, <1>3, <1>5, <1>7
  <2>2. ASSUME NEW l \in ToSet(ls) PROVE \E p \in ExposedPorts(gw) : l.port = p.port
    BY <1>1, <1>4, <1>7
  <2> QED BY <2>1, <2>2
<1>9. ASSUME NEW p \in ExposedPorts(gw), NEW q \in ExposedPorts(gw), p.port = q.port PROVE p = q
  <2>1. PICK i \in firsts : p = At(i)
    BY <1>1
  <2>2. PICK j \in firsts : q = At(j)
    BY <1>1
  <2>3. ls[i].port = ls[j].port
    BY <1>7, <1>9, <2>1, <2>2
  <2> QED BY <1>6, <2>1, <2>2, <2>3
<1>10. \A p \in ExposedPorts(gw) : \E l \in ToSet(ls) : p.name = SanitizePortName(Bytes[l.name])
  BY <1>1, <1>3, <1>5, <1>7
<1> QED BY <1>8, <1>9, <1>10 DEF ls

\* The invariant of the runs: the Service and the pods of a Gateway have each of its
\* ports once, under names that Kubernetes takes if those of the listeners are plain,
\* however long they are (reconcile.rs 781-812, 815-890).
THEOREM PortsAreServed == Spec => []PortsExposed
<1>1. TypeOK => PortsExposed
  <2> SUFFICES ASSUME TypeOK, NEW k \in GatewayKeys,
                      NEW out \in ReconcileGateway(GatewaySnapshot(k), k).resources
               PROVE  LET listeners == UNION {ToSet(gw.listeners) : gw \in gateways[k]}
                          ports == out.service.ports
                      IN /\ {p.port : p \in ports} = {l.port : l \in listeners}
                         /\ \A p, q \in ports : p.port = q.port => p = q
                         /\ out.deployment.ports = ports
                         /\ (\A l \in listeners : PlainName(Bytes[l.name])) =>
                               \A p \in ports : PlainName(p.name) /\ Len(p.name) <= MaxPortNameLength
    BY DEF PortsExposed
  <2> DEFINE t == GatewaySnapshot(k)
             gw == The(gateways[k])
             ports == ExposedPorts(gw)
             listeners == UNION {ToSet(g.listeners) : g \in gateways[k]}
  <2>1. t.gateways[k] = gateways[k]
    BY GatewayFetched
  <2> HIDE DEF t
  <2>2. /\ gateways[k] # {}
        /\ out = [config |-> GatewayConfig(t, k), role |-> Role(k, gw),
                  roleBinding |-> RoleBinding(k), service |-> Service(k, gw),
                  deployment |-> Deployment(k, gw)]
    BY <2>1, ReconcileDeploys DEF t
  <2>3. out.service.ports = ports /\ out.deployment.ports = ports
    BY <2>2 DEF Service, Deployment
  <2>4. gw \in gateways[k] /\ \A g \in gateways[k] : g = gw
    BY <2>2, TheIn DEF TypeOK, AtMostOne
  <2>5. listeners = ToSet(gw.listeners)
    <3> HIDE DEF gw
    <3> QED BY <2>4
  <2>6. /\ gw \in GatewaySpecs
        /\ gw.listeners \in Seq(ListenerSpec)
        /\ \A l \in ToSet(gw.listeners) : Bytes[l.name] \in Seq(0 .. 255)
    <3>1. gw \in GatewaySpecs
      BY <2>4 DEF TypeOK, AtMostOne
    <3> QED BY <3>1, TypesAssumption
  <2> HIDE DEF gw, ports, listeners
  <2>7. /\ {p.port : p \in ports} = {l.port : l \in listeners}
        /\ \A p, q \in ports : p.port = q.port => p = q
        /\ \A p \in ports : \E l \in listeners : p.name = SanitizePortName(Bytes[l.name])
    BY <2>5, <2>6, PortsAreExposed DEF ports
  <2>8. ASSUME \A l \in listeners : PlainName(Bytes[l.name]), NEW p \in ports
        PROVE  PlainName(p.name) /\ Len(p.name) <= MaxPortNameLength
    <3>1. PICK l \in listeners : p.name = SanitizePortName(Bytes[l.name])
      BY <2>7
    <3>2. Bytes[l.name] \in Seq(0 .. 255) /\ PlainName(Bytes[l.name])
      BY <2>5, <2>6, <2>8
    <3> QED BY <3>1, <3>2, SanitizedIsPlain
  <2> QED BY <2>3, <2>7, <2>8 DEF listeners
<1> QED BY <1>1, TypeCorrect, PTL
=============================================================================
