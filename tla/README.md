# multiway in TLA+

multiway is a Kubernetes Gateway API implementation in Rust. A control plane
watches GatewayClasses, Gateways and HTTPRoutes, reports on them in their
statuses, and publishes one ConfigMap per Gateway. A data plane process per
Gateway watches its ConfigMap, and its worker threads proxy HTTP by it.

This directory models them as state machines and as operators, checks them with
TLC and proves their safety properties with TLAPS. The two halves meet in the
ConfigMap: `Publication` says what the control plane writes to it, `ControlPlane`
when and in which order, `Schema` how it is read, `ProxyServer` what becomes of it
once it changes, `Routing` and `Filters` what a request gets by it, and
`UpstreamForward` how the request is answered.

| module | what it is |
| --- | --- |
| `ControlPlane` | the three controllers, the API server's objects, the users, the garbage collector |
| `ControlPlaneHistory` | `ControlPlane` with the history of what was attached |
| `Publication` | snapshots, validation, configuration, statuses and resources as operators on a cluster that users edit; the TLS of a listener |
| `Schema` | the two copies of the configuration schema: what is written, what is read |
| `ProxyServer` | the watcher, the ArcSwap, the worker threads, the clients |
| `HotReload` | the abstract specification that `ProxyServer` implements |
| `Routing` | conversion of HTTPRoute matches, and the scan of `route` |
| `Filters` | conversion and effect of filters, timeouts, redirects |
| `UpstreamForward` | the keep-alive loop, the forwarder, the connection pool, mirrors, timeouts, the WebSocket tunnel |
| `KeepAlive` | the abstract specification that `UpstreamForward` implements |
| `RouteConfig` | the routes of `Routing` with the filters of `Filters`, in the types of `Schema` |
| `ControlPlaneProofs` (with `ControlPlaneHistory`), `PublicationProofs`, `ProxyServerProofs`, `RoutingProofs` (with `RouteConfig`), `FilterProofs`, `UpstreamForwardProofs` | theorems |
| `SchemaProofs` | lemmas: each type of the configuration arrives as it was written |
| `DataLemmas` | lemmas: induction over numbers and sequences, recursive functions, folds |
| `MC*`, `*.cfg` | small instances for TLC |

`Publication` extends `Schema`; `RouteConfig` composes `Routing`, `Filters` and
`Schema` (to `Routing` a filter is only of a type, the constant `Filter`). The
other modules meet in values: the routes that a Gateway admits in `ControlPlane` are what `Verdict` of
`Publication` computes, a configuration of `ProxyServer` is one version of what it
publishes, a plan of `UpstreamForward` is what `Routing` and `Filters` make of a
request.

Paths below are under `crates/`; `reconcile.rs`, `validate.rs` and `snapshot.rs`
are in `controlplane/src/core/`, `fetcher.rs` and `executor.rs` in
`controlplane/src/shell/`, the controllers in `controlplane/src/controller/`.

## The system: components, state, operations

**GatewayClass, Gateway and HTTPRoute controllers** (`controller/*.rs`). One
kube-rs `Controller` each, all in one process (`reconciler.rs`). State: a work
queue, timers, and per object at most one reconcile in progress. A reconcile
fetches a snapshot, lets the pure core decide, executes the effects, and asks for
a requeue (minutes after success, five seconds after an error). They interact
through API objects alone: a status patch and a ConfigMap write of one triggers
others (or itself). *Hard*: reconciles of different objects interleave between
any two API calls, and two controllers write the same ConfigMap. *Correct when*:
no status or ConfigMap stays outdated without another reconcile being on its way,
observedGeneration does not go back, and everything settles.

**SnapshotFetcher** (`fetcher.rs`, `snapshot.rs`). No state; reads the object,
its class, parents, backends, grants and managed resources one call after the
other. Some failed calls end the reconcile, others are taken for absence. *Hard*:
snapshots of several moments, swallowed errors. *Correct when*: the errors this
makes are corrected later.

**Core: validation and reconciliation** (`reconcile.rs`, `validate.rs`). Pure
functions from a snapshot to effects. *Hard*: a route is accepted by its own
reconcile and published by its Gateway's; both write the ConfigMap, from different
snapshots; grants, Secrets and names of several namespaces. *Correct when*: what is
accepted is published, the two publishers agree, a grant only ever admits, and a
data plane gets its own Gateway's configuration as it was meant.

**Configuration schema** (`controller/config.rs`, `proxy-core/src/config.rs`). Two
copies of one schema kept alike by hand. *Correct when*: what one writes the other
reads as the same value.

**ReconcileExecutor** (`executor.rs`). Patches statuses first, then applies the
resources; ConfigMaps by get and replace with the resourceVersion just read.
*Hard*: the guard is read after the snapshot, a failure ends the list of effects,
a status patch has no precondition. *Correct when*: a failure leaves a status of
the present generation and a retry.

**ConfigMap watcher** (`dataplane/src/main.rs`). Loads the configuration once,
then lists and watches in a thread of its own and stores each ConfigMap that
parses into an `ArcSwap`. *Hard*: broken watches, lists that repeat, ConfigMaps
that do not parse. *Correct when*: the process never goes back to an older
configuration, and ends with the last good one.

**ProxyServer and its workers** (`proxy-core/src/server.rs`). Threads that share
the ArcSwap and the shutdown flag. Each has its own listening sockets
(SO_REUSEPORT), pipelines, pool, and the raw address of the configuration it runs.
An iteration: look at the flag, load the configuration, rebind and rebuild if its
address is another one, offer an accept to every listener, serving what comes.
*Hard*: configurations stored at any moment, address reuse, rebinds that fail,
connections that do not end, shutdown between any two steps. *Correct when*: each
worker adopts each newest configuration, a connection is served as the listener it
arrived at, nobody starves, shutdown ends.

**Connection pool and upstream forwarder** (`pool.rs`, `pipeline.rs`). Idle
backend connections by host; a request takes one or connects, forwards, and the
connection goes back when the response is dropped. *Hard*: stale connections,
timeouts that cancel in the middle, responses that are not read to their end,
mirrors. *Correct when*: an answer goes to the
request it belongs to, and each request has one answer or error.

**HTTP pipeline, WebSocket tunnel, routing, filters, TLS, transport**
(`pipeline.rs`, `routing.rs`, `filter.rs`, `tls.rs`, `transport.rs`). Sequential
per connection; routing and filters are pure. *Hard*: precedence between matches,
boundaries of path prefixes, hostname wildcards; filters implemented twice, once
with tests and once where they run; half-closed tunnels. *Correct
when*: the choice is the Gateway API's whatever the order of the ConfigMap.

**Transport, CLI, CRD types, deployment** are wrappers, I/O, generated code and
manifests.

`PROJECT.json` lists the components with their status and, under `hazards`, what
is hard to test in each, at its line.

## ControlPlane

### State and actions

The cluster is `class`, `gateway`, `route`, `backendUp` (what users write), `cm`,
`service` (what the controllers write) and the status subresources. An object has
an incarnation (its uid), a generation and a spec; a status or a ConfigMap carries
the incarnation and generation it was computed from. `readers[g]` holds the
reconciles that have read the ConfigMap of `g` since its last write, which is what
resourceVersion tells the API server. The controllers are `queue`, `timer` and a
task per object with the program counter and the part of the snapshot that later
steps use.

Each API call that can see or make a difference is an action:

| code | actions |
| --- | --- |
| `reconcile_gateway_class` | `ClassFetch`, `ClassPatch`, `ClassFetchFails`, `ClassPatchFails` |
| `reconcile_gateway`, fetch | `GwStart`, `GwGetClass`, `GwListRoutes`, `GwGetService`, `GwFetchFails` |
| `reconcile_gateway`, effects | `GwPatchStatus`, `GwReadConfigMap`, `GwWriteConfigMap`, `GwApply`, `GwEffectFails` |
| `reconcile_httproute`, fetch | `RtStart`, `RtGetParent`, `RtGetParentClass`, `RtGetBackends`, `RtFetchFails` |
| `reconcile_httproute`, effects | `RtPatchStatus`, `RtReadConfigMap`, `RtWriteConfigMap`, `RtEffectFails` |
| kube-rs runtime | `TimerFires`, `DropMissing`, `Dequeue` (in the `*Start` actions), the triggers in `GatewayEvent`, `StatusEvent`, `Put` |
| process | `CrashAndRestart` |
| users, cloud, garbage collector | `ApplyGateway`, `DeleteGateway`, `ApplyRoute`, `DeleteRoute`, `CreateClass`, `DeleteClass`, `ToggleBackend`, `AssignAddress`, `CollectConfigMap`, `CollectService` |

Abstractions, each with its reason:

* A Gateway spec is `[valid, admits]`: whether validation accepts its listeners,
  and which routes they, their namespace policy and the ReferenceGrants admit. The
  decision procedure is `ReconcileGateway` and `Verdict` of `Publication`.
* All Gateways share one GatewayClass. The class of a Gateway is absent, foreign,
  pending or accepted.
* The parents of a route are taken in any order, which includes the code's.
* A reconcile's dequeue and its first GET are one step: nothing is decided in
  between, and a change in between queues the key again.
* The address a Gateway reports is there or not (`service[g].addr`); nodes and
  DaemonSets are not told apart.
* A status patch changes the object unless it repeats what is there in the same
  second (the conditions carry the time); the budget `tick` bounds how often a
  repeat counts as a change. Attached-route counts are part of that.
* Budgets bound edits, faults, crashes, periodic requeues and ticks. The theorems
  hold for every budget.

### What is checked

| run | instance | shows |
| --- | --- | --- |
| `cp_lifecycle` | 1 Gateway, 1 route of the same name, 2 edits of any kind | `IInv`, `StatusFirst`, `GatewayStatusTracks`, `ConfigFollowsGateway`, `ObservedNeverRegresses`, `PublishedWasAttached` |
| `cp_siblings` | 2 routes; one edit, or a fault with a crash and a requeue | `LostRouteHeals`, `RouteStatusTracks` |
| `cp_settle` | 1 route with a backend, class pending or absent, an edit or a fault, endless requeues | `StatusesSettle`, `StaleRoutesLeave` |
| `cp_config_settles` | 2 routes; one requeue, or one repeated status patch a second later | `ConfigSettles` |
| `cp_flap` | 2 routes, no event | violated: `PublishedRouteStays` |

The bounds are the least at which the races exist: two edits suffice for
deletion and re-creation in the middle of a reconcile, two routes for siblings
that overwrite one another. No run has two Gateways: that a reconcile writing
several ConfigMaps one after the other keeps `LostRouteHeals` is proved
(`LostRoutesHeal`). Deadlock is not checked: once the budget is spent and everything is
reconciled, the model rightly stops.

The central concern is that both controllers write the Gateway's ConfigMap, and
the HTTPRoute controller writes one with nothing but its own route
(`reconcile.rs:1010-1024`). That makes published routes disappear (`cp_flap`).
`LostRouteHeals` says that whenever this has happened somebody is about to repair
it, and `ConfigSettles` that the repair comes to rest: the Gateway's reconcile,
which lists every route, has the last word, since its own ConfigMap write
triggers it but no route.

A snapshot is not of one point in time, although `snapshot.rs:15` says so: the
Gateway, its class and the routes are read in separate calls (`fetcher.rs:49-93`),
which are separate actions here. `GatewayStatusTracks`, `ConfigFollowsGateway` and
`PublishedWasAttached` say what holds nevertheless.

A divergence seen in the code that needs no run: the comment at
`controller/httproute.rs:62` promises that a change of a Gateway reconciles all
HTTPRoutes of its namespace, but the mapper returns the one HTTPRoute with the
Gateway's own name (`NameTwin` in the model). The other routes wait for the
periodic requeue, on which `StatusesSettle` depends.

Fairness (`FairSpec`): tokio polls each controller, so a reconcile that can go on
does; timers fire; the garbage collector runs. Users, clouds, faults and crashes
owe nothing. `cp_settle` leaves the periodic requeues unbounded, as they are in
the code; `cp_config_settles` bounds them, to look at what happens between two of
them five minutes apart.

### What is proved

For every set of Gateways, HTTPRoutes, backends and specs, any initial cluster
and any budget (assumptions `NameAssumption`, `SpecAssumption`,
`BudgetAssumption`: names are distinct, specs and budgets have their types):

* `TypeCorrect`: `[]TypeOK`;
* `InductiveInvariant`: `[]IInv`, and from it `StatusIsFirst`, `StatusesTrack`,
  `RouteStatusesTrack`, `ConfigFollowsSpec`, `LostRoutesHeal` and
  `ObservedMonotone`;
* `OnlyAttachedPublished`: `[]PublishedWasAttached`, of the specification with
  history.

`LostRouteHeals` is not inductive. The invariant adds: nothing mentions a version
that does not exist yet (`GwTaskPast`, `RoutesPast`), a reconcile that works on an
outdated object is followed by another (`GwTaskCurrent`), a Gateway reconcile whose
list lacks a route that the ConfigMap has was overtaken and will run again
(`ListNotOvertaken`), and for each accepted pair one of the controllers has the
route in the ConfigMap or on its way there (`AcceptedWillPublish`). The proof has
a lemma for each kind of step.

`PublishedWasAttached` has an invariant of its own (`HInv`): what a ConfigMap
mentions came from the list of a Gateway's reconcile, or from the reconcile of a
route that had the Gateway among the parents it is still to read or to write; so
these are attached, too. `ListSources`, `ConfigSources` and `InHandMoves` say where
each of them comes from in one step.

## Publication and Schema

### State and actions

The state is the cluster: Gateways, HTTPRoutes, Services, Secrets and
ReferenceGrants in several namespaces, which users create, change and delete one at
a time (`EditGateway`, `EditRoute`, `EditService`, `EditSecret`, `EditGrants`). What
the code does with it is pure, so it is a set of operators on the cluster of the
moment; that a reconcile is not of one moment is the subject of `ControlPlane`.

| code | definitions |
| --- | --- |
| `snapshot_for_gateway`, `snapshot_for_httproute`, `routes_for_gateway` | `GatewaySnapshot`, `RouteSnapshot`, `RoutesFor`, `Refers` |
| `validate_listeners`, `validate_parent_ref`, `validate_backend`, `find_matching_listeners`, `is_namespace_allowed`, `is_reference_allowed` | `ListenerReason`, `Verdict`, `BackendReason`, `MatchingListeners`, `Admits`, `Granted` |
| `resolve_listener_tls`, `build_gateway_config`, `convert_backend` | `ListenerTls`, `PublishedListener`, `PublishedRoute`, `GatewayConfig` |
| `reconcile_gateway`, `reconcile_httproute` | `ReconcileGateway`, `ReconcileHttpRoute` |
| `build_service`, `build_deployment`, `build_role`, `build_rolebinding`, `sanitize_port_name` | `Service`, `Deployment`, `Role`, `RoleBinding`, `SanitizePortName` |
| `build_tls_acceptor`, `build_server_config` (`tls.rs`) | `Terminates`, `Offered` |
| the serde attributes of the two `config.rs` | the `Write*` and `Read*` of `Schema` |

A listener's name is its bytes where the name of a port is made of it, and a model
value elsewhere; a Secret is a readable pair, an unreadable one or half a pair; of
the rules of a route only the backends are here. That Kubernetes RBAC and Service
selectors do what they say is `MayRead` and `Selects`, external to the repository.

`Schema` has for each type of the two copies the fields that are always written,
the ones that are left out when empty, the ones that must be there, the defaults and
the ranges. A value *arrives* if reading what was written of it gives it back.

### What is checked

`pb_publish`: two Gateways of one name in two namespaces and one of another, two
routes, two certificates, three grants, four objects at once: enough for a route, its
Gateway, its backend and a grant, or two Gateways that share what they should not.

* `AcceptedIsPublished`: what a route's reconcile reports, its Gateway's keeps.
* `PublishersAgree`: the route's snapshot leads to no other listeners and routes than
  the Gateway's, though each fetcher reads only what it thinks it needs.
* `GrantsOnlyAdmit`: a further ReferenceGrant takes nothing away.
* `ResolvedIsServed`: listeners with all references resolved are served with TLS,
  with the right certificate. This is of a snapshot that has the Secrets, as the
  tests of `reconcile.rs` build it: no fetcher reads any (see below).
* `PortsExposed`: every port once, under names that Kubernetes takes.
* `DataPlaneReadsItsConfig`: names, RBAC and labels lead each data plane to its own
  ConfigMap and to no other, and it reads that as it was meant.

Deadlock is checked: users can always edit.

### What is proved

For every cluster and all sets of keys, specs and grants (`TypesAssumption`: specs
have the types of the Gateway API; `NamesAssumption`: names made of different
Gateway names differ; `KeysAssumption`: there are finitely many routes, and what
users write refers to keys of the model): every invariant of the run.

* `TypeCorrect`, `PublicationsAgree`, `AcceptancePublished` and `GrantsAdmit`. The
  first is the only fact about the state that is needed: an object in a snapshot is
  the cluster's (`ParentFetched`, `GatewayFetched`, `BackendThere`), and the rest is
  about operators on any two snapshots. `GrantsAdmit` shows each of them monotone in
  the grants, from `Granted` up to the verdict.
* `ConfigIsItsOwn` (`[]DataPlaneReadsItsConfig`): names, Role and labels from
  `NamesAssumption`; that the configuration is read as it was meant from
  `SchemaProofs`, which has a lemma for each type of the schema, built from those of
  its parts, and from the types of what `GatewayConfig` builds.
* `ResolvedServed` (`[]ResolvedIsServed`): which certificates `ListenerTls` keeps,
  and what the resolver of `tls.rs` does with one and with several.
* `PortsAreServed` (`[]PortsExposed`): the hash of a name stays in 16 bits (induction
  over its bytes), so its digits and with them the sanitised name are legal; and each
  port is exposed once.

### Differences that no run is spent on

* A route that is refused is published all the same, and any route is attached to
  every listener, whatever its `sectionName` (`reconcile.rs:681`); so `AcceptedIsPublished`
  has no converse.
* A route is accepted, and its ConfigMap is written, although the Gateway's
  listeners are invalid: port 70000 is published as 4464 (`reconcile.rs:1010-1024`).
* No fetcher reads Secrets or ReferenceGrants for a Gateway (`fetcher.rs:49-93`), so
  `resolve_listener_tls` never finds a certificate (`reconcile.rs:568`), and an HTTPS
  listener without a usable one serves plain HTTP (`server.rs:338`).
* With several certificates there is no fallback for an unknown name, although
  `tls.rs:110-111` says that the first is one.
* Names of 15 bytes or fewer are not sanitised, and two long ones may have one hash
  (`reconcile.rs:792`). `PortsExposed` is stated for plain names.
* The data plane resolves a backend by its name without the namespace
  (`pipeline.rs`, `resolve(&backend.name)`).
* A route whose last parentRef is removed keeps its old statuses
  (`reconcile.rs:997`).

## ProxyServer

### State and actions

`configMap`, `events` and `watch` are the cluster's side: the present ConfigMap,
what an open watch has yet to deliver, and whether the watch is open. `store` is
the Arc in the ArcSwap. A worker is a record: its place in `worker_loop` (`pc`,
`at`), the Arcs it has (`first` is `current_config`, alive until the function
returns; `held` is `new_config`, dropped at the end of each iteration), the bare
address `config_ptr` (`ptr`), and the configurations its sockets and pipelines
come from (`bound`, `built`).

Arcs are on a heap: `[addr, config]`. `LiveArcs` are those somebody has; `Free`
are the addresses the allocator may return. `AddressReuse` says whether it may
return one that a worker still remembers without having its Arc.

| code | actions |
| --- | --- |
| `watch_configmap` | `Relist`, `HandleEvent`, `WatchBreaks` |
| `worker_loop` start (184-202) | `Start` |
| loop head (206-216) | `SeeShutdown`, `LoadConfig` |
| reload (217-236) | `Rebind`, `RebindFails` |
| accepts (241-279) | `Accept`, `AcceptNothing`, `ServeEnds` |
| end of iteration, drain (279-293) | `EndIteration`, `Return` |
| outside | `ChangeConfigMap`, `Connect`, `CloseSockets`, `SignalShutdown` |

Abstractions: each listener has its own port, called by its name; a TLS handshake
and all requests of a connection are one stay in the pipeline, which ends when
client or backend end it (`ServeEnds` is not fair); all listeners are bound in one
step, and the short-lived sockets of a bind that fails halfway are left out; the
50 ms timer and the 1 ms sleep are the possibility of `AcceptNothing`.
`AcceptNothing` with a connection waiting is a fault (an accept error).

### What is checked

| run | instance | shows |
| --- | --- | --- |
| `pw_reload` | 2 workers, 1 connection, 4 addresses, 1 change, 2 faults, any reuse of addresses | `TypeOK`, `IInv`, `FirstChangeDetected`, `ServedByItsListener`, and refinement of `HotReload` (`ReloadsForward`) |
| `pw_live` | 1 worker, 2 connections, lists of 0, 1 and 2 listeners, 1 fault, no reuse | `PipelinesCurrent`, `Converges`, `PendingIsTaken`, `ShutdownCompletes` |
| `pw_aba` | 1 worker, reuse, 3 versions | violated: `PipelinesCurrent` |

Versions start at 1, so `MaxVersion` 2 is one change and 3 is two. Workers share
nothing but the store, so two of them show all there is between workers; with two
listeners in one list and one in the other, a list can grow, shrink and move a
listener. Four addresses are enough for one new Arc however the others are held.
Workers and addresses are symmetric where only safety is checked. Deadlock is not
checked: after shutdown everything stops.

Where the code is not what it says:

* `pw_aba`: `server.rs:35-37` promises that workers detect changes, but a worker
  compares a raw address whose Arc it has dropped (`server.rs:213-229`). A later
  configuration allocated at that address is not adopted.
* Without a run: after a rebind that fails, old sockets and new pipelines are paired
  by position (`server.rs:222-251`), although `pipeline.rs:618` calls `listener_name`
  the listener a request arrived on; a connection is awaited in the accept loop
  (`server.rs:246-273`), although `server.rs:112` announces a task per connection;
  every reload replaces all sockets, changed or not (`server.rs:221`), and a rebind
  that failed is not tried again (`server.rs:228`); a configuration without listeners
  ends the workers for good (`server.rs:233`).

The passing runs therefore state their conditions. `PipelinesCurrent` and `Converges`
hold without address reuse, which neither the code nor the allocator promises: `pw_aba`
is what happens otherwise, and `FirstChangeDetected` what is left then, as
`current_config` (`server.rs:202`) keeps the configuration alive that a worker started
with. `Converges` promises the last configuration for the pipelines; the sockets have
it too as long as nothing has failed (`faults = MaxFaults`), for a bind that fails leaves
the old ones until another change. `ServedByItsListener` is about workers whose last
rebind has succeeded, and the liveness properties assume that connections come to an
end (`ClientsFinish`, the antecedent of each).

Fairness: worker threads and the watcher thread are scheduled (`WF` of
`WorkerStep(w)` and `WatcherStep`). Clients, backends and whoever sets the
shutdown flag owe nothing. The binary never sets it (`dataplane/src/main.rs:116-121`); the
flag is `ProxyServer::run`'s interface. `Converges` excepts workers that have
returned for good (a first bind that failed, a configuration without listeners).

### What is proved

For any workers, connections, listener lists, addresses, versions and faults
(`ServerAssumption`: constants have their types, `None` is none of them):

* `TypeCorrect`: `[]TypeOK`;
* `InductiveInvariant`: `[]IInv`;
* `FirstChangeIsDetected`: `[]FirstChangeDetected`, with address reuse too;
* `ServedAsItArrived`: `[]ServedByItsListener`;
* `ReloadRefinement`: `Spec => HotReload!Spec` under the mapping of the newest
  version to the stored one and of each running version to that of the worker's
  pipelines. It needs no assumption on address reuse: ABA makes a worker miss a
  configuration, never go back.

The invariant relates the parts: equal addresses of live Arcs mean equal
configurations (`AddressesUnique`), events are in version order between the store
and the ConfigMap (`EventsInOrder`), a worker is behind the Arc it holds, which is
behind the store (`NeverAhead`), it holds at most one (`HoldsOne`), a connection
in service is the one accepted at this place of the loop (`InPlace`), and, without
reuse, the remembered address is that of no other configuration
(`PointerAgrees`). The proof first shows that a worker's step does one of four
things with its Arcs (`WorkerMoves`: keeps, takes, loads, rebuilds), and then
needs only those.

## Routing

### State and actions

`route` (`proxy-core/src/routing.rs:80-115`) is a pure function with three nested
loops, over routes, rules and matches. `Routing` has a step for each turn: `at` is
where the loops are, `ruleBest` and `best` the two variables of that name and
kind (`best` of `rule_matches` and of `route`), `outcome` what is returned.

| code | definitions |
| --- | --- |
| `route`: skip a route, take a candidate, decide | `SkipRoute`, `EndRule`, `EndRoute`, `Decide` |
| `rule_matches` | `TryMatch`, `Returned` |
| `single_match_applies`, `path_matches`, `prefix_path_matches` | `MatchApplies`, `PathMatches`, `PrefixPathMatches` |
| `header_matches`, `query_param_matches` | `ConditionHolds` |
| `hostname_matches` | `HostnameMatches`, `HostMatches` |
| `MatchPrecedence`, `precedence_beats` | `Precedence`, `PrecedenceBeats` |
| `build_decision` | `Decision` |
| `convert_httproute_to_config`, `convert_rule`, `convert_match`, `convert_path_match` (`controller/httproute.rs`) | `ConvertHttpRoute`, `ConvertRule`, `ConvertMatch`, `ConvertPath` |

Paths are sequences of characters, since where a prefix ends is the question;
hosts are sequences of labels without port; header and parameter values are
names, regular expressions the set of pairs that match. What differs in case only
is one value where the code ignores case.

`Filters` has the conversion of filters and timeouts, and each effect twice: as the
pipeline and the router of the data plane have it, and as the functions of
`filter.rs` have it, which are the ones with tests. Header values are sequences of
words, so that a host can lose its port.

`RouteConfig` says of which types both are: an HTTPRoute's filters with any of their
optional parts missing, and the filters, matches, backends and timeouts of the
configuration, which must arrive. It also compares the two sides of `Filters`
(`FiltersAsTested`), since what a filter does depends on the request and on the path of
the match. Text that nobody looks into is of the constant set
`Texts`, which the run takes to be `STRING`.

### What is checked

| run | instance | shows |
| --- | --- | --- |
| `rt_scan` | tables of one converted HTTPRoute with two rules (paths of each type, methods, headers, parameters, filters of each type), of two with hostnames and listeners, and some that the control plane would not write; 15 requests, some with doubled slashes; four replacements of prefixes | `IInv`, `ChosenIsFirstBest`, `MoreSpecificWins`, `PrefixByElements`, `FiltersAsTested`, `RoutesArrive` |

Two rules show every comparison, since the scan keeps one candidate; the
theorems cover longer tables. Deadlock is not checked: the function returns.
`ChosenIsFirstBest` says what the scan finds without the scan.
`MoreSpecificWins` does not mention the precedence: a match that adds conditions
to another (a canary by header, say) wins wherever the two stand.
`PrefixByElements` compares the character arithmetic of `prefix_path_matches`
with prefixes of lists of path elements, `Elements`, which is made one character after
the other.
`FiltersAsTested` says that what runs does what is tested, with the differences below
excepted; that a request with a host is sent with one; and that where a prefix of the
chosen rule is replaced, the elements of the path are those of the replacement and then
those after the prefix (`PrefixReplaced`): no slash is doubled or missing, which is what
the comment of `replace_prefix` says (`filter.rs:322`).
`RoutesArrive` is the schema's part for routes.

Differences that the model shows and no run is spent on:

* the Gateway API prefers a route with an exact hostname to one with a wildcard
  (`.crds/v1.2.1/http.yml:102-107`); `MatchPrecedence` has no hostname
  (`routing.rs:178`), so path lengths decide;
* a wildcard stands for one label, not several (`routing.rs:171-175`,
  `http.yml:87-89`); a prefix that ends in a slash does not match the path without it
  (`PrefixByElements` excepts it; `http.yml:763`); ties go to the first route of the
  ConfigMap, not to the oldest (`http.yml:2145`);
* `ReplacePrefixMatch` panics in the pipeline (`filter.rs:96`; a known limitation,
  `tests/e2e_filters.rs:251-255`), and a rewritten path loses its query;
* a redirect looks neither at the query nor at the matched prefix, and writes a
  standard port (`routing.rs:418`, against `filter.rs:129`);
* a header that a request has twice, and that a filter sets, is there once in the
  pipeline and twice, with the new value, in `filter.rs` (`pipeline.rs:797`,
  `filter.rs:279-284`);
* where the prefix ends in a slash and another follows, as in `//a` with the prefix `/`,
  `replace_prefix` joins at the second, and the empty element between them is lost
  (`Join` excepts this from `PrefixReplaced`);
* durations in milliseconds, or of several units, become no timeout at all
  (`httproute.rs:439`).

### What is proved

For every set of tables and requests of their types (`RoutingAssumption`) and
every meaning of regular expressions, in `RoutingProofs` and, for the last two, in
`FilterProofs`:

* `TypeCorrect`: `[]TypeOK`;
* `InductiveInvariant`: `[]IInv`, the invariants of the three loops
  (`LoopsInRange`, `RuleBestIsBest`, `BestIsFirstBest`, `DecisionOfBest`);
* `ChoosesFirstBest`: `[]ChosenIsFirstBest`;
* `SpecificMatchesWin`: `[]MoreSpecificWins`;
* `PrefixesMatchByElements`: `[]PrefixByElements`;
* `RoutesArriveWhole`: `[]RoutesArrive`;
* `FiltersAreTyped`: whatever an HTTPRoute's filters are, `ConvertFilters` makes
  filters of the type that `RoutesArriveWhole` is about;
* `FiltersDoAsTested`: `[]FiltersAsTested`, for filters of any number and content in any
  order, any headers of the request, any prefix and any replacement.

The proofs rest on precedences being ordered lexicographically: beating is
asymmetric (`BeatsAsymmetric`), what does not beat b is beaten by what beats b
(`BeatsWeakly`), and a match that refines another beats it (`RefiningBeats`).

`PrefixesMatchByElements` is by induction over the characters. Two paths that begin
alike have the same elements so far (`SameBeginning`), and as a path grows these stay,
but for the last, which may grow (`ElementsStay`). If the characters of the prefix
begin the path and a slash or the end follows, its elements are therefore those of the
path. Conversely the first character in which the two differ makes a difference to the
element it is in, and so does one that follows the prefix and is no slash
(`NextCharacter`). Path and prefix begin with a slash (`Absolute`), as HTTP and the
API's validation have it; others are outside the property.

`RoutesArriveWhole` puts the lemmas of `SchemaProofs` together for each part of a
rule. It assumes `RouteConfigAssumption` (the filters and backends of the tables have
their types); `FilterListsAssumption` of `MCRouting` ties the run's HTTPRoutes to
`FiltersAreTyped`. A port or status out of range is cut to 16 bits, as the cast does
(`CastInRange`).

`FiltersDoAsTested` follows from the chosen rule being one of the table's
(`InductiveInvariant`) and from four lemmas about any rule and filters.

* `HeadersAreAsTested`: the headers are a function in the pipeline and a list in
  `filter.rs`, and both are changed one modification after the other, so they are
  compared name by name. Each recursive function of `Filters` is a fold (`InsertAllFolds`
  and others), and by induction over the list of modifications it has a closed form:
  the values of a name are what is left of them, or the last usable one that is set, and
  then those that are added (`InsertAllGives`, `AppendAllGives`, `SetAllGives`,
  `RetainedGives`). In the list this needs the name to have one value at most before it is
  set: the exception in `HeadersAsTested` is the condition of the proof, and not wider.
  That the list of a request's headers has the values of the function (`ListOfIs`) takes
  `HeaderNamesAssumption` (finitely many names, the host's one of them), and that each
  name has finitely many values, of `RouteConfigAssumption`.
* `RedirectIsAsTested`, by the definitions.
* `HostIsSent`: whatever is removed, there is a host in the end, since the pipeline puts
  the one of the request back.
* `PrefixesAreReplaced`: the elements of one path after another are all that the first
  has built up and then those of the second (`BuiltTogether`, by induction over the
  second). So they can be taken apart where the prefix ends and put together with those
  of the replacement, whether a slash is dropped, added or neither (`JoinedElements`);
  what follows a prefix that matches is nothing, or begins with a slash, or the prefix is
  `/` (`Remains`). `PrefixReplaced` is about
  replacements that begin with a slash, as the paths they become part of do.

## UpstreamForward

### State and actions

One worker serves one client connection after the other (`session`, `request`,
`plan`, `reply`); it and its mirror tasks run `forward_via_codec` (`pc`, `job`,
`using`, `took`) over connections to backends, whose two ends are in the state: what
the backend has yet to answer (`inbox`, `owed`) and what nobody has read (`stream`).
`idle` is the pool. The code cannot see which request a response answers; the model
can.

| code (`pipeline.rs`, `pool.rs`) | definitions |
| --- | --- |
| `HttpCoreService`: keep-alive loop | `AcceptClient`, `ReadHead`, `TakeRequest`, `Reply`, `Hangup` |
| `select_backend` | `SelectBackend` |
| connect | `ConnectNew`, `ConnectFails` |
| `forward_via_codec` | `Send`, `BrokenPipe`, `ReadResponse`, `BadResponse`, `ReadOnly`, `ReadPiece`, `ReadBody`, `BodyCutShort`, `ReadTimeout` |
| HTTP/2 backends | `Http2`, `Http2Timeout` |
| request timeout of the rule | `RequestTimeout` |
| mirrors | `Spawned`, and the same actions for another task |
| `handle_websocket_upgrade`, the tunnel | `Upgrade`, `UpgradeConnects`, `UpgradeAnswered`, `LastReply`, `SourceEnds`, `SinkFails`, `TunnelOver` |
| outside: the pool of `monoio-transports` | `ReuseIdle`, `GiveBack`, `Room`, `Keep`, `Drop` |
| outside: backends and peers | `Respond`, `RespondPiece`, `RespondBody`, `BackendCloses`, `SideCloses` |

Connections that have closed for good free their slot of the model; a codec that is
dropped may have read ahead, so what is left in a stream is any suffix of it; the
model keeps of heads and bodies which request they answer, and a body comes in any number
of pieces (those that nobody has read are one). A request has one response: interim 1xx
responses are not modelled, and what is said of answers rests on that. Of a request that
is dropped half-written the model only knows that its connection is `cut`.

The rules of the pool are those of `monoio-transports`, assumed from how the code uses
it: a dropped `Pooled` comes back, there is a limit per address (the code gives the
number, and no property is about it), any idle connection to an address is handed out.
`is_open` (`pool.rs:53`) does not look at the socket.

### What is checked

| run | instance | shows |
| --- | --- | --- |
| `uf_exchange` | one worker, one mirror task, two backends, three connections, a pool of one per address, two requests, one fault; a plan for each way through the code | `IInv` (with `Exclusive`: a connection is in one hand), `OwnAnswerUnlessCut`, `FairShare`, `KeepsPromise` (refinement of `KeepAlive`), `AnsweredInTime`, `SilentBackendIsLeft`, `TunnelEnds` |
| `uf_mixup` | two requests to one backend with a request timeout | violated: `OwnAnswer` |

Two requests are the least for one to meet what another left behind; three
connections let the worker and the mirror hold one each with one in the pool. Deadlock
is checked in both: a worker can always take the next client.

`uf_mixup` is the reason for the condition in `OwnAnswerUnlessCut`: a request that
times out, or whose response is bad, gives its connection back with the answer still
to come (`pipeline.rs:1151`, `876-903`), and the next request over it reads that
answer as its own. `cut` marks those connections; with one response per request no other
is ever mixed up.

Fairness: the runtime runs a task whose connection has something to read (`ReadStep`)
and fires timers that are due (`RequestTimeout`, `Http2Timeout`, and those of reads in
`ReadStep`). `ConnectNew` and `Send` are not fair: a backend that does not accept, or
does not read what it is sent, blocks them for as long as it likes, and backends and
clients owe nothing. So:

* `AnsweredInTime` is about the two timeouts that limit all of a call: that of the
  request (`pipeline.rs:1149`), and that of the backend over HTTP/2 (`937`).
* Over HTTP/1 the timeout of the backend is one of each read. `SilentBackendIsLeft` says
  what that gives: in a call with it, once the request is sent, a backend keeps the worker
  only by sending again and again. The connect (`737`), the write (`882-889`) and a body that
  trickles in (`910`) stay unlimited, although the comment says that "slow upstreams
  are cut off after the specified duration" (`869-870`).
* `TunnelEnds` is about tunnels that both sides have closed: with one side closed the
  worker waits on, although `pipeline.rs:408` says otherwise.

Without a run: a body that breaks off is passed on as a whole response with status
200 (`pipeline.rs:910`); a stale connection of the pool is not retried, although
`pool.rs:51` asks for it; writing to the client has no timeout (`pipeline.rs:1275`); a
mirror task has none either, and nothing bounds how many there are (`pipeline.rs:720`).

### What is proved

For all plans, connections, mirrors and bounds (`NameAssumption`, `PlanAssumption`,
`BoundAssumption`): `TypeInvariant`, `Invariant` (`[]IInv`),
`ConnectionsExclusive`, `AnswersMatch`, and `PromiseKept`: the
worker implements `KeepAlive`. The invariant adds to the properties what may be under
way on a connection that was never given back early (`Clean`): nothing while it is in
the pool or before the request is sent, then at most the one response to it, whose body
may be read in part.

`SelectionIsFair` (`[]FairShare`): for any backends and weights, a backend is selected
by as many of the random numbers as its weight. The sums of the weights are a
recursive function; by induction it grows, so that the numbers fall into one interval
for each backend (`SelectedInShare`). `SelectsOne` says besides that each number
selects a backend whose weight is not 0: the code after the loop of `select_backend`
is never reached. The sum is one of natural numbers: the weights that the API server
admits (16 of at most 1000000) cannot overflow the `u32` of the code.

## Only model-checked

Liveness under fairness (`StatusesSettle`, `StaleRoutesLeave`, `ConfigSettles`,
`Converges`, `PendingIsTaken`, `ShutdownCompletes`, `AnsweredInTime`,
`SilentBackendIsLeft`, `TunnelEnds`) is outside the prover's reach. `PipelinesCurrent` is
only checked: without its assumption on the allocator it is false. Every other
property of the passing runs is a theorem.

Induction over data is done without the library's induction theorems, whose operator
parameters the provers cannot instantiate: `DataLemmas` states it for a set instead of
a predicate (`Least`, `UpTo`, `SeqInduction`), and shows that a recursive function exists
(`Recursive`), which a recursive definition alone does not tell the prover. A fold over a
sequence takes its operation as a function there, and is known by what it makes of the
empty sequence and of one that is an element longer (`FoldedNone`, `FoldedAppend`).

## Not modelled

* `transport.rs`, the generated CRD types, manifests, scripts and CI: no behaviour of
  their own.
* Flags, logging and the `gateway` subcommand of the CLI; the secrets and unused
  effects of the executor. Deployment, Service and DaemonSet are one write.
* Leader election is configured but never read (`context.rs:56`); one replica is
  modelled, as `deploy/` starts it.
* That statuses carry the current time (`reconcile.rs:449`), so that a reconcile can
  trigger itself a second later, is a budget of `ControlPlane` (`tick`); how often
  that happens is timing.
* Codecs, TLS handshakes, regular expressions and DNS: external, by their outcome.
* Contents of bodies, access logs and metrics.

## What is left

1. **Composition** of the two halves in one specification: an HTTPRoute's version
   travels from the API server through the ConfigMap to a worker; under fairness an
   accepted route is eventually served by each running worker, and a deleted one no
   longer is. Today the halves are tied by `DataPlaneReadsItsConfig`, `RoutesArrive`
   and the values they share.
2. Several workers with one pool each need nothing new: pools are per worker
   (`pool.rs`). A pool shared by workers would.
3. **Proof** of the operators of `Filters` against what the Gateway API says of them,
   where the code is to follow it and not its own tests: with the differences above
   corrected, `FiltersAsTested` would lose its exceptions and could be that statement.
