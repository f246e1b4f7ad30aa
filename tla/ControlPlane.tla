----------------------------- MODULE ControlPlane -----------------------------
(***************************************************************************)
(* The control plane of multiway: the GatewayClass, Gateway and HTTPRoute  *)
(* controllers, which run concurrently against one Kubernetes API server.  *)
(*                                                                         *)
(* A reconcile of an object is a sequence of API calls, each an action:    *)
(* the fetcher reads the objects of its snapshot one after the other, the  *)
(* pure core decides, and the executor patches the status, then gets and   *)
(* replaces the ConfigMap, then applies the other resources.  Between two  *)
(* calls the users, the other controllers and the garbage collector run.   *)
(*                                                                         *)
(* Failures covered: an API call that fails, a read whose failure the code *)
(* swallows as "not found", a crash and restart of the control plane       *)
(* between any two calls.  Objects may be deleted and created again under  *)
(* the same name.                                                          *)
(*                                                                         *)
(* Data is abstracted: a Gateway spec says whether its listeners are valid *)
(* and which routes they admit (listener match, namespace policy, grants), *)
(* an HTTPRoute spec names its parents and its backends, and a route in a  *)
(* ConfigMap is the version of the HTTPRoute it was converted from.        *)
(***************************************************************************)
EXTENDS Naturals, FiniteSets

CONSTANTS
    Gateways,      \* names of Gateways
    Routes,        \* names of HTTPRoutes
    Backends,      \* names of the Services that HTTPRoutes may reference
    ClassKey,      \* the work-queue key of the one GatewayClass
    GatewaySpecs,  \* the Gateway specs users apply
    RouteSpecs,    \* the HTTPRoute specs users apply
    NameTwin,      \* the HTTPRoutes with the name and namespace of a Gateway
    Preexisting,   \* the Gateways and HTTPRoutes that exist at the start
    FirstClasses,  \* what the GatewayClass may be at the start
    Budgets,       \* bounds on edits, faults, crashes, resyncs and clock ticks
    Bounded        \* the kinds of events that a budget bounds

Kinds == {"edit", "fault", "crash", "resync", "tick"}

ASSUME NameAssumption ==
    /\ Gateways \cap Routes = {}
    /\ ClassKey \notin Gateways \cup Routes
    /\ NameTwin \in [Gateways -> SUBSET Routes]
    /\ Preexisting \subseteq Gateways \cup Routes
    /\ FirstClasses \subseteq {"absent", "foreign", "pending", "accepted"}

ASSUME SpecAssumption ==
    /\ GatewaySpecs \subseteq [valid : BOOLEAN, admits : SUBSET Routes]
    /\ GatewaySpecs # {}
    /\ RouteSpecs \subseteq [parents : SUBSET Gateways, backends : SUBSET Backends]
    /\ RouteSpecs # {}

ASSUME BudgetAssumption ==
    /\ Budgets \subseteq [Kinds -> Nat]
    /\ Bounded \subseteq Kinds

VARIABLES
    \* --- the cluster ---
    class,        \* the GatewayClass, with its Accepted condition
    gateway,      \* the Gateways: incarnation (uid), generation, spec
    route,        \* the HTTPRoutes: incarnation (uid), generation, spec
    backendUp,    \* the backend Services that exist
    cm,           \* the ConfigMap of each Gateway
    readers,      \* who holds the current resourceVersion of a ConfigMap
    service,      \* the data-plane Service of each Gateway
    gwStatus,     \* status subresource of each Gateway
    rtStatus,     \* status subresource of each HTTPRoute
    \* --- the controllers ---
    queue,        \* keys whose reconcile is due
    timer,        \* the requeue each finished reconcile asked for
    classPc,      \* progress of the GatewayClass reconcile
    gwTask,       \* progress and snapshot of each Gateway reconcile
    rtTask,       \* progress and snapshot of each HTTPRoute reconcile
    \* --- bounds ---
    left          \* what is left of the budget

world == <<class, gateway, route, backendUp>>
owned == <<cm, readers, service>>
statuses == <<gwStatus, rtStatus>>
control == <<queue, timer, classPc, gwTask, rtTask>>
vars == <<world, owned, statuses, control, left>>

-----------------------------------------------------------------------------
(* Objects.  A dead object has generation 0, an absent ConfigMap or Service *)
(* has owner 0; incarnations start at 1 and are never used twice.           *)

Keys == Gateways \cup Routes \cup {ClassKey}

Version == Nat \X Nat
NoVersion == <<0, 0>>
Ver(o) == <<o.inc, o.gen>>
Live(o) == o.gen > 0

ClassStates == {"absent", "foreign", "pending", "accepted"}

GatewayObjects == [inc : Nat, gen : Nat, spec : GatewaySpecs]
RouteObjects == [inc : Nat, gen : Nat, spec : RouteSpecs]
ConfigMaps == [owner : Nat, gen : Nat, routes : [Routes -> Version]]
Services == [owner : Nat, addr : BOOLEAN]
GwStatuses == [inc : Nat, gen : Nat, accepted : BOOLEAN, programmed : BOOLEAN]
RtStatuses == [inc : Nat, gen : Nat, accepted : SUBSET Gateways]

\* The HTTPRoutes the API server lists for a Gateway: those with a parentRef to it.
RoutesForGateway(g) ==
    [r \in Routes |-> IF Live(route[r]) /\ g \in route[r].spec.parents
                      THEN Ver(route[r]) ELSE NoVersion]

\* A config built from a snapshot that holds no route but r.
OnlyRoute(r, v) == [q \in Routes |-> IF q = r THEN v ELSE NoVersion]

NoGateway == [inc |-> 0, gen |-> 0, spec |-> CHOOSE s \in GatewaySpecs : TRUE]
NoRoute == [inc |-> 0, gen |-> 0, spec |-> CHOOSE s \in RouteSpecs : TRUE]
NoConfigMap == [owner |-> 0, gen |-> 0, routes |-> [r \in Routes |-> NoVersion]]
NoService == [owner |-> 0, addr |-> FALSE]
NoGwStatus == [inc |-> 0, gen |-> 0, accepted |-> FALSE, programmed |-> FALSE]
NoRtStatus == [inc |-> 0, gen |-> 0, accepted |-> {}]

-----------------------------------------------------------------------------
(* Reconcile tasks. *)

GwPcs == {"idle", "class", "list", "service",
          "status", "read", "write", "apply"}
RtPcs == {"idle", "parents", "class", "status", "read", "write"}

GwTasks == [pc : GwPcs, inc : Nat, gen : Nat, valid : BOOLEAN, accepted : BOOLEAN,
            routes : [Routes -> Version], addr : BOOLEAN, seen : BOOLEAN]

RtTasks == [pc : RtPcs, inc : Nat, gen : Nat, needs : SUBSET Backends,
            accepted : BOOLEAN, todo : SUBSET Gateways, okay : SUBSET Gateways,
            found : [Gateways -> Version], target : SUBSET Gateways,
            seen : BOOLEAN]

IdleGw == [pc |-> "idle", inc |-> 0, gen |-> 0, valid |-> FALSE,
           accepted |-> FALSE, routes |-> [r \in Routes |-> NoVersion],
           addr |-> FALSE, seen |-> FALSE]

IdleRt == [pc |-> "idle", inc |-> 0, gen |-> 0, needs |-> {},
           accepted |-> FALSE, todo |-> {}, okay |-> {}, found |-> [g \in Gateways |-> NoVersion],
           target |-> {}, seen |-> FALSE]

\* Occurrences of the bounded kinds of events are counted, the others are free.
Spend(k) == IF k \in Bounded
            THEN left[k] > 0 /\ left' = [left EXCEPT ![k] = @ - 1]
            ELSE UNCHANGED left

Trigger(keys) == queue' = queue \cup keys

\* A bug: the Gateway controller listens to its owned objects only.
GatewayEventMissed(g) == NameTwin[g]

\* Every event on a Gateway reaches its own controller and, through the mapper of
\* the HTTPRoute controller, the HTTPRoute with the Gateway's own name.
GatewayEvent(g) == {g} \cup NameTwin[g]

\* A reconcile takes its key off the queue; kube-rs never runs a key twice at once.
Dequeue(k) ==
    /\ k \in queue
    /\ queue' = queue \ {k}
    /\ timer' = [timer EXCEPT ![k] = "none"]

EndGw(g, t) ==
    /\ gwTask' = [gwTask EXCEPT ![g] = IdleGw]
    /\ timer' = [timer EXCEPT ![g] = t]

EndRt(r, t) ==
    /\ rtTask' = [rtTask EXCEPT ![r] = IdleRt]
    /\ timer' = [timer EXCEPT ![r] = t]

\* A status patch always carries the current time in seconds: the object changes,
\* and its watch fires, when the rest differs or the second has.
StatusEvent(changed, keys) ==
    \/ changed /\ Trigger(keys) /\ UNCHANGED left
    \/ ~changed /\ UNCHANGED <<queue, left>>
    \/ ~changed /\ Spend("tick") /\ Trigger(keys)

-----------------------------------------------------------------------------
(* Users and the rest of the cluster. *)

\* An update of an object increments its generation; one that is created starts anew.
NextVersion(o, s) ==
    IF Live(o) THEN [inc |-> o.inc, gen |-> o.gen + 1, spec |-> s]
               ELSE [inc |-> o.inc + 1, gen |-> 1, spec |-> s]

ApplyGateway(g, s) ==
    /\ Spend("edit")
    /\ gateway' = [gateway EXCEPT ![g] = NextVersion(gateway[g], s)]
    /\ gwStatus' = [gwStatus EXCEPT ![g] = IF Live(gateway[g]) THEN @ ELSE NoGwStatus]
    /\ Trigger(GatewayEvent(g))
    /\ UNCHANGED <<class, route, backendUp, owned, rtStatus,
                   timer, classPc, gwTask, rtTask>>

\* The deletion of a Gateway reaches the mapper of the HTTPRoute controller only.
DeleteGateway(g) ==
    /\ Spend("edit")
    /\ Live(gateway[g])
    /\ gateway' = [gateway EXCEPT ![g] = [NoGateway EXCEPT !.inc = gateway[g].inc]]
    /\ gwStatus' = [gwStatus EXCEPT ![g] = NoGwStatus]
    /\ Trigger(NameTwin[g])
    /\ UNCHANGED <<class, route, backendUp, owned, rtStatus,
                   timer, classPc, gwTask, rtTask>>

ApplyRoute(r, s) ==
    /\ Spend("edit")
    /\ route' = [route EXCEPT ![r] = NextVersion(route[r], s)]
    /\ rtStatus' = [rtStatus EXCEPT ![r] = IF Live(route[r]) THEN @ ELSE NoRtStatus]
    /\ Trigger({r})
    /\ UNCHANGED <<class, gateway, backendUp, owned, gwStatus,
                   timer, classPc, gwTask, rtTask>>

\* Controller::new listens to applied objects only: a deletion queues nothing.
DeleteRoute(r) ==
    /\ Spend("edit")
    /\ Live(route[r])
    /\ route' = [route EXCEPT ![r] = [NoRoute EXCEPT !.inc = route[r].inc]]
    /\ rtStatus' = [rtStatus EXCEPT ![r] = NoRtStatus]
    /\ UNCHANGED <<class, gateway, backendUp, owned, gwStatus, control>>

\* controllerName is immutable: a GatewayClass changes hands by delete and create.
CreateClass(c) ==
    /\ Spend("edit")
    /\ class = "absent"
    /\ class' = c
    /\ Trigger({ClassKey})
    /\ UNCHANGED <<gateway, route, backendUp, owned, statuses,
                   timer, classPc, gwTask, rtTask>>

DeleteClass ==
    /\ Spend("edit")
    /\ class # "absent"
    /\ class' = "absent"
    /\ UNCHANGED <<gateway, route, backendUp, owned, statuses, control>>

\* No controller watches the backend Services.
ToggleBackend(b) ==
    /\ Spend("edit")
    /\ backendUp' = IF b \in backendUp THEN backendUp \ {b} ELSE backendUp \cup {b}
    /\ UNCHANGED <<class, gateway, route, owned, statuses, control>>

\* The load balancer gives the data-plane Service an address.
AssignAddress(g) ==
    /\ service[g].owner > 0
    /\ ~service[g].addr
    /\ service' = [service EXCEPT ![g].addr = TRUE]
    /\ Trigger({g})
    /\ UNCHANGED <<world, cm, readers, statuses, timer, classPc, gwTask, rtTask, left>>

Orphan(g, owner) == owner > 0 /\ ~(Live(gateway[g]) /\ gateway[g].inc = owner)

\* The garbage collector removes what belongs to a Gateway that is gone.
CollectConfigMap(g) ==
    /\ Orphan(g, cm[g].owner)
    /\ cm' = [cm EXCEPT ![g] = NoConfigMap]
    /\ readers' = [readers EXCEPT ![g] = {}]
    /\ Trigger({g})
    /\ UNCHANGED <<world, service, statuses, timer, classPc, gwTask, rtTask, left>>

CollectService(g) ==
    /\ Orphan(g, service[g].owner)
    /\ service' = [service EXCEPT ![g] = NoService]
    /\ Trigger({g})
    /\ UNCHANGED <<world, cm, readers, statuses, timer, classPc, gwTask, rtTask, left>>

-----------------------------------------------------------------------------
(* The work queue. *)

TimerFires(k) ==
    /\ timer[k] # "none"
    /\ IF timer[k] = "late" THEN Spend("resync") ELSE UNCHANGED left
    /\ timer' = [timer EXCEPT ![k] = "none"]
    /\ Trigger({k})
    /\ UNCHANGED <<world, owned, statuses, classPc, gwTask, rtTask>>

\* A key whose object is not in the reflector's store is not reconciled.
DropMissing(k) ==
    /\ \/ k = ClassKey /\ class = "absent" /\ classPc = "idle"
       \/ k \in Gateways /\ ~Live(gateway[k]) /\ gwTask[k].pc = "idle"
       \/ k \in Routes /\ ~Live(route[k]) /\ rtTask[k].pc = "idle"
    /\ Dequeue(k)
    /\ UNCHANGED <<world, owned, statuses, classPc, gwTask, rtTask, left>>

\* The process stops between any two calls; the new one lists everything.
CrashAndRestart ==
    /\ Spend("crash")
    /\ queue' = {g \in Gateways : Live(gateway[g])} \cup {r \in Routes : Live(route[r])}
                \cup (IF class = "absent" THEN {} ELSE {ClassKey})
    /\ timer' = [k \in Keys |-> "none"]
    /\ classPc' = "idle"
    /\ gwTask' = [g \in Gateways |-> IdleGw]
    /\ rtTask' = [r \in Routes |-> IdleRt]
    /\ readers' = [g \in Gateways |-> {}]
    /\ UNCHANGED <<world, cm, service, statuses>>

-----------------------------------------------------------------------------
(* The GatewayClass controller. *)

ClassFetch ==
    /\ classPc = "idle"
    /\ class # "absent"
    /\ ClassKey \in queue
    /\ queue' = queue \ {ClassKey}
    /\ IF class = "foreign"
       THEN classPc' = "idle" /\ timer' = [timer EXCEPT ![ClassKey] = "late"]
       ELSE classPc' = "patch" /\ timer' = [timer EXCEPT ![ClassKey] = "none"]
    /\ UNCHANGED <<world, owned, statuses, gwTask, rtTask, left>>

\* The status is patched by name, whatever has become of the class meanwhile.
ClassPatch ==
    /\ classPc = "patch"
    /\ class # "absent"
    /\ classPc' = "idle"
    /\ class' = IF class = "foreign" THEN class ELSE "accepted"
    /\ timer' = [timer EXCEPT ![ClassKey] = "late"]
    /\ StatusEvent(class # "accepted", {ClassKey})
    /\ UNCHANGED <<gateway, route, backendUp, owned, statuses, gwTask, rtTask>>

ClassFetchFails ==
    /\ classPc = "idle"
    /\ class # "absent"
    /\ Spend("fault")
    /\ ClassKey \in queue
    /\ queue' = queue \ {ClassKey}
    /\ timer' = [timer EXCEPT ![ClassKey] = "soon"]
    /\ UNCHANGED <<world, owned, statuses, classPc, gwTask, rtTask>>

ClassPatchFails ==
    /\ classPc = "patch"
    /\ IF class = "absent" THEN UNCHANGED left ELSE Spend("fault")
    /\ classPc' = "idle"
    /\ timer' = [timer EXCEPT ![ClassKey] = "soon"]
    /\ UNCHANGED <<world, owned, statuses, queue, gwTask, rtTask>>

-----------------------------------------------------------------------------
(* The create-or-replace of a ConfigMap: the get remembers whether it exists *)
(* and its resourceVersion; the API server refuses a replace of any other    *)
(* version, and a create of what exists.  Equal content changes nothing.     *)

PutSucceeds(p, g, seen) ==
    IF seen THEN cm[g].owner > 0 /\ p \in readers[g] ELSE cm[g].owner = 0

\* A bug: the Gateway controller does not own its ConfigMap.
PutUnwatched(p, g, new) ==
    /\ cm' = [cm EXCEPT ![g] = new]
    /\ readers' = [readers EXCEPT ![g] = IF new = cm[g] THEN @ \ {p} ELSE {}]
    /\ UNCHANGED queue

Put(p, g, new) ==
    IF new = cm[g]
    THEN /\ readers' = [readers EXCEPT ![g] = @ \ {p}]
         /\ UNCHANGED <<cm, queue>>
    ELSE /\ cm' = [cm EXCEPT ![g] = new]
         /\ readers' = [readers EXCEPT ![g] = {}]
         /\ Trigger({g})

Forget(p) == readers' = [g \in Gateways |-> readers[g] \ {p}]

-----------------------------------------------------------------------------
(* The Gateway controller: snapshot_for_gateway. *)

\* A bug: the object comes from a cache that lags behind the API server.
GwStartFromCache(g) ==
    /\ gwTask[g].pc = "idle"
    /\ Live(gateway[g])
    /\ Dequeue(g)
    /\ \E n \in 1 .. gateway[g].gen :
          gwTask' = [gwTask EXCEPT ![g] =
              [IdleGw EXCEPT !.pc = "class", !.inc = gateway[g].inc, !.gen = n,
                             !.valid = gateway[g].spec.valid]]
    /\ UNCHANGED <<world, owned, statuses, classPc, rtTask, left>>

\* A reconcile starts by taking its key off the queue and getting the object; a
\* Gateway that is gone by then is a key of DropMissing.
GwStart(g) ==
    /\ gwTask[g].pc = "idle"
    /\ Live(gateway[g])
    /\ Dequeue(g)
    /\ gwTask' = [gwTask EXCEPT ![g] =
           [IdleGw EXCEPT !.pc = "class", !.inc = gateway[g].inc,
                          !.gen = gateway[g].gen, !.valid = gateway[g].spec.valid]]
    /\ UNCHANGED <<world, owned, statuses, classPc, rtTask, left>>

GwGetClass(g) ==
    /\ gwTask[g].pc = "class"
    /\ gwTask' = [gwTask EXCEPT ![g] =
           [gwTask[g] EXCEPT !.pc = "list", !.accepted = (class = "accepted")]]
    /\ UNCHANGED <<world, owned, statuses, queue, timer, classPc, rtTask, left>>

GwListRoutes(g) ==
    /\ gwTask[g].pc = "list"
    /\ gwTask' = [gwTask EXCEPT ![g] =
           [gwTask[g] EXCEPT !.pc = "service", !.routes = RoutesForGateway(g)]]
    /\ UNCHANGED <<world, owned, statuses, queue, timer, classPc, rtTask, left>>

\* A bug: the resources are written first, the status is left for later.
GwGetServiceThenWrite(g) ==
    /\ gwTask[g].pc = "service"
    /\ gwTask' = [gwTask EXCEPT ![g] =
           [gwTask[g] EXCEPT !.pc = "read", !.addr = service[g].addr]]
    /\ UNCHANGED <<world, owned, statuses, queue, timer, classPc, rtTask, left>>

\* A failure to read the Service is taken for its absence.
GwGetService(g) ==
    /\ gwTask[g].pc = "service"
    /\ \/ /\ gwTask' = [gwTask EXCEPT ![g] =
                 [gwTask[g] EXCEPT !.pc = "status", !.addr = service[g].addr]]
          /\ UNCHANGED left
       \/ /\ service[g].addr
          /\ Spend("fault")
          /\ gwTask' = [gwTask EXCEPT ![g].pc = "status"]
    /\ UNCHANGED <<world, owned, statuses, queue, timer, classPc, rtTask>>

GwFetchFails(g) ==
    /\ \/ gwTask[g].pc = "idle" /\ Live(gateway[g]) /\ g \in queue
       \/ gwTask[g].pc \in {"class", "list"}
    /\ Spend("fault")
    /\ queue' = IF gwTask[g].pc = "idle" THEN queue \ {g} ELSE queue
    /\ EndGw(g, "soon")
    /\ UNCHANGED <<world, owned, statuses, classPc, rtTask>>

(* reconcile_gateway and the executor: the status goes first. *)

GwVerdict(t) == t.accepted /\ t.valid

GwPatchStatus(g) ==
    LET t == gwTask[g]
        status == [inc |-> t.inc, gen |-> t.gen, accepted |-> GwVerdict(t),
                   programmed |-> GwVerdict(t) /\ t.addr]
    IN  /\ t.pc = "status"
        /\ Live(gateway[g])
        /\ gwStatus' = [gwStatus EXCEPT ![g] = status]
        /\ StatusEvent(status # gwStatus[g], GatewayEvent(g))
        /\ IF GwVerdict(t)
           THEN gwTask' = [gwTask EXCEPT ![g].pc = "read"] /\ UNCHANGED timer
           ELSE EndGw(g, "soon")
        /\ UNCHANGED <<world, owned, rtStatus, classPc, rtTask>>

GwReadConfigMap(g) ==
    /\ gwTask[g].pc = "read"
    /\ gwTask' = [gwTask EXCEPT ![g] =
           [gwTask[g] EXCEPT !.pc = "write", !.seen = (cm[g].owner > 0)]]
    /\ readers' = [readers EXCEPT ![g] = @ \cup {g}]
    /\ UNCHANGED <<world, cm, service, statuses, queue, timer, classPc, rtTask, left>>

GwWriteConfigMap(g) ==
    LET t == gwTask[g]
    IN  /\ t.pc = "write"
        /\ PutSucceeds(g, g, t.seen)
        /\ Put(g, g, [owner |-> t.inc, gen |-> t.gen, routes |-> t.routes])
        /\ gwTask' = [gwTask EXCEPT ![g].pc = "apply"]
        /\ UNCHANGED <<world, service, statuses, timer, classPc, rtTask, left>>

\* Bugs: the reconcile is never marked as done; a request that came during it is
\* dropped with it; it asks for no requeue.
GwApplyUnfinished(g) ==
    /\ gwTask[g].pc = "apply"
    /\ gwTask' = [gwTask EXCEPT ![g].pc = "done"]
    /\ UNCHANGED <<world, owned, statuses, queue, timer, classPc, rtTask, left>>

GwApplyDropsRequest(g) ==
    /\ gwTask[g].pc = "apply"
    /\ service' = [service EXCEPT ![g] = [owner |-> gwTask[g].inc, addr |-> @.addr]]
    /\ queue' = queue \ {g}
    /\ EndGw(g, "late")
    /\ UNCHANGED <<world, cm, readers, statuses, classPc, rtTask, left>>

GwApplyWithoutRequeue(g) ==
    LET new == [owner |-> gwTask[g].inc, addr |-> service[g].addr]
    IN  /\ gwTask[g].pc = "apply"
        /\ service' = [service EXCEPT ![g] = new]
        /\ IF new = service[g] THEN UNCHANGED queue ELSE Trigger({g})
        /\ EndGw(g, "none")
        /\ UNCHANGED <<world, cm, readers, statuses, classPc, rtTask, left>>

\* ServiceAccount, Role, RoleBinding, Service and Deployment, by server-side apply.
GwApply(g) ==
    LET t == gwTask[g]
        new == [owner |-> t.inc, addr |-> service[g].addr]
    IN  /\ t.pc = "apply"
        /\ service' = [service EXCEPT ![g] = new]
        /\ IF new = service[g] THEN UNCHANGED queue ELSE Trigger({g})
        /\ EndGw(g, "late")
        /\ UNCHANGED <<world, cm, readers, statuses, classPc, rtTask, left>>

\* A bug: a failure waits for the periodic requeue.
GwEffectFailsQuietly(g) ==
    /\ gwTask[g].pc \in {"status", "read", "write", "apply"}
    /\ IF \/ gwTask[g].pc = "status" /\ ~Live(gateway[g])
          \/ gwTask[g].pc = "write" /\ ~PutSucceeds(g, g, gwTask[g].seen)
       THEN UNCHANGED left
       ELSE Spend("fault")
    /\ EndGw(g, "late")
    /\ Forget(g)
    /\ UNCHANGED <<world, cm, service, statuses, queue, classPc, rtTask>>

\* The first effect that fails ends the reconcile: the object is gone, the
\* ConfigMap has changed since it was read, or the call fails.
GwEffectFails(g) ==
    LET t == gwTask[g]
    IN  /\ t.pc \in {"status", "read", "write", "apply"}
        /\ IF \/ t.pc = "status" /\ ~Live(gateway[g])
              \/ t.pc = "write" /\ ~PutSucceeds(g, g, t.seen)
           THEN UNCHANGED left
           ELSE Spend("fault")
        /\ EndGw(g, "soon")
        /\ Forget(g)
        /\ UNCHANGED <<world, cm, service, statuses, queue, classPc, rtTask>>

-----------------------------------------------------------------------------
(* The HTTPRoute controller: snapshot_for_httproute. *)

\* A bug: a route that is accepted already is not reconciled again.
RtStartUnlessAccepted(r) ==
    /\ rtTask[r].pc = "idle"
    /\ Live(route[r])
    /\ r \in queue
    /\ queue' = queue \ {r}
    /\ IF route[r].spec.parents # {} /\ rtStatus[r].accepted = {}
       THEN /\ rtTask' = [rtTask EXCEPT ![r] =
                   [IdleRt EXCEPT !.pc = "parents", !.inc = route[r].inc,
                                  !.gen = route[r].gen, !.todo = route[r].spec.parents,
                                  !.needs = route[r].spec.backends]]
            /\ timer' = [timer EXCEPT ![r] = "none"]
       ELSE EndRt(r, "late")
    /\ UNCHANGED <<world, owned, statuses, classPc, gwTask, left>>

\* A route without parents has no effects.
RtStart(r) ==
    /\ rtTask[r].pc = "idle"
    /\ Live(route[r])
    /\ r \in queue
    /\ queue' = queue \ {r}
    /\ IF route[r].spec.parents # {}
       THEN /\ rtTask' = [rtTask EXCEPT ![r] =
                   [IdleRt EXCEPT !.pc = "parents", !.inc = route[r].inc,
                                  !.gen = route[r].gen, !.todo = route[r].spec.parents,
                                  !.needs = route[r].spec.backends]]
            /\ timer' = [timer EXCEPT ![r] = "none"]
       ELSE EndRt(r, "late")
    /\ UNCHANGED <<world, owned, statuses, classPc, gwTask, left>>

\* One parent Gateway.  A failure to read it is taken for its absence.
RtGetParent(r) ==
    /\ rtTask[r].pc = "parents"
    /\ \E g \in rtTask[r].todo :
          LET t == rtTask[r]
          IN  \/ /\ Live(gateway[g])
                 /\ rtTask' = [rtTask EXCEPT ![r] =
                        [t EXCEPT !.pc = "class", !.todo = t.todo \ {g},
                                  !.okay = IF r \in gateway[g].spec.admits
                                           THEN t.okay \cup {g} ELSE t.okay,
                                  !.found[g] = Ver(gateway[g])]]
                 /\ UNCHANGED left
              \/ /\ IF Live(gateway[g]) THEN Spend("fault") ELSE UNCHANGED left
                 /\ rtTask' = [rtTask EXCEPT ![r] = [t EXCEPT !.todo = t.todo \ {g}]]
    /\ UNCHANGED <<world, owned, statuses, queue, timer, classPc, gwTask>>

\* Its class, which all parents share: one that is absent, or cannot be read, leaves
\* what an earlier parent's read of it has found.
RtGetParentClass(r) ==
    LET t == rtTask[r]
    IN  /\ t.pc = "class"
        /\ \/ /\ class # "absent"
              /\ rtTask' = [rtTask EXCEPT ![r] =
                     [t EXCEPT !.pc = "parents", !.accepted = (class = "accepted")]]
              /\ UNCHANGED left
           \/ /\ IF class # "absent" THEN Spend("fault") ELSE UNCHANGED left
              /\ rtTask' = [rtTask EXCEPT ![r].pc = "parents"]
        /\ UNCHANGED <<world, owned, statuses, queue, timer, classPc, gwTask>>

\* The backends come last; one that is missing, or cannot be read, makes every
\* parent refuse the route.
RtGetBackends(r) ==
    LET t == rtTask[r]
    IN  /\ t.pc = "parents"
        /\ t.todo = {}
        /\ \/ /\ rtTask' = [rtTask EXCEPT ![r] =
                     [t EXCEPT !.pc = "status",
                               !.todo = IF t.accepted /\ t.needs \subseteq backendUp
                                        THEN t.okay ELSE {}]]
              /\ UNCHANGED left
           \/ /\ t.needs # {}
              /\ Spend("fault")
              /\ rtTask' = [rtTask EXCEPT ![r].pc = "status"]
        /\ UNCHANGED <<world, owned, statuses, queue, timer, classPc, gwTask>>

RtFetchFails(r) ==
    /\ \/ rtTask[r].pc = "idle" /\ Live(route[r]) /\ r \in queue
       \/ rtTask[r].pc = "parents" /\ rtTask[r].todo = {}
    /\ Spend("fault")
    /\ queue' = IF rtTask[r].pc = "idle" THEN queue \ {r} ELSE queue
    /\ EndRt(r, "soon")
    /\ UNCHANGED <<world, owned, statuses, classPc, gwTask>>

(* reconcile_httproute and the executor: the status, then the ConfigMap of   *)
(* each Gateway that accepts the route, built from a snapshot in which the   *)
(* route has no siblings.                                                    *)

\* A bug: the observedGeneration is that of the object being patched.
RtPatchStatusAsPatched(r) ==
    LET t == rtTask[r]
        status == [inc |-> t.inc, gen |-> route[r].gen, accepted |-> t.todo]
    IN  /\ t.pc = "status"
        /\ Live(route[r])
        /\ rtStatus' = [rtStatus EXCEPT ![r] = status]
        /\ StatusEvent(status # rtStatus[r], {r})
        /\ IF t.todo # {}
           THEN rtTask' = [rtTask EXCEPT ![r].pc = "read"] /\ UNCHANGED timer
           ELSE EndRt(r, "late")
        /\ UNCHANGED <<world, owned, gwStatus, classPc, gwTask>>

RtPatchStatus(r) ==
    LET t == rtTask[r]
        status == [inc |-> t.inc, gen |-> t.gen, accepted |-> t.todo]
    IN  /\ t.pc = "status"
        /\ Live(route[r])
        /\ rtStatus' = [rtStatus EXCEPT ![r] = status]
        /\ StatusEvent(status # rtStatus[r], {r})
        /\ IF t.todo # {}
           THEN rtTask' = [rtTask EXCEPT ![r].pc = "read"] /\ UNCHANGED timer
           ELSE EndRt(r, "late")
        /\ UNCHANGED <<world, owned, gwStatus, classPc, gwTask>>

RtReadConfigMap(r) ==
    /\ rtTask[r].pc = "read"
    /\ \E g \in rtTask[r].todo :
          /\ rtTask' = [rtTask EXCEPT ![r] =
                 [rtTask[r] EXCEPT !.pc = "write", !.target = {g},
                                   !.todo = rtTask[r].todo \ {g},
                                   !.seen = (cm[g].owner > 0)]]
          /\ readers' = [readers EXCEPT ![g] = @ \cup {r}]
    /\ UNCHANGED <<world, cm, service, statuses, queue, timer, classPc, gwTask, left>>

\* One ConfigMap is replaced by a config with the route as it was when the reconcile
\* began, and with its Gateway as it was when its turn as a parent came.
RtPutConfig(r, version) ==
    LET t == rtTask[r]
    IN  /\ t.pc = "write"
        /\ \E g \in Gateways :
              /\ t.target = {g}
              /\ PutSucceeds(r, g, t.seen)
              /\ Put(r, g, [owner |-> t.found[g][1], gen |-> t.found[g][2],
                            routes |-> OnlyRoute(r, version)])
        /\ UNCHANGED <<world, service, statuses, classPc, gwTask, left>>

RtMoveOn(r, t) ==
    IF rtTask[r].todo # {}
    THEN /\ rtTask' = [rtTask EXCEPT ![r] = [rtTask[r] EXCEPT !.pc = "read", !.target = {}]]
         /\ UNCHANGED timer
    ELSE EndRt(r, t)

\* Bugs: the route is converted as it is by now; no requeue is asked for.
RtWriteAsItIsNow(r) == RtPutConfig(r, Ver(route[r])) /\ RtMoveOn(r, "late")
RtWriteWithoutRequeue(r) == RtPutConfig(r, Ver(rtTask[r])) /\ RtMoveOn(r, "none")

RtWriteConfigMap(r) == RtPutConfig(r, Ver(rtTask[r])) /\ RtMoveOn(r, "late")

RtEffectFails(r) ==
    LET t == rtTask[r]
    IN  /\ t.pc \in {"status", "read", "write"}
        /\ IF \/ t.pc = "status" /\ ~Live(route[r])
              \/ t.pc = "write" /\ \E g \in t.target : ~PutSucceeds(r, g, t.seen)
           THEN UNCHANGED left
           ELSE Spend("fault")
        /\ EndRt(r, "soon")
        /\ Forget(r)
        /\ UNCHANGED <<world, cm, service, statuses, queue, classPc, gwTask>>

-----------------------------------------------------------------------------
(* Specification. *)

Init ==
    /\ class \in FirstClasses
    /\ gateway \in [Gateways -> {NoGateway} \cup
                                [inc : {1}, gen : {1}, spec : GatewaySpecs]]
    /\ \A g \in Gateways : Live(gateway[g]) <=> g \in Preexisting
    /\ route \in [Routes -> {NoRoute} \cup [inc : {1}, gen : {1}, spec : RouteSpecs]]
    /\ \A r \in Routes : Live(route[r]) <=> r \in Preexisting
    /\ backendUp \in SUBSET Backends
    /\ cm = [g \in Gateways |-> NoConfigMap]
    /\ readers = [g \in Gateways |-> {}]
    /\ service = [g \in Gateways |-> NoService]
    /\ gwStatus = [g \in Gateways |-> NoGwStatus]
    /\ rtStatus = [r \in Routes |-> NoRtStatus]
    /\ queue = Preexisting \cup (IF class \in {"absent", "accepted"} THEN {} ELSE {ClassKey})
    /\ timer = [k \in Keys |-> IF k = ClassKey /\ class = "accepted"
                               THEN "late" ELSE "none"]
    /\ classPc = "idle"
    /\ gwTask = [g \in Gateways |-> IdleGw]
    /\ rtTask = [r \in Routes |-> IdleRt]
    /\ left \in Budgets

EditStep ==
    \/ \E g \in Gateways, s \in GatewaySpecs : ApplyGateway(g, s)
    \/ \E g \in Gateways : DeleteGateway(g)
    \/ \E r \in Routes, s \in RouteSpecs : ApplyRoute(r, s)
    \/ \E r \in Routes : DeleteRoute(r)
    \/ \E c \in {"foreign", "pending"} : CreateClass(c)
    \/ DeleteClass
    \/ \E b \in Backends : ToggleBackend(b)

ClusterStep(g) == AssignAddress(g) \/ CollectConfigMap(g) \/ CollectService(g)

ClassStep == ClassFetch \/ ClassPatch \/ ClassFetchFails \/ ClassPatchFails

GwStep(g) ==
    \/ GwStart(g) \/ GwGetClass(g) \/ GwListRoutes(g) \/ GwGetService(g)
    \/ GwPatchStatus(g) \/ GwReadConfigMap(g) \/ GwWriteConfigMap(g) \/ GwApply(g)
    \/ GwFetchFails(g) \/ GwEffectFails(g)

RtStep(r) ==
    \/ RtStart(r) \/ RtGetParent(r) \/ RtGetParentClass(r) \/ RtGetBackends(r)
    \/ RtPatchStatus(r) \/ RtReadConfigMap(r) \/ RtWriteConfigMap(r)
    \/ RtFetchFails(r) \/ RtEffectFails(r)

Next ==
    \/ EditStep
    \/ \E g \in Gateways : ClusterStep(g) \/ GwStep(g)
    \/ \E r \in Routes : RtStep(r)
    \/ ClassStep
    \/ \E k \in Keys : TimerFires(k) \/ DropMissing(k)
    \/ CrashAndRestart

Spec == Init /\ [][Next]_vars

\* The runtime polls every controller and every due timer, and the garbage
\* collector runs; users, clouds, faults and crashes owe nothing.
Fairness ==
    /\ \A g \in Gateways : /\ WF_vars(GwStep(g))
                           /\ WF_vars(CollectConfigMap(g))
                           /\ WF_vars(CollectService(g))
    /\ \A r \in Routes : WF_vars(RtStep(r))
    /\ WF_vars(ClassStep)
    /\ \A k \in Keys : WF_vars(TimerFires(k)) /\ WF_vars(DropMissing(k))

FairSpec == Spec /\ Fairness

-----------------------------------------------------------------------------
(* Properties. *)

\* The types of the variables.
TypeOK ==
    /\ class \in ClassStates
    /\ gateway \in [Gateways -> GatewayObjects]
    /\ route \in [Routes -> RouteObjects]
    /\ backendUp \subseteq Backends
    /\ cm \in [Gateways -> ConfigMaps]
    /\ readers \in [Gateways -> SUBSET (Gateways \cup Routes)]
    /\ service \in [Gateways -> Services]
    /\ gwStatus \in [Gateways -> GwStatuses]
    /\ rtStatus \in [Routes -> RtStatuses]
    /\ queue \subseteq Keys
    /\ timer \in [Keys -> {"none", "soon", "late"}]
    /\ classPc \in {"idle", "patch"}
    /\ gwTask \in [Gateways -> GwTasks]
    /\ rtTask \in [Routes -> RtTasks]
    /\ left \in [Kinds -> Nat]

-----------------------------------------------------------------------------
(* Safety. *)

\* Work on a key is under way, or due within seconds rather than at the next
\* five-minute resync.
GwSoon(g) == g \in queue \/ timer[g] = "soon" \/ gwTask[g].pc # "idle"
RtSoon(r) == r \in queue \/ timer[r] = "soon" \/ rtTask[r].pc # "idle"

\* executor.rs:55 "Execute status updates FIRST to ensure observedGeneration is
\* updated even if resource creation fails": while the resources of a Gateway or of a
\* route are being written, its status already shows the generation they are built
\* from, so a failure of any of those writes leaves an up-to-date one behind.
GwStatusFirst(g) ==
    /\ gwTask[g].pc \in {"read", "write", "apply"}
    /\ Live(gateway[g])
    /\ gateway[g].inc = gwTask[g].inc
    => Ver(gwStatus[g]) = Ver(gwTask[g]) /\ gwStatus[g].accepted

RtStatusFirst(r) ==
    /\ rtTask[r].pc \in {"read", "write"}
    /\ Live(route[r])
    /\ route[r].inc = rtTask[r].inc
    => Ver(rtStatus[r]) = Ver(rtTask[r])

StatusFirst == /\ \A g \in Gateways : GwStatusFirst(g)
               /\ \A r \in Routes : RtStatusFirst(r)

\* The controllers patch a status by name only, so that a patch can land on a newer
\* generation, or on a new object of the same name.  Such a status never stays: a
\* Gateway whose status was computed from anything but its present spec is about to
\* be reconciled again.
GwStatusTracks(g) ==
    Live(gateway[g]) /\ Ver(gwStatus[g]) # Ver(gateway[g]) => GwSoon(g)

GatewayStatusTracks == \A g \in Gateways : GwStatusTracks(g)

\* The same of an HTTPRoute that has parents.  (One whose last parentRef is removed
\* keeps its old parent statuses: reconcile.rs:997.)
RtStatusTracks(r) ==
    /\ Live(route[r])
    /\ route[r].spec.parents # {}
    /\ Ver(rtStatus[r]) # Ver(route[r])
    => RtSoon(r)

RouteStatusTracks == \A r \in Routes : RtStatusTracks(r)

ConfigVer(g) == <<cm[g].owner, cm[g].gen>>

\* Both controllers write one ConfigMap, from snapshots read before they fetch the
\* resourceVersion that guards the replace: an older config can overwrite a newer
\* one.  Once a Gateway is accepted, a ConfigMap that was not built from its present
\* spec (or is missing) is always about to be written again.
ConfigFollows(g) ==
    /\ Live(gateway[g])
    /\ Ver(gwStatus[g]) = Ver(gateway[g])
    /\ gwStatus[g].accepted
    /\ ConfigVer(g) # Ver(gateway[g])
    => GwSoon(g)

ConfigFollowsGateway == \A g \in Gateways : ConfigFollows(g)

\* g has accepted r as it is.
AcceptedAt(g, r) ==
    /\ Live(gateway[g])
    /\ Live(route[r])
    /\ g \in route[r].spec.parents
    /\ Ver(rtStatus[r]) = Ver(route[r])
    /\ g \in rtStatus[r].accepted

\* An HTTPRoute reconcile publishes a config in which its route has no siblings.  A
\* route that its Gateway accepted, and that such a write (or a stale one, or a
\* failed one) has taken off the ConfigMap, is always about to come back, through
\* the Gateway's reconcile or its own.
LostRouteHeals ==
    \A g \in Gateways, r \in Routes :
        AcceptedAt(g, r) /\ cm[g].routes[r] # Ver(route[r]) => GwSoon(g) \/ RtSoon(r)

\* Reconciles of one object never overlap and each reads it afresh, so that on one
\* incarnation of a Gateway or an HTTPRoute the observedGeneration never goes back.
Regresses(old, new) == new.inc # old.inc \/ new.gen < old.gen

ObservedNeverRegresses ==
    [][/\ \A g \in Gateways :
             gwStatus[g].inc = gateway[g].inc /\ gateway'[g].inc = gateway[g].inc
             => ~Live(gateway'[g]) \/ ~Regresses(gwStatus[g], gwStatus'[g])
       /\ \A r \in Routes :
             rtStatus[r].inc = route[r].inc /\ route'[r].inc = route[r].inc
             => ~Live(route'[r]) \/ ~Regresses(rtStatus[r], rtStatus'[r])]_vars

-----------------------------------------------------------------------------
(* The inductive invariant behind the properties above. *)

\* Past(v, o): v is a version that object o has, or once had.
Past(v, o) ==
    \/ v[1] < o.inc
    \/ v[1] = o.inc /\ (v[2] <= o.gen \/ ~Live(o))

\* Nothing mentions a version of an object that does not exist yet.
GwTaskPast(g) == Past(Ver(gwTask[g]), gateway[g])
RtTaskPast(r) == Past(Ver(rtTask[r]), route[r])
RoutesPast(g, r) == /\ Past(cm[g].routes[r], route[r])
                    /\ Past(gwTask[g].routes[r], route[r])

\* A status of the present object is past, and a reconcile under way is not older.
ObservedPast(object, status, task) ==
    Live(object) /\ status.inc = object.inc
    => /\ status.gen <= object.gen
       /\ task.pc # "idle" => task.inc = object.inc /\ task.gen >= status.gen

GwObservedPast(g) == ObservedPast(gateway[g], gwStatus[g], gwTask[g])
RtObservedPast(r) == ObservedPast(route[r], rtStatus[r], rtTask[r])

\* A reconcile that works on an outdated object is followed by another one.
GwTaskCurrent(g) == gwTask[g].pc # "idle" /\ Live(gateway[g])
                    => g \in queue \/ Ver(gwTask[g]) = Ver(gateway[g])
RtTaskCurrent(r) == rtTask[r].pc # "idle" /\ Live(route[r])
                    => r \in queue \/ Ver(rtTask[r]) = Ver(route[r])

\* A Gateway reconcile that has written its ConfigMap left it so, or will run again.
ConfigApplied(g) ==
    gwTask[g].pc = "apply" => g \in queue \/ ConfigVer(g) = Ver(gwTask[g])

Listed(g) == gwTask[g].pc \in {"service", "status", "read", "write"}

\* A Gateway reconcile whose list lacks what the ConfigMap already has was overtaken
\* by the write that put it there, and will run again.
ListNotOvertaken(g, r) ==
    /\ Listed(g)
    /\ Live(route[r])
    /\ g \in route[r].spec.parents
    /\ cm[g].routes[r] = Ver(route[r])
    => g \in queue \/ gwTask[g].routes[r] = Ver(route[r])

\* The Gateway controller has r in the ConfigMap, or on the way there.
GwWillPublish(g, r) ==
    \/ g \in queue
    \/ gwTask[g].pc = "idle" /\ timer[g] = "soon"
    \/ gwTask[g].pc \in {"class", "list"}
    \/ Listed(g) /\ gwTask[g].routes[r] = Ver(route[r])
    \/ gwTask[g].pc \in {"apply", "idle"} /\ cm[g].routes[r] = Ver(route[r])

\* The HTTPRoute controller is yet to write r to the ConfigMap of g.
RtWillPublish(g, r) ==
    \/ r \in queue
    \/ rtTask[r].pc = "idle" /\ timer[r] = "soon"
    \/ rtTask[r].pc \in {"parents", "class", "status"}
    \/ rtTask[r].pc = "read" /\ g \in rtTask[r].todo
    \/ rtTask[r].pc = "write" /\ g \in rtTask[r].todo \cup rtTask[r].target

AcceptedWillPublish(g, r) ==
    AcceptedAt(g, r) => RtWillPublish(g, r) \/ GwWillPublish(g, r)

GwInv(g) == /\ GwTaskPast(g)
            /\ GwTaskCurrent(g)
            /\ GwObservedPast(g)
            /\ GwStatusFirst(g)
            /\ GwStatusTracks(g)
            /\ ConfigApplied(g)
            /\ ConfigFollows(g)

RtInv(r) == /\ RtTaskPast(r)
            /\ RtTaskCurrent(r)
            /\ RtObservedPast(r)
            /\ RtStatusFirst(r)
            /\ RtStatusTracks(r)

PairInv(g, r) == /\ RoutesPast(g, r)
                 /\ ListNotOvertaken(g, r)
                 /\ AcceptedWillPublish(g, r)

IInv == /\ \A g \in Gateways : GwInv(g)
        /\ \A r \in Routes : RtInv(r)
        /\ \A g \in Gateways, r \in Routes : PairInv(g, r)

(* What the periodic resyncs bring about. *)

\* What validate_parent_ref would say of a route now.
Admitted(r) ==
    IF route[r].spec.backends \subseteq backendUp
    THEN {g \in route[r].spec.parents :
             Live(gateway[g]) /\ class = "accepted" /\ r \in gateway[g].spec.admits}
    ELSE {}

StatusesCorrect ==
    /\ \A g \in Gateways : Live(gateway[g]) =>
          LET ok == class = "accepted" /\ gateway[g].spec.valid
          IN  gwStatus[g] = [inc |-> gateway[g].inc, gen |-> gateway[g].gen,
                             accepted |-> ok, programmed |-> ok /\ service[g].addr]
    /\ \A r \in Routes : Live(route[r]) /\ route[r].spec.parents # {} =>
          rtStatus[r] = [inc |-> route[r].inc, gen |-> route[r].gen,
                         accepted |-> Admitted(r)]

\* Reads whose failure is taken for absence, and changes of classes and Services that
\* trigger nothing, leave wrong conditions behind; the requeue of every reconcile
\* repairs them all once the cluster stops changing.
StatusesSettle == <>[]StatusesCorrect

\* A deletion of an HTTPRoute triggers nothing, but the config of an accepted Gateway
\* stops mentioning a route for good once it is deleted or detached.
StaleRoutesLeave ==
    <>[](\A g \in Gateways :
            Live(gateway[g]) /\ class = "accepted" /\ gateway[g].spec.valid
            => \A r \in Routes :
                  cm[g].routes[r] \in {NoVersion, RoutesForGateway(g)[r]})

\* config.rs:28, 37: "The complete gateway configuration stored in a ConfigMap",
\* "List of routes attached to this gateway": the ConfigMap ends up with every route
\* its Gateway accepts, and keeps them.
ConfigSettles ==
    <>[](\A g \in Gateways, r \in Routes :
            Live(route[r]) /\ g \in Admitted(r) /\ gateway[g].spec.valid
            => cm[g].routes[r] = Ver(route[r]))

\* The same lines of config.rs as a promise about every write: a route its Gateway has
\* accepted and published is not taken off the ConfigMap while it stays as it is.
PublishedRouteStays ==
    [][\A g \in Gateways, r \in Routes :
          /\ AcceptedAt(g, r) /\ cm[g].routes[r] = Ver(route[r])
          /\ gateway'[g] = gateway[g] /\ route'[r] = route[r]
          => cm'[g].routes[r] = Ver(route[r])]_vars

=============================================================================
