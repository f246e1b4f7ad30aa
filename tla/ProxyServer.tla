------------------------------ MODULE ProxyServer ------------------------------
(***************************************************************************)
(* The data plane process of multiway: a watcher thread that stores each   *)
(* configuration it receives in an ArcSwap, and worker threads that load   *)
(* it, bind its listeners, accept connections and serve them.              *)
(*                                                                         *)
(* A worker notices a new configuration by comparing the address of the    *)
(* loaded Arc with the address it remembers.  Configurations live on a     *)
(* heap: an address is in use while the ArcSwap or a worker has an Arc to  *)
(* it, and may then be allocated again.                                    *)
(*                                                                         *)
(* Failures covered: a watch that breaks and lists again, a ConfigMap that *)
(* does not parse or is deleted, a bind or an accept that fails.           *)
(*                                                                         *)
(* Data is abstracted: a configuration is a version and the names of its   *)
(* listeners, each on a port of its own; the requests of a connection, its *)
(* TLS handshake included, are one stay in the pipeline.                   *)
(***************************************************************************)
EXTENDS Naturals, Sequences

CONSTANTS
    Workers,        \* the worker threads
    Listeners,      \* names of listeners
    ListenerLists,  \* the listener lists of the configurations published
    Addresses,      \* addresses of configurations on the heap
    Clients,        \* the client connections
    None,           \* no address, no client, no worker, no listener
    AddressReuse,   \* may the allocator return an address a worker remembers?
    MaxVersion,     \* bound on the changes of the ConfigMap
    MaxFaults       \* bound on failed binds and accepts and broken watches

ASSUME ServerAssumption ==
    /\ ListenerLists \subseteq Seq(Listeners)
    /\ Addresses # {}
    /\ None \notin Addresses \cup Clients \cup Workers \cup Listeners
    /\ AddressReuse \in BOOLEAN
    /\ MaxVersion \in Nat
    /\ MaxFaults \in Nat

VARIABLES
    configMap,  \* the ConfigMap in the cluster
    events,     \* what the watch has yet to deliver
    watch,      \* is the watch open, or about to list?
    store,      \* the Arc in the ArcSwap
    shutdown,   \* the shutdown flag
    worker,     \* the state of each worker thread
    conn,       \* the client connections
    faults      \* what is left of the faults

cluster == <<configMap, events, watch>>
vars == <<cluster, store, shutdown, worker, conn, faults>>

-----------------------------------------------------------------------------

Config == [ver : Nat, listeners : Seq(Listeners)]
Arcs == [addr : Addresses, config : Config]
Documents == [ver : Nat, kind : {"config", "garbage", "deleted"}, listeners : Seq(Listeners)]

NoConfig == [ver |-> 0, listeners |-> <<>>]

\* first, held: the Arcs a worker has, current_config and new_config (at most one each);
\* ptr: the bare address it remembers; bound, built: the configurations its sockets and
\* its pipelines come from; at: its place in the accept loop.
WorkerStates ==
    [pc : {"start", "top", "reload", "accept", "serve", "drain", "stopped", "failed"},
     first : SUBSET Arcs, held : SUBSET Arcs, ptr : Addresses \cup {None},
     bound : Config, built : Config, at : Nat, serving : Clients \cup {None}, inFlight : Nat]

Connections == [st : {"new", "queued", "serving", "closed"},
                worker : Workers \cup {None}, port : Listeners \cup {None}]

NoConnection == [st |-> "new", worker |-> None, port |-> None]
Closed == [NoConnection EXCEPT !.st = "closed"]

NewWorker == [pc |-> "start", first |-> {}, held |-> {}, ptr |-> None,
              bound |-> NoConfig, built |-> NoConfig, at |-> 0,
              serving |-> None, inFlight |-> 0]

Running(w) == worker[w].pc \in {"top", "reload", "accept", "serve", "drain"}
Ended(w) == worker[w].pc \in {"stopped", "failed"}

\* run waits for the flag, then for every thread, however the thread has ended.
RunReturns == shutdown /\ \A w \in Workers : Ended(w)

\* A bug: a worker does not keep the Arc that it starts with.
LiveArcsOfIterations == {store} \cup UNION {worker[w].held : w \in Workers}

\* The address of an Arc that somebody has is not free.
LiveArcs == {store} \cup UNION {worker[w].first \cup worker[w].held : w \in Workers}

Free ==
    {a \in Addresses :
        /\ \A arc \in LiveArcs : a # arc.addr
        /\ AddressReuse \/ \A w \in Workers : a # worker[w].ptr}

Fault == faults > 0 /\ faults' = faults - 1

-----------------------------------------------------------------------------
(* The ConfigMap, and the watch on it. *)

ChangeConfigMap(kind, listeners) ==
    /\ configMap.ver < MaxVersion
    /\ configMap' = [ver |-> configMap.ver + 1, kind |-> kind, listeners |-> listeners]
    /\ events' = IF watch = "open" THEN Append(events, configMap') ELSE events
    /\ UNCHANGED <<watch, store, shutdown, worker, conn, faults>>

WatchBreaks ==
    /\ watch = "open"
    /\ Fault
    /\ watch' = "list"
    /\ UNCHANGED <<configMap, events, store, shutdown, worker, conn>>

\* A bug: what a broken watch had not delivered comes after the list.
RelistThenReplay ==
    /\ watch = "list"
    /\ watch' = "open"
    /\ events' = IF configMap.kind = "deleted" THEN events ELSE <<configMap>> \o events
    /\ UNCHANGED <<configMap, store, shutdown, worker, conn, faults>>

\* The list replaces what a broken watch had not delivered; the first one repeats the
\* ConfigMap the process was started with.
Relist ==
    /\ watch = "list"
    /\ watch' = "open"
    /\ events' = IF configMap.kind = "deleted" THEN <<>> ELSE <<configMap>>
    /\ UNCHANGED <<configMap, store, shutdown, worker, conn, faults>>

\* A bug: the document is stored as it was received.
HandleEventUnparsed ==
    /\ watch = "open"
    /\ events # <<>>
    /\ events' = Tail(events)
    /\ \E a \in Free : store' = [addr |-> a, config |-> Head(events)]
    /\ UNCHANGED <<configMap, watch, shutdown, worker, conn, faults>>

\* An event with a ConfigMap that parses makes a new Arc and stores it; the others
\* leave the configuration as it is.
HandleEvent ==
    LET doc == Head(events)
    IN  /\ watch = "open"
        /\ events # <<>>
        /\ events' = Tail(events)
        /\ \/ /\ doc.kind = "config"
              /\ \E a \in Free :
                    store' = [addr |-> a,
                              config |-> [ver |-> doc.ver, listeners |-> doc.listeners]]
           \/ /\ doc.kind # "config"
              /\ UNCHANGED store
        /\ UNCHANGED <<configMap, watch, shutdown, worker, conn, faults>>

WatcherStep == Relist \/ HandleEvent

-----------------------------------------------------------------------------
(* Clients, and the embedding program. *)

\* The kernel gives a connection to one of the sockets that listen on its port.
Connect(c, n) ==
    /\ conn[c].st = "new"
    /\ \E w \in Workers :
          /\ Running(w)
          /\ \E i \in DOMAIN worker[w].bound.listeners : worker[w].bound.listeners[i] = n
          /\ conn' = [conn EXCEPT ![c] = [st |-> "queued", worker |-> w, port |-> n]]
    /\ UNCHANGED <<cluster, store, shutdown, worker, faults>>

SignalShutdown ==
    /\ ~shutdown
    /\ shutdown' = TRUE
    /\ UNCHANGED <<cluster, store, worker, conn, faults>>

Queued(w) == {c \in Clients : conn[c].st = "queued" /\ conn[c].worker = w}

\* A socket that is closed resets the connections nobody has accepted from it.
CloseSockets(w) ==
    conn' = [c \in Clients |-> IF c \in Queued(w) THEN Closed ELSE conn[c]]

-----------------------------------------------------------------------------
(* A worker: worker_loop. *)

Becomes(w, new) == worker' = [worker EXCEPT ![w] = new]

Start(w) ==
    LET cfg == store.config
    IN  /\ worker[w].pc = "start"
        /\ \/ /\ cfg.listeners # <<>>
              /\ Becomes(w, [worker[w] EXCEPT !.pc = "top", !.first = {store},
                                              !.ptr = store.addr,
                                              !.bound = cfg, !.built = cfg])
              /\ UNCHANGED faults
           \/ /\ cfg.listeners # <<>>
              /\ Fault
              /\ Becomes(w, [worker[w] EXCEPT !.pc = "failed"])
           \/ /\ cfg.listeners = <<>>
              /\ Becomes(w, [worker[w] EXCEPT !.pc = "stopped"])
              /\ UNCHANGED faults
        /\ UNCHANGED <<cluster, store, shutdown, conn>>

SeeShutdown(w) ==
    /\ worker[w].pc = "top"
    /\ shutdown
    /\ Becomes(w, [worker[w] EXCEPT !.pc = "drain"])
    /\ UNCHANGED <<cluster, store, shutdown, conn, faults>>

LoadConfig(w) ==
    /\ worker[w].pc = "top"
    /\ ~shutdown
    /\ Becomes(w, [worker[w] EXCEPT !.pc = IF store.addr = worker[w].ptr
                                           THEN "accept" ELSE "reload",
                                    !.held = {store}, !.at = 1])
    /\ UNCHANGED <<cluster, store, shutdown, conn, faults>>

\* Bugs: the ArcSwap is loaded again for the pipelines; the pipelines are rebuilt only
\* when the listeners are others.
ReloadedFromStore(w, arc, bound) ==
    Becomes(w, [worker[w] EXCEPT !.pc = "accept", !.bound = bound, !.ptr = arc.addr,
                                 !.built = store.config])

ReloadedIfDifferent(w, arc, bound) ==
    Becomes(w, [worker[w] EXCEPT !.pc = "accept", !.bound = bound, !.ptr = arc.addr,
                                 !.built = IF arc.config.listeners = @.listeners
                                           THEN @ ELSE arc.config])

\* The pipelines are rebuilt in any case; a worker without sockets leaves its loop.
Reloaded(w, arc, bound) ==
    LET new == [worker[w] EXCEPT !.bound = bound, !.built = arc.config, !.ptr = arc.addr]
    IN  IF bound.listeners = <<>>
        THEN Becomes(w, [new EXCEPT !.pc = "drain", !.held = {}, !.at = 0])
        ELSE Becomes(w, [new EXCEPT !.pc = "accept"])

\* All listeners are bound anew, whether they have changed or not.
Rebind(w) ==
    /\ worker[w].pc = "reload"
    /\ \E arc \in worker[w].held : Reloaded(w, arc, arc.config)
    /\ CloseSockets(w)
    /\ UNCHANGED <<cluster, store, shutdown, faults>>

\* A bug: a worker that cannot rebind gives up on the new configuration.
RebindGivesUp(w) ==
    /\ worker[w].pc = "reload"
    /\ Fault
    /\ \E arc \in worker[w].held :
          Becomes(w, [worker[w] EXCEPT !.pc = "accept", !.ptr = arc.addr])
    /\ UNCHANGED <<cluster, store, shutdown, conn>>

\* The first listener that cannot be bound undoes the others: the old sockets stay.
RebindFails(w) ==
    /\ worker[w].pc = "reload"
    /\ \E arc \in worker[w].held :
          /\ arc.config.listeners # <<>>
          /\ Reloaded(w, arc, worker[w].bound)
    /\ Fault
    /\ UNCHANGED <<cluster, store, shutdown, conn>>

\* A bug: an iteration ends after its first socket.
InLoopOnce(w) == worker[w].pc = "accept" /\ ~shutdown /\ worker[w].at = 1

InLoop(w) ==
    /\ worker[w].pc = "accept"
    /\ ~shutdown
    /\ worker[w].at <= Len(worker[w].bound.listeners)

\* The connections waiting at the socket whose turn it is.
AtSocket(w) == {c \in Queued(w) : conn[c].port = worker[w].bound.listeners[worker[w].at]}

\* A bug: the place of the pipeline is counted from one more.
AcceptNext(w) ==
    /\ InLoop(w)
    /\ worker[w].at < Len(worker[w].built.listeners)
    /\ \E c \in AtSocket(w) :
          /\ Becomes(w, [worker[w] EXCEPT !.pc = "serve", !.serving = c, !.at = @ + 1])
          /\ conn' = [conn EXCEPT ![c].st = "serving"]
    /\ UNCHANGED <<cluster, store, shutdown, faults>>

\* The pipelines are looked up by the place of the socket; a connection that has no
\* pipeline there is dropped.
Accept(w) ==
    /\ InLoop(w)
    /\ \E c \in AtSocket(w) :
          IF worker[w].at <= Len(worker[w].built.listeners)
          THEN /\ Becomes(w, [worker[w] EXCEPT !.pc = "serve", !.serving = c,
                                               !.inFlight = @ + 1])
               /\ conn' = [conn EXCEPT ![c].st = "serving"]
          ELSE /\ Becomes(w, [worker[w] EXCEPT !.at = @ + 1])
               /\ conn' = [conn EXCEPT ![c] = Closed]
    /\ UNCHANGED <<cluster, store, shutdown, faults>>

AcceptNothing(w) ==
    /\ InLoop(w)
    /\ IF AtSocket(w) = {} THEN UNCHANGED faults ELSE Fault
    /\ Becomes(w, [worker[w] EXCEPT !.at = @ + 1])
    /\ UNCHANGED <<cluster, store, shutdown, conn>>

\* A bug: a connection that ends is not taken off the count.
ServeEndsUncounted(w) ==
    /\ worker[w].pc = "serve"
    /\ Becomes(w, [worker[w] EXCEPT !.pc = "accept", !.serving = None, !.at = @ + 1])
    /\ conn' = [conn EXCEPT ![worker[w].serving] = Closed]
    /\ UNCHANGED <<cluster, store, shutdown, faults>>

\* The connection is served where it was accepted, until its client or its backend
\* ends it.
ServeEnds(w) ==
    /\ worker[w].pc = "serve"
    /\ Becomes(w, [worker[w] EXCEPT !.pc = "accept", !.serving = None, !.at = @ + 1,
                                    !.inFlight = IF @ = 0 THEN 0 ELSE @ - 1])
    /\ conn' = [conn EXCEPT ![worker[w].serving] = Closed]
    /\ UNCHANGED <<cluster, store, shutdown, faults>>

\* new_config goes out of scope.
EndIteration(w) ==
    /\ worker[w].pc = "accept"
    /\ ~InLoop(w)
    /\ Becomes(w, [worker[w] EXCEPT !.pc = "top", !.held = {}, !.at = 0])
    /\ UNCHANGED <<cluster, store, shutdown, conn, faults>>

Return(w) ==
    /\ worker[w].pc = "drain"
    /\ worker[w].inFlight = 0
    /\ Becomes(w, [worker[w] EXCEPT !.pc = "stopped", !.first = {}])
    /\ CloseSockets(w)
    /\ UNCHANGED <<cluster, store, shutdown, faults>>

-----------------------------------------------------------------------------
(* Specification. *)

\* The process has read its ConfigMap; one that is absent or does not parse ends it.
Init ==
    /\ \E l \in ListenerLists :
          /\ configMap = [ver |-> 1, kind |-> "config", listeners |-> l]
          /\ store \in [addr : Addresses, config : {[ver |-> 1, listeners |-> l]}]
    /\ events = <<>>
    /\ watch = "list"
    /\ shutdown = FALSE
    /\ worker = [w \in Workers |-> NewWorker]
    /\ conn = [c \in Clients |-> NoConnection]
    /\ faults = MaxFaults

\* What a worker does by itself.
WorkerStep(w) ==
    \/ Start(w) \/ SeeShutdown(w) \/ LoadConfig(w) \/ Rebind(w) \/ RebindFails(w)
    \/ Accept(w) \/ AcceptNothing(w) \/ EndIteration(w) \/ Return(w)

Next ==
    \/ \E l \in ListenerLists : ChangeConfigMap("config", l)
    \/ \E kind \in {"garbage", "deleted"} : ChangeConfigMap(kind, <<>>)
    \/ WatchBreaks
    \/ WatcherStep
    \/ \E c \in Clients, n \in Listeners : Connect(c, n)
    \/ SignalShutdown
    \/ \E w \in Workers : WorkerStep(w) \/ ServeEnds(w)

Spec == Init /\ [][Next]_vars

\* Threads are scheduled; clients and backends owe nothing.
Fairness == WF_vars(WatcherStep) /\ \A w \in Workers : WF_vars(WorkerStep(w))

FairSpec == Spec /\ Fairness

-----------------------------------------------------------------------------
(* Properties. *)

\* The types of the variables.
TypeOK ==
    /\ configMap \in Documents
    /\ events \in Seq(Documents)
    /\ watch \in {"list", "open"}
    /\ store \in Arcs
    /\ shutdown \in BOOLEAN
    /\ worker \in [Workers -> WorkerStates]
    /\ conn \in [Clients -> Connections]
    /\ faults \in Nat

\* server.rs:35 "Workers detect config changes and rebuild their pipeline on the next
\* accept-loop iteration": the pipelines that serve in an iteration come from the
\* configuration that was loaded at its start.
PipelinesCurrent ==
    \A w \in Workers :
        worker[w].pc \in {"accept", "serve"}
        => \A arc \in worker[w].held : worker[w].built = arc.config

\* The same whatever addresses the allocator returns, as long as the worker has not
\* reloaded: what it remembers is the address of current_config, an Arc that worker_loop
\* keeps (server.rs:193, 202), so the first change is always detected.
FirstChangeDetected ==
    \A w \in Workers :
        worker[w].pc \in {"accept", "serve"}
        => \A kept \in worker[w].first, arc \in worker[w].held :
               worker[w].ptr = kept.addr => worker[w].built = arc.config

PipelineName(w) == worker[w].built.listeners[worker[w].at]

\* A connection is served by the pipeline of the listener whose port it was made to
\* (pipeline.rs:618 "The listener name this request arrived on"), as long as the
\* worker's last rebind has succeeded.
ServedByItsListener ==
    \A w \in Workers :
        worker[w].pc = "serve" /\ worker[w].bound = worker[w].built
        => PipelineName(w) = conn[worker[w].serving].port

\* The abstract hot reload: worker threads, the watcher and the allocator implement it.
Abstract == INSTANCE HotReload WITH newest <- store.config.ver,
                                    running <- [w \in Workers |-> worker[w].built.ver]

ReloadsForward == Abstract!Spec

-----------------------------------------------------------------------------
(* The inductive invariant behind the safety properties. *)

AddressesUnique == \A x, y \in LiveArcs : x.addr = y.addr => x.config = y.config

\* The address a worker remembers is not that of another configuration.
PointerAgrees(w) ==
    \A arc \in LiveArcs : arc.addr = worker[w].ptr => arc.config = worker[w].built

EventsInOrder ==
    /\ store.config.ver <= configMap.ver
    /\ \A i \in 1 .. Len(events) :
          store.config.ver <= events[i].ver /\ events[i].ver <= configMap.ver
    /\ \A i, j \in 1 .. Len(events) : i < j => events[i].ver <= events[j].ver

NeverAhead(w) ==
    /\ worker[w].built.ver <= store.config.ver
    /\ \A arc \in worker[w].held :
          worker[w].built.ver <= arc.config.ver /\ arc.config.ver <= store.config.ver

\* While the address that a worker remembers is that of the Arc it started with, its
\* pipelines come from there; an iteration serves what lies at that address.
RemembersFirst(w) ==
    /\ \A kept \in worker[w].first :
          kept.addr = worker[w].ptr => kept.config = worker[w].built
    /\ worker[w].pc \in {"accept", "serve"} =>
          \A arc \in worker[w].held : arc.addr = worker[w].ptr

HoldsOne(w) ==
    /\ \A x, y \in worker[w].held : x = y
    /\ worker[w].pc = "start" => worker[w].held = {}

\* The connection in service is the one that was accepted at this place of the loop.
InPlace(w) ==
    worker[w].pc = "serve" =>
        /\ worker[w].serving \in Clients
        /\ conn[worker[w].serving] = [st |-> "serving", worker |-> w,
                                      port |-> worker[w].bound.listeners[worker[w].at]]

IInv == /\ AddressesUnique
        /\ EventsInOrder
        /\ \A w \in Workers : NeverAhead(w) /\ HoldsOne(w) /\ InPlace(w)
        /\ \A w \in Workers : RemembersFirst(w)
        /\ AddressReuse \/ (PipelinesCurrent /\ \A w \in Workers : PointerAgrees(w))

-----------------------------------------------------------------------------
(* Liveness. *)

\* A worker is never stuck with one connection for good.
ClientsFinish(w) == []<>(worker[w].pc # "serve")

\* Once the ConfigMap has stopped changing, every worker that is still running has the
\* pipelines of the last configuration, which is the ConfigMap's unless that does not
\* parse or is gone.  Its sockets are those of the same configuration as long as nothing
\* has failed: after a failed rebind they stay as they are until the next change
\* (server.rs 222-231).  All this only if no address that a worker remembers is allocated
\* again: otherwise a worker may miss the last configuration for good.
Converges ==
    ~AddressReuse /\ (\A w \in Workers : ClientsFinish(w)) =>
    <>[](\A w \in Workers :
            Running(w) /\ ~shutdown =>
            /\ worker[w].built = store.config
            /\ configMap.kind = "config" => worker[w].built.ver = configMap.ver
            /\ faults = MaxFaults => worker[w].bound = store.config)

\* A connection waiting for a worker does not wait for ever, unless that worker's
\* present connection does not end: no listener is starved by the others.
PendingIsTaken ==
    \A w \in Workers : ClientsFinish(w) =>
        \A c \in Clients : c \in Queued(w) ~> c \notin Queued(w)

\* server.rs:112 "When `shutdown_flag` is set, all workers stop accepting and exit", and
\* "The main thread joins all worker threads".
ShutdownCompletes ==
    (\A w \in Workers : ClientsFinish(w)) => (shutdown ~> RunReturns)

=============================================================================
