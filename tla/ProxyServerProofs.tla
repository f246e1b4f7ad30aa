--------------------------- MODULE ProxyServerProofs ---------------------------
(***************************************************************************)
(* The safety of the hot reload, for any number of workers, connections,   *)
(* addresses and changes of the ConfigMap.                                 *)
(***************************************************************************)
EXTENDS ProxyServer, TLAPS

\* The process starts well typed (main.rs:90-125).
LEMMA TypeInit == Init => TypeOK
<1> SUFFICES ASSUME Init PROVE TypeOK
  OBVIOUS
<1>1. PICK l \in ListenerLists :
         /\ configMap = [ver |-> 1, kind |-> "config", listeners |-> l]
         /\ store \in [addr : Addresses, config : {[ver |-> 1, listeners |-> l]}]
  BY DEF Init
<1>2. l \in Seq(Listeners)
  BY ServerAssumption
<1>3. configMap \in Documents /\ store \in Arcs
  BY <1>1, <1>2 DEF Documents, Arcs, Config
<1>4. NoConfig \in Config
  BY DEF NoConfig, Config
<1>5. NewWorker \in WorkerStates
  BY <1>4 DEF NewWorker, WorkerStates
<1>6. NoConnection \in Connections
  BY DEF NoConnection, Connections
<1>7. /\ worker = [w \in Workers |-> NewWorker]
      /\ conn = [c \in Clients |-> NoConnection]
      /\ events = <<>> /\ watch = "list" /\ shutdown = FALSE /\ faults = MaxFaults
  BY DEF Init
<1>8. worker \in [Workers -> WorkerStates] /\ conn \in [Clients -> Connections]
  BY <1>5, <1>6, <1>7
<1>9. events \in Seq(Documents)
  BY <1>7
<1>10. watch \in {"list", "open"} /\ shutdown \in BOOLEAN
  BY <1>7
<1>11. faults \in Nat
  BY <1>7, ServerAssumption
<1>12. QED
  BY <1>3, <1>8, <1>9, <1>10, <1>11 DEF TypeOK

\* Every step keeps the types.
LEMMA TypeNext == TypeOK /\ [Next]_vars => TypeOK'
<1> SUFFICES ASSUME TypeOK, [Next]_vars PROVE TypeOK'
  OBVIOUS
<1> USE DEF TypeOK
<1>1. ASSUME NEW kind \in {"config", "garbage", "deleted"}, NEW l \in Seq(Listeners),
             ChangeConfigMap(kind, l)
      PROVE  TypeOK'
  <2>1. configMap' \in Documents
    BY <1>1 DEF ChangeConfigMap, Documents
  <2>2. events' \in Seq(Documents)
    BY <1>1, <2>1 DEF ChangeConfigMap
  <2>3. QED
    BY <1>1, <2>1, <2>2 DEF ChangeConfigMap
<1>2. CASE WatchBreaks
  BY <1>2 DEF WatchBreaks, Fault
<1>3. CASE WatcherStep
  <2>1. CASE Relist
    BY <2>1 DEF Relist
  <2>2. CASE HandleEvent
    <3>1. Head(events) \in Documents /\ events' \in Seq(Documents)
      BY <2>2 DEF HandleEvent
    <3>2. store' \in Arcs
      BY <2>2, <3>1 DEF HandleEvent, Free, Arcs, Config, Documents
    <3>3. QED
      BY <2>2, <3>1, <3>2 DEF HandleEvent
  <2>3. QED
    BY <1>3, <2>1, <2>2 DEF WatcherStep
<1>4. ASSUME NEW c \in Clients, NEW n \in Listeners, Connect(c, n)
      PROVE  TypeOK'
  <2>1. PICK w \in Workers :
           conn' = [conn EXCEPT ![c] = [st |-> "queued", worker |-> w, port |-> n]]
    BY <1>4 DEF Connect
  <2>2. [st |-> "queued", worker |-> w, port |-> n] \in Connections
    BY DEF Connections
  <2>3. conn' \in [Clients -> Connections]
    BY <2>1, <2>2
  <2>4. QED
    BY <1>4, <2>3 DEF Connect, cluster
<1>5. CASE SignalShutdown
  BY <1>5 DEF SignalShutdown, cluster
<1>6. ASSUME NEW w \in Workers, WorkerStep(w) \/ ServeEnds(w)
      PROVE  TypeOK'
  <2> DEFINE wk == worker[w]
  <2>1. wk \in WorkerStates
    OBVIOUS
  <2> HIDE DEF wk
  <2>a. /\ wk.at + 1 \in Nat
        /\ wk.inFlight + 1 \in Nat
        /\ (IF wk.inFlight = 0 THEN 0 ELSE wk.inFlight - 1) \in Nat
    BY <2>1 DEF WorkerStates
  <2> USE DEF wk
  <2>2. ASSUME NEW new \in WorkerStates, Becomes(w, new)
        PROVE  worker' \in [Workers -> WorkerStates]
    BY <2>2 DEF Becomes
  <2>3. ASSUME CloseSockets(w)
        PROVE  conn' \in [Clients -> Connections]
    BY <2>3 DEF CloseSockets, Closed, NoConnection, Connections
  <2>4. ASSUME NEW arc \in Arcs, NEW bound \in Config, Reloaded(w, arc, bound)
        PROVE  worker' \in [Workers -> WorkerStates]
    <3> DEFINE new == [wk EXCEPT !.bound = bound, !.built = arc.config, !.ptr = arc.addr]
    <3>1. new \in WorkerStates
      BY <2>1 DEF WorkerStates, Arcs
    <3>2. \/ Becomes(w, [new EXCEPT !.pc = "drain", !.held = {}, !.at = 0])
          \/ Becomes(w, [new EXCEPT !.pc = "accept"])
      BY <2>4 DEF Reloaded
    <3> HIDE DEF new
    <3>3. [new EXCEPT !.pc = "drain", !.held = {}, !.at = 0] \in WorkerStates
      BY <3>1 DEF WorkerStates
    <3>4. [new EXCEPT !.pc = "accept"] \in WorkerStates
      BY <3>1 DEF WorkerStates
    <3>5. QED
      BY <2>2, <3>2, <3>3, <3>4
  <2>5. CASE Start(w)
    <3> DEFINE new == [wk EXCEPT !.pc = "top", !.first = {store}, !.ptr = store.addr,
                                 !.bound = store.config, !.built = store.config]
    <3>1. Becomes(w, new) \/ Becomes(w, [wk EXCEPT !.pc = "failed"])
          \/ Becomes(w, [wk EXCEPT !.pc = "stopped"])
      BY <2>5 DEF Start
    <3>2. new \in WorkerStates
      BY <2>1 DEF WorkerStates, Arcs
    <3>3. /\ [wk EXCEPT !.pc = "failed"] \in WorkerStates
          /\ [wk EXCEPT !.pc = "stopped"] \in WorkerStates
      BY <2>1 DEF WorkerStates
    <3> HIDE DEF new, wk
    <3>4. worker' \in [Workers -> WorkerStates]
      BY <3>1, <3>2, <3>3, <2>2
    <3>5. QED
      BY <2>5, <3>4 DEF Start, Fault, cluster
  <2>6. CASE SeeShutdown(w)
    <3>1. [wk EXCEPT !.pc = "drain"] \in WorkerStates
      BY <2>1 DEF WorkerStates
    <3>2. QED
      BY <2>6, <2>2, <3>1 DEF SeeShutdown, cluster
  <2>7. CASE LoadConfig(w)
    <3>1. PICK pc \in {"accept", "reload"} :
             Becomes(w, [wk EXCEPT !.pc = pc, !.held = {store}, !.at = 1])
      BY <2>7 DEF LoadConfig
    <3>2. [wk EXCEPT !.pc = pc, !.held = {store}, !.at = 1] \in WorkerStates
      BY <2>1 DEF WorkerStates
    <3> HIDE DEF wk
    <3>3. worker' \in [Workers -> WorkerStates]
      BY <2>2, <3>1, <3>2
    <3>4. QED
      BY <2>7, <3>3 DEF LoadConfig, cluster
  <2>8. CASE Rebind(w)
    <3>1. PICK arc \in wk.held : Reloaded(w, arc, arc.config)
      BY <2>8 DEF Rebind
    <3>2. arc \in Arcs /\ arc.config \in Config
      BY <2>1 DEF WorkerStates, Arcs
    <3>3. QED
      BY <2>8, <3>1, <3>2, <2>3, <2>4 DEF Rebind, cluster
  <2>9. CASE RebindFails(w)
    <3>1. PICK arc \in wk.held : Reloaded(w, arc, wk.bound)
      BY <2>9 DEF RebindFails
    <3>2. arc \in Arcs /\ wk.bound \in Config
      BY <2>1 DEF WorkerStates
    <3> HIDE DEF wk
    <3>3. worker' \in [Workers -> WorkerStates]
      BY <3>1, <3>2, <2>4
    <3>4. QED
      BY <2>9, <3>3 DEF RebindFails, Fault, cluster
  <2>10. CASE Accept(w)
    <3>1. PICK c \in AtSocket(w) :
             \/ /\ Becomes(w, [wk EXCEPT !.pc = "serve", !.serving = c, !.inFlight = @ + 1])
                /\ conn' = [conn EXCEPT ![c].st = "serving"]
             \/ /\ Becomes(w, [wk EXCEPT !.at = @ + 1])
                /\ conn' = [conn EXCEPT ![c] = Closed]
      BY <2>10 DEF Accept
    <3>2. c \in Clients
      BY DEF AtSocket, Queued
    <3>3. conn' \in [Clients -> Connections]
      BY <3>1, <3>2 DEF Connections, Closed, NoConnection
    <3>4. [wk EXCEPT !.pc = "serve", !.serving = c, !.inFlight = @ + 1] \in WorkerStates
      BY <2>1, <2>a, <3>2 DEF WorkerStates
    <3>5. [wk EXCEPT !.at = @ + 1] \in WorkerStates
      BY <2>1, <2>a DEF WorkerStates
    <3> HIDE DEF wk
    <3>6. worker' \in [Workers -> WorkerStates]
      BY <3>1, <3>4, <3>5, <2>2
    <3>7. QED
      BY <2>10, <3>3, <3>6 DEF Accept, cluster
  <2>11. CASE AcceptNothing(w)
    <3>1. [wk EXCEPT !.at = @ + 1] \in WorkerStates
      BY <2>1, <2>a DEF WorkerStates
    <3>2. worker' \in [Workers -> WorkerStates]
      BY <2>11, <2>2, <3>1 DEF AcceptNothing
    <3>3. QED
      BY <2>11, <3>2 DEF AcceptNothing, Fault, cluster
  <2>12. CASE ServeEnds(w)
    <3>1. conn' \in [Clients -> Connections]
      BY <2>12 DEF ServeEnds, Connections, Closed, NoConnection
    <3> DEFINE new == [wk EXCEPT !.pc = "accept", !.serving = None, !.at = @ + 1,
                                 !.inFlight = IF @ = 0 THEN 0 ELSE @ - 1]
    <3>2. new \in WorkerStates
      BY <2>1, <2>a DEF WorkerStates
    <3>3. worker' \in [Workers -> WorkerStates]
      BY <2>12, <2>2, <3>2 DEF ServeEnds
    <3>4. QED
      BY <2>12, <3>1, <3>3 DEF ServeEnds, cluster
  <2>13. CASE EndIteration(w)
    <3>1. [wk EXCEPT !.pc = "top", !.held = {}, !.at = 0] \in WorkerStates
      BY <2>1 DEF WorkerStates
    <3>2. QED
      BY <2>13, <2>2, <3>1 DEF EndIteration, cluster
  <2>14. CASE Return(w)
    <3>1. [wk EXCEPT !.pc = "stopped", !.first = {}] \in WorkerStates
      BY <2>1 DEF WorkerStates
    <3>2. QED
      BY <2>14, <2>2, <2>3, <3>1 DEF Return, cluster
  <2>15. QED
    BY <1>6, <2>5, <2>6, <2>7, <2>8, <2>9, <2>10, <2>11, <2>12, <2>13, <2>14 DEF WorkerStep
<1>7. CASE UNCHANGED vars
  BY <1>7 DEF vars, cluster
<1>8. ListenerLists \subseteq Seq(Listeners) /\ <<>> \in Seq(Listeners)
  BY ServerAssumption
<1>9. QED
  BY <1>1, <1>2, <1>3, <1>4, <1>5, <1>6, <1>7, <1>8 DEF Next

\* The variables keep their types in every behaviour of the data plane.
THEOREM TypeCorrect == Spec => []TypeOK
<1>1. QED
  BY TypeInit, TypeNext, PTL DEF Spec

-----------------------------------------------------------------------------
(* What a step of a worker does with its Arcs: one of four things. *)

OthersKeep(w) == \A v \in Workers \ {w} : worker'[v] = worker[v]

\* It keeps what it has, or drops some.
Keeps(w) ==
    /\ worker'[w].first \subseteq worker[w].first
    /\ worker'[w].held \subseteq worker[w].held
    /\ worker'[w].ptr = worker[w].ptr
    /\ worker'[w].built = worker[w].built
    /\ worker'[w].pc # "start"
    /\ worker'[w].pc \in {"accept", "serve"} => worker[w].pc \in {"accept", "serve"}

\* It takes the stored Arc to start with.
Takes(w) ==
    /\ worker[w].pc = "start" /\ worker'[w].pc = "top"
    /\ worker'[w].first = {store} /\ worker'[w].held = worker[w].held
    /\ worker'[w].ptr = store.addr /\ worker'[w].built = store.config

\* It loads the stored Arc at the start of an iteration.
Loads(w) ==
    /\ worker'[w].pc \in {"accept", "reload"}
    /\ worker'[w].pc = "accept" => store.addr = worker[w].ptr
    /\ worker'[w].first = worker[w].first /\ worker'[w].held = {store}
    /\ worker'[w].ptr = worker[w].ptr /\ worker'[w].built = worker[w].built

\* It rebuilds its pipelines from the Arc it holds.
Rebuilds(w) ==
    \E arc \in worker[w].held :
       /\ worker'[w].ptr = arc.addr /\ worker'[w].built = arc.config
       /\ worker'[w].first = worker[w].first
       /\ worker'[w].held \subseteq worker[w].held
       /\ worker'[w].pc # "start"

LEMMA BecomesOthers ==
    ASSUME TypeOK, NEW w \in Workers, NEW new, Becomes(w, new)
    PROVE  OthersKeep(w) /\ worker'[w] = new
BY DEF TypeOK, Becomes, OthersKeep

LEMMA ReloadedRebuilds ==
    ASSUME TypeOK, NEW w \in Workers, NEW arc \in worker[w].held, NEW bound,
           Reloaded(w, arc, bound)
    PROVE  OthersKeep(w) /\ Rebuilds(w)
<1>1. worker[w] \in WorkerStates
  BY DEF TypeOK
<1> DEFINE new == [worker[w] EXCEPT !.bound = bound, !.built = arc.config, !.ptr = arc.addr]
<1>2. CASE bound.listeners = <<>>
  <2>1. Becomes(w, [new EXCEPT !.pc = "drain", !.held = {}, !.at = 0])
    BY <1>2 DEF Reloaded
  <2>2. OthersKeep(w) /\ worker'[w] = [new EXCEPT !.pc = "drain", !.held = {}, !.at = 0]
    BY <2>1, BecomesOthers
  <2>3. QED
    BY <1>1, <2>2 DEF Rebuilds, WorkerStates
<1>3. CASE bound.listeners # <<>>
  <2>1. Becomes(w, [new EXCEPT !.pc = "accept"])
    BY <1>3 DEF Reloaded
  <2>2. OthersKeep(w) /\ worker'[w] = [new EXCEPT !.pc = "accept"]
    BY <2>1, BecomesOthers
  <2>3. QED
    BY <1>1, <2>2 DEF Rebuilds, WorkerStates
<1>4. QED
  BY <1>2, <1>3

LEMMA WorkerMoves ==
    ASSUME TypeOK, NEW w \in Workers, WorkerStep(w) \/ ServeEnds(w)
    PROVE  /\ UNCHANGED <<cluster, store>>
           /\ OthersKeep(w)
           /\ Keeps(w) \/ Takes(w) \/ Loads(w) \/ Rebuilds(w)
<1>1. worker[w] \in WorkerStates
  BY DEF TypeOK
<1>2. CASE Start(w)
  <2>1. \/ /\ Becomes(w, [worker[w] EXCEPT !.pc = "top", !.first = {store},
                                           !.ptr = store.addr,
                                           !.bound = store.config, !.built = store.config])
        \/ Becomes(w, [worker[w] EXCEPT !.pc = "failed"])
        \/ Becomes(w, [worker[w] EXCEPT !.pc = "stopped"])
    BY <1>2 DEF Start
  <2>2. /\ OthersKeep(w)
        /\ \/ worker'[w] = [worker[w] EXCEPT !.pc = "top", !.first = {store},
                                              !.ptr = store.addr,
                                              !.bound = store.config, !.built = store.config]
           \/ worker'[w] = [worker[w] EXCEPT !.pc = "failed"]
           \/ worker'[w] = [worker[w] EXCEPT !.pc = "stopped"]
    BY <2>1, BecomesOthers
  <2>3. worker[w].pc = "start"
    BY <1>2 DEF Start
  <2>4. Keeps(w) \/ Takes(w)
    BY <1>1, <2>2, <2>3 DEF WorkerStates, Keeps, Takes
  <2>5. QED
    BY <1>2, <2>2, <2>4 DEF Start
<1>3. CASE SeeShutdown(w)
  BY <1>1, <1>3, BecomesOthers DEF SeeShutdown, WorkerStates, Keeps
<1>4. CASE LoadConfig(w)
  <2>1. /\ OthersKeep(w)
        /\ worker'[w] = [worker[w] EXCEPT !.pc = IF store.addr = worker[w].ptr
                                                 THEN "accept" ELSE "reload",
                                          !.held = {store}, !.at = 1]
    BY <1>4, BecomesOthers DEF LoadConfig
  <2>2. Loads(w)
    BY <1>1, <2>1 DEF WorkerStates, Loads
  <2>3. QED
    BY <1>4, <2>1, <2>2 DEF LoadConfig
<1>5. CASE Rebind(w)
  BY <1>5, ReloadedRebuilds DEF Rebind
<1>6. CASE RebindFails(w)
  BY <1>6, ReloadedRebuilds DEF RebindFails
<1>7. CASE Accept(w)
  <2>1. PICK c \in AtSocket(w) :
           \/ Becomes(w, [worker[w] EXCEPT !.pc = "serve", !.serving = c,
                                           !.inFlight = @ + 1])
           \/ Becomes(w, [worker[w] EXCEPT !.at = @ + 1])
    BY <1>7 DEF Accept
  <2>2. /\ OthersKeep(w)
        /\ \/ worker'[w] = [worker[w] EXCEPT !.pc = "serve", !.serving = c,
                                              !.inFlight = @ + 1]
           \/ worker'[w] = [worker[w] EXCEPT !.at = @ + 1]
    BY <2>1, BecomesOthers
  <2>3. Keeps(w)
    BY <1>1, <1>7, <2>2 DEF Accept, InLoop, WorkerStates, Keeps
  <2>4. QED
    BY <1>7, <2>2, <2>3 DEF Accept
<1>8. CASE AcceptNothing(w)
  BY <1>1, <1>8, BecomesOthers DEF AcceptNothing, InLoop, WorkerStates, Keeps
<1>9. CASE ServeEnds(w)
  <2>1. OthersKeep(w) /\ worker'[w] = [worker[w] EXCEPT !.pc = "accept", !.serving = None,
                              !.at = @ + 1, !.inFlight = IF @ = 0 THEN 0 ELSE @ - 1]
    BY <1>9, BecomesOthers DEF ServeEnds
  <2>2. QED
    BY <1>1, <1>9, <2>1 DEF ServeEnds, WorkerStates, Keeps
<1>10. CASE EndIteration(w)
  <2>1. OthersKeep(w) /\ worker'[w] = [worker[w] EXCEPT !.pc = "top", !.held = {}, !.at = 0]
    BY <1>10, BecomesOthers DEF EndIteration
  <2>2. QED
    BY <1>1, <1>10, <2>1 DEF EndIteration, WorkerStates, Keeps
<1>11. CASE Return(w)
  <2>1. OthersKeep(w) /\ worker'[w] = [worker[w] EXCEPT !.pc = "stopped", !.first = {}]
    BY <1>11, BecomesOthers DEF Return
  <2>2. QED
    BY <1>1, <1>11, <2>1 DEF Return, WorkerStates, Keeps
<1>12. QED
  BY <1>2, <1>3, <1>4, <1>5, <1>6, <1>7, <1>8, <1>9, <1>10, <1>11 DEF WorkerStep

\* Nobody but the watcher makes an Arc.
LEMMA LiveShrinks ==
    ASSUME TypeOK, NEW w \in Workers, WorkerStep(w) \/ ServeEnds(w)
    PROVE  LiveArcs' \subseteq LiveArcs
<1>1. store' = store /\ OthersKeep(w)
  BY WorkerMoves
<1>2. worker'[w].first \cup worker'[w].held
        \subseteq worker[w].first \cup worker[w].held \cup {store}
  BY WorkerMoves DEF Keeps, Takes, Loads, Rebuilds
<1>3. QED
  BY <1>1, <1>2 DEF LiveArcs, OthersKeep

-----------------------------------------------------------------------------
(* The inductive invariant. *)

LEMMA InvariantInit == Init => IInv
<1> SUFFICES ASSUME Init PROVE IInv
  OBVIOUS
<1>1. /\ \A w \in Workers : worker[w] = NewWorker
      /\ store.config.ver = 1 /\ configMap.ver = 1 /\ events = <<>>
  BY DEF Init
<1>2. LiveArcs = {store}
  BY <1>1 DEF LiveArcs, NewWorker
<1>3. AddressesUnique
  BY <1>2 DEF AddressesUnique
<1>4. EventsInOrder
  BY <1>1 DEF EventsInOrder
<1>5. ASSUME NEW w \in Workers
      PROVE  NeverAhead(w) /\ HoldsOne(w) /\ InPlace(w) /\ RemembersFirst(w)
  BY <1>1 DEF NeverAhead, HoldsOne, InPlace, RemembersFirst, NewWorker, NoConfig
<1>6. PipelinesCurrent
  BY <1>1 DEF PipelinesCurrent, NewWorker
<1>7. ASSUME NEW w \in Workers
      PROVE  PointerAgrees(w)
  BY <1>1, <1>2, ServerAssumption DEF PointerAgrees, NewWorker, Init
<1>8. QED
  BY <1>3, <1>4, <1>5, <1>6, <1>7 DEF IInv

\* The watcher stores at an address that nobody has: no step makes two configurations
\* of one address.
LEMMA AddressesUniqueNext ==
    ASSUME TypeOK, AddressesUnique, [Next]_vars
    PROVE  AddressesUnique'
<1>1. ASSUME NEW w \in Workers, WorkerStep(w) \/ ServeEnds(w)
      PROVE  AddressesUnique'
  BY <1>1, LiveShrinks DEF AddressesUnique
<1>2. CASE HandleEvent /\ store' # store
  <2>1. worker' = worker /\ \A arc \in LiveArcs : store'.addr # arc.addr
    BY <1>2 DEF HandleEvent, Free
  <2>2. LiveArcs' \subseteq LiveArcs \cup {store'}
    BY <2>1 DEF LiveArcs
  <2>3. QED
    BY <2>1, <2>2 DEF AddressesUnique
<1>3. CASE UNCHANGED <<store, worker>>
  BY <1>3 DEF AddressesUnique, LiveArcs
<1>4. \/ \E w \in Workers : WorkerStep(w) \/ ServeEnds(w)
      \/ HandleEvent /\ store' # store
      \/ UNCHANGED <<store, worker>>
  BY DEF Next, WatcherStep, vars, cluster, ChangeConfigMap, WatchBreaks, Relist,
         HandleEvent, Connect, SignalShutdown
<1>5. QED
  BY <1>1, <1>2, <1>3, <1>4

\* The watch delivers the versions in their order, and a list starts it again from the
\* present one.
LEMMA EventsInOrderNext ==
    ASSUME TypeOK, EventsInOrder, [Next]_vars
    PROVE  EventsInOrder'
<1>a. /\ configMap \in Documents /\ events \in Seq(Documents) /\ store \in Arcs
      /\ Len(events) \in Nat
  BY DEF TypeOK
<1>b. configMap.ver \in Nat /\ store.config.ver \in Nat
  BY <1>a DEF Documents, Arcs, Config
<1>c. ASSUME NEW i \in 1 .. Len(events)
      PROVE  events[i].ver \in Nat
  <2>1. events[i] \in Documents
    BY <1>a
  <2>2. QED
    BY <2>1 DEF Documents
<1>d. /\ store.config.ver <= configMap.ver
      /\ \A i \in 1 .. Len(events) :
            store.config.ver <= events[i].ver /\ events[i].ver <= configMap.ver
      /\ \A i, j \in 1 .. Len(events) : i < j => events[i].ver <= events[j].ver
  BY DEF EventsInOrder
<1>1. ASSUME NEW kind, NEW l, ChangeConfigMap(kind, l)
      PROVE  EventsInOrder'
  <2>1. configMap'.ver = configMap.ver + 1 /\ store' = store
    BY <1>1 DEF ChangeConfigMap
  <2>2. ASSUME NEW i \in 1 .. Len(events)
        PROVE  store'.config.ver <= events[i].ver /\ events[i].ver <= configMap'.ver
    BY <2>1, <1>b, <1>c, <1>d
  <2>3. store'.config.ver <= configMap'.ver
    BY <2>1, <1>b, <1>d
  <2>4. CASE events' = events
    BY <2>2, <2>3, <2>4, <1>d DEF EventsInOrder
  <2>5. CASE events' = Append(events, configMap')
    <3>1. /\ Len(events') = Len(events) + 1
          /\ \A i \in 1 .. Len(events) : events'[i] = events[i]
          /\ events'[Len(events) + 1] = configMap'
      BY <1>a, <2>5
    <3>2. ASSUME NEW i \in 1 .. Len(events')
          PROVE  i \in 1 .. Len(events) \/ events'[i] = configMap'
      BY <1>a, <3>1
    <3>3. ASSUME NEW i \in 1 .. Len(events')
          PROVE  store'.config.ver <= events'[i].ver /\ events'[i].ver <= configMap'.ver
      <4>1. configMap'.ver <= configMap'.ver
        BY <1>b, <2>1
      <4>2. QED
        BY <2>2, <2>3, <3>1, <3>2, <4>1
    <3>4. ASSUME NEW i \in 1 .. Len(events'), NEW j \in 1 .. Len(events'), i < j
          PROVE  events'[i].ver <= events'[j].ver
      <4>1. i \in 1 .. Len(events)
        BY <1>a, <3>1, <3>4
      <4>2. CASE j \in 1 .. Len(events)
        BY <4>1, <4>2, <3>1, <3>4, <1>d
      <4>3. CASE events'[j] = configMap'
        BY <4>1, <4>3, <3>1, <2>2
      <4>4. QED
        BY <4>2, <4>3, <3>2
    <3>5. QED
      BY <2>3, <3>3, <3>4 DEF EventsInOrder
  <2>6. QED
    BY <1>1, <2>4, <2>5 DEF ChangeConfigMap
<1>2. CASE Relist
  <2>1. store' = store /\ configMap' = configMap /\ (events' = <<>> \/ events' = <<configMap>>)
    BY <1>2 DEF Relist
  <2>2. QED
    BY <2>1, <1>b, <1>d DEF EventsInOrder
<1>3. CASE HandleEvent
  <2>1. /\ events # <<>> /\ events' = Tail(events) /\ configMap' = configMap
        /\ store'.config.ver \in {store.config.ver, events[1].ver}
    BY <1>3 DEF HandleEvent
  <2>2. /\ Len(events') = Len(events) - 1 /\ 1 \in 1 .. Len(events)
        /\ \A i \in 1 .. Len(events') : events'[i] = events[i + 1]
    BY <1>a, <2>1
  <2>3. store'.config.ver <= events[1].ver /\ store'.config.ver <= configMap'.ver
    BY <2>1, <2>2, <1>b, <1>c, <1>d
  <2>4. ASSUME NEW i \in 1 .. Len(events')
        PROVE  store'.config.ver <= events'[i].ver /\ events'[i].ver <= configMap'.ver
    <3>1. i + 1 \in 1 .. Len(events) /\ 1 < i + 1
      BY <1>a, <2>2
    <3>2. events[1].ver <= events[i + 1].ver /\ events[i + 1].ver <= configMap.ver
      BY <3>1, <2>2, <1>d
    <3>3. store'.config.ver \in Nat /\ events[1].ver \in Nat /\ events[i + 1].ver \in Nat
      BY <3>1, <2>1, <2>2, <1>b, <1>c
    <3>4. store'.config.ver <= events[i + 1].ver
      BY <3>2, <3>3, <2>3
    <3>5. QED
      BY <3>2, <3>4, <2>1, <2>2
  <2>5. ASSUME NEW i \in 1 .. Len(events'), NEW j \in 1 .. Len(events'), i < j
        PROVE  events'[i].ver <= events'[j].ver
    <3>1. i + 1 \in 1 .. Len(events) /\ j + 1 \in 1 .. Len(events) /\ i + 1 < j + 1
      BY <1>a, <2>2, <2>5
    <3>2. QED
      BY <3>1, <2>2, <1>d
  <2>6. QED
    BY <2>3, <2>4, <2>5 DEF EventsInOrder
<1>4. CASE UNCHANGED <<store, configMap, events>>
  BY <1>4 DEF EventsInOrder
<1>5. ASSUME NEW w \in Workers, WorkerStep(w) \/ ServeEnds(w)
      PROVE  UNCHANGED <<store, configMap, events>>
  BY <1>5, WorkerMoves DEF cluster
<1>6. QED
  BY <1>1, <1>2, <1>3, <1>4, <1>5
     DEF Next, WatcherStep, vars, cluster, WatchBreaks, Connect, SignalShutdown

\* A step is one of a worker, or it leaves the workers alone and stores nothing or an
\* Arc of its own making.
LEMMA StepKinds ==
    ASSUME TypeOK, EventsInOrder, [Next]_vars
    PROVE  \/ \E w \in Workers : WorkerStep(w) \/ ServeEnds(w)
           \/ /\ UNCHANGED worker
              /\ \/ store' = store
                 \/ /\ store'.addr \in Free
                    /\ store.config.ver <= store'.config.ver
                    /\ store' \in Arcs
<1>1. CASE HandleEvent
  <2>1. CASE store' = store
    BY <1>1, <2>1 DEF HandleEvent
  <2>2. CASE store' # store
    <3>1. PICK a \in Free :
             store' = [addr |-> a, config |-> [ver |-> Head(events).ver,
                                               listeners |-> Head(events).listeners]]
      BY <1>1, <2>2 DEF HandleEvent
    <3>2. events \in Seq(Documents) /\ events # <<>> /\ worker' = worker
      BY <1>1 DEF HandleEvent, TypeOK
    <3>3. Head(events) \in Documents /\ 1 \in 1 .. Len(events) /\ Head(events) = events[1]
      BY <3>2
    <3>4. store.config.ver <= Head(events).ver
      BY <3>3 DEF EventsInOrder
    <3>5. store' \in Arcs
      BY <3>1, <3>3 DEF Arcs, Config, Free, Documents
    <3>6. QED
      BY <3>1, <3>2, <3>4, <3>5
  <2>3. QED
    BY <2>1, <2>2
<1>2. QED
  BY <1>1 DEF Next, WatcherStep, vars, cluster, ChangeConfigMap, WatchBreaks, Relist,
              Connect, SignalShutdown

\* A worker only ever goes on to a configuration that is at least as new.
LEMMA NeverAheadNext ==
    ASSUME TypeOK, EventsInOrder, NEW v \in Workers, NeverAhead(v), HoldsOne(v),
           [Next]_vars
    PROVE  NeverAhead(v)'
<1>1. /\ store \in Arcs /\ worker[v] \in WorkerStates
      /\ store.config.ver \in Nat /\ worker[v].built.ver \in Nat
      /\ \A arc \in worker[v].held : arc \in Arcs /\ arc.config.ver \in Nat
  BY DEF TypeOK, Arcs, WorkerStates, Config
<1>2. /\ worker[v].built.ver <= store.config.ver
      /\ \A arc \in worker[v].held :
            worker[v].built.ver <= arc.config.ver /\ arc.config.ver <= store.config.ver
  BY DEF NeverAhead
<1>3. ASSUME NEW w \in Workers, WorkerStep(w) \/ ServeEnds(w)
      PROVE  NeverAhead(v)'
  <2>1. store' = store /\ OthersKeep(w)
    BY <1>3, WorkerMoves
  <2>2. CASE v # w
    BY <2>1, <2>2, <1>2 DEF OthersKeep, NeverAhead
  <2>3. CASE v = w
    <3>1. CASE Keeps(v)
      BY <3>1, <2>1, <1>2 DEF Keeps, NeverAhead
    <3>2. CASE Takes(v)
      BY <3>2, <2>1, <1>1 DEF Takes, NeverAhead, HoldsOne
    <3>3. CASE Loads(v)
      BY <3>3, <2>1, <1>1, <1>2 DEF Loads, NeverAhead
    <3>4. CASE Rebuilds(v)
      <4>1. PICK arc \in worker[v].held :
               /\ worker'[v].built = arc.config
               /\ \A other \in worker'[v].held : other = arc
        BY <3>4 DEF Rebuilds, HoldsOne
      <4>2. QED
        BY <4>1, <2>1, <1>1, <1>2 DEF NeverAhead
    <3>5. QED
      BY <1>3, <2>3, <3>1, <3>2, <3>3, <3>4, WorkerMoves
  <2>4. QED
    BY <2>2, <2>3
<1>4. CASE worker' = worker /\ store' = store
  BY <1>2, <1>4 DEF NeverAhead
<1>5. CASE worker' = worker /\ store' \in Arcs /\ store.config.ver <= store'.config.ver
  <2>1. store'.config.ver \in Nat
    BY <1>5 DEF Arcs, Config
  <2>2. QED
    BY <1>1, <1>2, <1>5, <2>1 DEF NeverAhead
<1>6. QED
  BY <1>3, <1>4, <1>5, StepKinds

\* new_config is at most one Arc.
LEMMA HoldsOneNext ==
    ASSUME TypeOK, EventsInOrder, NEW v \in Workers, HoldsOne(v), [Next]_vars
    PROVE  HoldsOne(v)'
<1>1. ASSUME NEW w \in Workers, WorkerStep(w) \/ ServeEnds(w)
      PROVE  HoldsOne(v)'
  <2>1. CASE v # w
    BY <1>1, <2>1, WorkerMoves DEF OthersKeep, HoldsOne
  <2>2. CASE v = w
    BY <1>1, <2>2, WorkerMoves DEF Keeps, Takes, Loads, Rebuilds, HoldsOne
  <2>3. QED
    BY <2>1, <2>2
<1>2. CASE worker' = worker
  BY <1>2 DEF HoldsOne
<1>3. QED
  BY <1>1, <1>2, StepKinds

\* The address of the Arc that a worker keeps is not allocated again: while the worker
\* remembers it, it has the pipelines of that Arc (server.rs:193-232).
LEMMA RemembersFirstNext ==
    ASSUME TypeOK, IInv, NEW v \in Workers, [Next]_vars
    PROVE  RemembersFirst(v)'
<1>1. AddressesUnique /\ EventsInOrder /\ RemembersFirst(v) /\ HoldsOne(v)
  BY DEF IInv
<1>2. store \in LiveArcs /\ worker[v].first \subseteq LiveArcs /\ worker[v].held \subseteq LiveArcs
  BY DEF LiveArcs
<1>3. ASSUME NEW w \in Workers, WorkerStep(w) \/ ServeEnds(w)
      PROVE  RemembersFirst(v)'
  <2>1. CASE v # w
    BY <1>1, <1>3, <2>1, WorkerMoves DEF OthersKeep, RemembersFirst
  <2>2. CASE v = w /\ Keeps(v)
    BY <1>1, <2>2 DEF Keeps, RemembersFirst
  <2>3. CASE v = w /\ Takes(v)
    BY <2>3 DEF Takes, RemembersFirst
  <2>4. CASE v = w /\ Loads(v)
    BY <1>1, <2>4 DEF Loads, RemembersFirst
  <2>5. CASE v = w /\ Rebuilds(v)
    <3>1. PICK arc \in worker[v].held :
             /\ worker'[v].ptr = arc.addr /\ worker'[v].built = arc.config
             /\ worker'[v].first = worker[v].first
             /\ worker'[v].held \subseteq worker[v].held
      BY <2>5 DEF Rebuilds
    <3>2. \A kept \in worker[v].first : kept.addr = arc.addr => kept.config = arc.config
      BY <1>1, <1>2 DEF AddressesUnique
    <3>3. \A other \in worker[v].held : other = arc
      BY <1>1 DEF HoldsOne
    <3>4. QED
      BY <3>1, <3>2, <3>3 DEF RemembersFirst
  <2>6. QED
    BY <1>3, <2>1, <2>2, <2>3, <2>4, <2>5, WorkerMoves
<1>4. CASE worker' = worker
  BY <1>1, <1>4 DEF RemembersFirst
<1>5. QED
  BY <1>1, <1>3, <1>4, StepKinds

\* As long as a remembered address is not allocated again, equal addresses mean equal
\* configurations.
LEMMA PointerAgreesNext ==
    ASSUME TypeOK, IInv, ~AddressReuse, [Next]_vars, NEW v \in Workers
    PROVE  PointerAgrees(v)'
<1>1. AddressesUnique /\ EventsInOrder /\ PointerAgrees(v) /\ HoldsOne(v)
  BY DEF IInv
<1>2. ASSUME NEW w \in Workers, WorkerStep(w) \/ ServeEnds(w)
      PROVE  PointerAgrees(v)'
  <2>1. LiveArcs' \subseteq LiveArcs /\ store' = store /\ OthersKeep(w)
    BY <1>2, WorkerMoves, LiveShrinks
  <2>2. CASE \/ worker'[v].ptr = worker[v].ptr /\ worker'[v].built = worker[v].built
             \/ \E arc \in LiveArcs : /\ worker'[v].ptr = arc.addr
                                      /\ worker'[v].built = arc.config
    BY <1>1, <2>1, <2>2 DEF PointerAgrees, AddressesUnique
  <2>3. store \in LiveArcs /\ worker[v].held \subseteq LiveArcs
    BY DEF LiveArcs
  <2>4. CASE v # w
    BY <2>1, <2>2, <2>4 DEF OthersKeep
  <2>5. CASE v = w
    BY <1>2, <2>2, <2>3, <2>5, WorkerMoves DEF Keeps, Takes, Loads, Rebuilds
  <2>6. QED
    BY <2>4, <2>5
<1>3. CASE worker' = worker /\ store' = store
  BY <1>1, <1>3 DEF PointerAgrees, LiveArcs
<1>4. CASE worker' = worker /\ store'.addr \in Free
  <2>1. store'.addr # worker[v].ptr
    BY <1>4 DEF Free
  <2>2. LiveArcs' \subseteq LiveArcs \cup {store'}
    BY <1>4 DEF LiveArcs
  <2>3. QED
    BY <1>1, <1>4, <2>1, <2>2 DEF PointerAgrees
<1>5. QED
  BY <1>1, <1>2, <1>3, <1>4, StepKinds

\* The pipelines of an iteration come from the configuration loaded at its start.
LEMMA PipelinesCurrentNext ==
    ASSUME TypeOK, IInv, ~AddressReuse, [Next]_vars
    PROVE  PipelinesCurrent'
<1>1. PipelinesCurrent /\ EventsInOrder
  BY DEF IInv
<1>2. ASSUME NEW v \in Workers, NEW w \in Workers, WorkerStep(w) \/ ServeEnds(w),
             worker'[v].pc \in {"accept", "serve"}, NEW arc \in worker'[v].held
      PROVE  worker'[v].built = arc.config
  <2>1. PointerAgrees(v) /\ HoldsOne(v)
    BY DEF IInv
  <2>2. CASE v # w
    BY <1>1, <1>2, <2>2, WorkerMoves DEF OthersKeep, PipelinesCurrent
  <2>3. CASE v = w
    <3>1. CASE Keeps(v)
      BY <1>1, <1>2, <3>1 DEF Keeps, PipelinesCurrent
    <3>2. CASE Takes(v)
      BY <1>2, <3>2 DEF Takes
    <3>3. CASE Loads(v)
      <4>1. CASE worker'[v].pc = "accept"
        BY <1>2, <2>1, <3>3, <4>1 DEF Loads, PointerAgrees, LiveArcs
      <4>2. QED
        BY <1>2, <3>3, <4>1 DEF Loads
    <3>4. CASE Rebuilds(v)
      BY <1>2, <2>1, <3>4 DEF Rebuilds, HoldsOne
    <3>5. QED
      BY <1>2, <2>3, <3>1, <3>2, <3>3, <3>4, WorkerMoves
  <2>4. QED
    BY <2>2, <2>3
<1>3. CASE worker' = worker
  BY <1>1, <1>3 DEF PipelinesCurrent
<1>4. ASSUME NEW w \in Workers, WorkerStep(w) \/ ServeEnds(w)
      PROVE  PipelinesCurrent'
  BY <1>2, <1>4 DEF PipelinesCurrent
<1>5. QED
  BY <1>1, <1>3, <1>4, StepKinds

\* Nobody but its worker takes a connection that is served out of service.
LEMMA InPlaceNext ==
    ASSUME TypeOK, \A w \in Workers : InPlace(w), [Next]_vars,
           NEW v \in Workers
    PROVE  InPlace(v)'
<1>1. worker \in [Workers -> WorkerStates] /\ conn \in [Clients -> Connections]
  BY DEF TypeOK
<1>2. ASSUME worker'[v] = worker[v],
             \A c \in Clients : conn[c].st = "serving" /\ conn[c].worker = v
                                => conn'[c] = conn[c]
      PROVE  InPlace(v)'
  BY <1>2 DEF InPlace
<1>3. ASSUME NEW w \in Workers, CloseSockets(w), NEW c \in Clients,
             conn[c].st = "serving"
      PROVE  conn'[c] = conn[c]
  BY <1>3 DEF CloseSockets, Queued
<1>4. ASSUME NEW w \in Workers \ {v}, WorkerStep(w) \/ ServeEnds(w)
      PROVE  InPlace(v)'
  <2>1. worker'[v] = worker[v]
    BY <1>4, WorkerMoves DEF OthersKeep
  <2>2. ASSUME NEW c \in Clients, conn[c].st = "serving", conn[c].worker = v
        PROVE  conn'[c] = conn[c]
    <3>1. CASE Rebind(w) \/ Return(w)
      BY <3>1, <2>2, <1>3 DEF Rebind, Return
    <3>2. CASE Accept(w)
      BY <3>2, <2>2, <1>1 DEF Accept, AtSocket, Queued
    <3>3. CASE ServeEnds(w)
      <4>1. /\ worker[w].serving \in Clients /\ conn[worker[w].serving].worker = w
            /\ conn' = [conn EXCEPT ![worker[w].serving] = Closed]
        BY <3>3, InPlace(w) DEF ServeEnds, InPlace
      <4>2. c # worker[w].serving
        BY <4>1, <2>2
      <4>3. QED
        BY <4>1, <4>2, <1>1
    <3>4. QED
      BY <1>4, <3>1, <3>2, <3>3
         DEF WorkerStep, Start, SeeShutdown, LoadConfig, RebindFails, AcceptNothing,
             EndIteration
  <2>3. QED
    BY <2>1, <2>2, <1>2
<1>5. ASSUME WorkerStep(v) \/ ServeEnds(v)
      PROVE  InPlace(v)'
  <2>1. CASE Accept(v)
    <3>1. PICK c \in AtSocket(v) :
             \/ /\ Becomes(v, [worker[v] EXCEPT !.pc = "serve", !.serving = c,
                                                !.inFlight = @ + 1])
                /\ conn' = [conn EXCEPT ![c].st = "serving"]
             \/ Becomes(v, [worker[v] EXCEPT !.at = @ + 1])
      BY <2>1 DEF Accept
    <3>2. /\ c \in Clients /\ conn[c].worker = v /\ worker[v].pc = "accept"
          /\ conn[c].port = worker[v].bound.listeners[worker[v].at]
      BY <2>1 DEF AtSocket, Queued, Accept, InLoop
    <3>3. CASE worker'[v] = [worker[v] EXCEPT !.pc = "serve", !.serving = c,
                                              !.inFlight = @ + 1]
               /\ conn' = [conn EXCEPT ![c].st = "serving"]
      <4>1. conn'[c] = [st |-> "serving", worker |-> v, port |-> conn[c].port]
        BY <1>1, <3>2, <3>3 DEF Connections
      <4>2. /\ worker'[v].serving = c /\ worker'[v].at = worker[v].at
            /\ worker'[v].bound = worker[v].bound
        BY <1>1, <3>3 DEF WorkerStates
      <4>3. QED
        BY <4>1, <4>2, <3>2 DEF InPlace
    <3>4. CASE worker'[v] = [worker[v] EXCEPT !.at = @ + 1]
      <4>1. worker'[v].pc = "accept"
        BY <1>1, <3>2, <3>4 DEF WorkerStates
      <4>2. QED
        BY <4>1 DEF InPlace
    <3>5. QED
      BY <3>1, <3>3, <3>4, BecomesOthers
  <2>2. ASSUME ~Accept(v)
        PROVE  worker'[v].pc # "serve"
    <3>1. worker[v] \in WorkerStates
      BY <1>1
    <3>2. ASSUME NEW arc \in worker[v].held, NEW bound, Reloaded(v, arc, bound)
          PROVE  worker'[v].pc # "serve"
      BY <1>1, <3>1, <3>2 DEF Reloaded, Becomes, WorkerStates
    <3>3. CASE Start(v) \/ SeeShutdown(v) \/ LoadConfig(v)
      BY <1>1, <3>1, <3>3 DEF Start, SeeShutdown, LoadConfig, Becomes, WorkerStates
    <3>4. CASE AcceptNothing(v)
      BY <1>1, <3>1, <3>4 DEF AcceptNothing, InLoop, Becomes, WorkerStates
    <3>5. CASE ServeEnds(v)
      <4>1. worker'[v] = [worker[v] EXCEPT !.pc = "accept", !.serving = None,
                             !.at = @ + 1, !.inFlight = IF @ = 0 THEN 0 ELSE @ - 1]
        BY <1>1, <3>5 DEF ServeEnds, Becomes
      <4>2. QED
        BY <3>1, <4>1 DEF WorkerStates
    <3>6. CASE EndIteration(v) \/ Return(v)
      BY <1>1, <3>1, <3>6 DEF EndIteration, Return, Becomes, WorkerStates
    <3>7. QED
      BY <1>5, <2>2, <3>2, <3>3, <3>4, <3>5, <3>6 DEF WorkerStep, Rebind, RebindFails
  <2>3. QED
    BY <2>1, <2>2 DEF InPlace
<1>6. CASE \E c \in Clients, n \in Listeners : Connect(c, n)
  BY <1>1, <1>2, <1>6 DEF Connect
<1>7. CASE UNCHANGED <<worker, conn>>
  BY <1>7 DEF InPlace
<1>8. QED
  BY <1>4, <1>5, <1>6, <1>7
     DEF Next, WatcherStep, vars, cluster, ChangeConfigMap, WatchBreaks, Relist,
         HandleEvent, SignalShutdown

\* The invariant IInv of ProxyServer holds in every behaviour of the data plane
\* (main.rs:183-253, server.rs:184-293).
THEOREM InductiveInvariant == Spec => []IInv
<1>1. TypeOK /\ IInv /\ [Next]_vars => IInv'
  <2> SUFFICES ASSUME TypeOK, IInv, [Next]_vars PROVE IInv'
    OBVIOUS
  <2>1. /\ AddressesUnique /\ EventsInOrder
        /\ \A w \in Workers : NeverAhead(w) /\ HoldsOne(w) /\ InPlace(w)
        /\ \A w \in Workers : RemembersFirst(w)
    BY DEF IInv
  <2>2. AddressesUnique' /\ EventsInOrder'
    BY <2>1, AddressesUniqueNext, EventsInOrderNext
  <2>3. ASSUME NEW v \in Workers
        PROVE  NeverAhead(v)' /\ HoldsOne(v)' /\ InPlace(v)' /\ RemembersFirst(v)'
    BY <2>1, NeverAheadNext, HoldsOneNext, InPlaceNext, RemembersFirstNext
  <2>4. ASSUME ~AddressReuse
        PROVE  PipelinesCurrent' /\ \A w \in Workers : PointerAgrees(w)'
    BY <2>4, PipelinesCurrentNext, PointerAgreesNext
  <2>5. QED
    BY <2>2, <2>3, <2>4, ServerAssumption DEF IInv
<1>2. QED
  BY <1>1, InvariantInit, TypeCorrect, PTL DEF Spec

-----------------------------------------------------------------------------
(* What follows from the invariant. *)

\* Whatever addresses the allocator returns, a worker that has not reloaded yet finds
\* the first change of the configuration by comparing addresses: the one it remembers is
\* that of an Arc it keeps (server.rs:193-232).
THEOREM FirstChangeIsDetected == Spec => []FirstChangeDetected
<1>1. ASSUME IInv, NEW w \in Workers, worker[w].pc \in {"accept", "serve"},
             NEW kept \in worker[w].first, NEW arc \in worker[w].held,
             worker[w].ptr = kept.addr
      PROVE  worker[w].built = arc.config
  <2>1. kept.config = worker[w].built /\ arc.addr = kept.addr
    BY <1>1 DEF IInv, RemembersFirst
  <2>2. kept \in LiveArcs /\ arc \in LiveArcs
    BY DEF LiveArcs
  <2>3. QED
    BY <1>1, <2>1, <2>2 DEF IInv, AddressesUnique
<1>2. IInv => FirstChangeDetected
  BY <1>1 DEF FirstChangeDetected
<1>3. QED
  BY <1>2, InductiveInvariant, PTL

\* A worker whose last rebind has succeeded serves each connection with the pipeline of
\* the listener whose port it arrived at (server.rs:246-279).
THEOREM ServedAsItArrived == Spec => []ServedByItsListener
<1>1. ASSUME IInv, NEW w \in Workers,
             worker[w].pc = "serve", worker[w].bound = worker[w].built
      PROVE  PipelineName(w) = conn[worker[w].serving].port
  <2>1. conn[worker[w].serving] = [st |-> "serving", worker |-> w,
                                   port |-> worker[w].bound.listeners[worker[w].at]]
    BY <1>1 DEF IInv, InPlace
  <2>2. conn[worker[w].serving].port = worker[w].bound.listeners[worker[w].at]
    BY <2>1
  <2>3. QED
    BY <1>1, <2>2 DEF PipelineName
<1>2. IInv => ServedByItsListener
  BY <1>1 DEF ServedByItsListener
<1>3. QED
  BY <1>2, InductiveInvariant, PTL

\* The data plane implements the abstract hot reload: the stored configuration is only
\* ever replaced by a newer one, through broken watches and lists too, and each worker
\* goes on to a configuration that is at least as new (main.rs:185-253,
\* server.rs:213-235).
THEOREM ReloadRefinement == Spec => ReloadsForward
<1>1. Init => Abstract!Init
  BY DEF Init, Abstract!Init, NewWorker, NoConfig
<1>2. ASSUME TypeOK, IInv, [Next]_vars
      PROVE  [Abstract!Next]_<<store.config.ver, [w \in Workers |-> worker[w].built.ver]>>
  <2> DEFINE running == [w \in Workers |-> worker[w].built.ver]
  <2>1. EventsInOrder /\ \A w \in Workers : NeverAhead(w)
    BY <1>2 DEF IInv
  <2>2. store.config.ver \in Nat /\ \A w \in Workers : worker[w].built.ver \in Nat
    BY <1>2 DEF TypeOK, Arcs, WorkerStates, Config
  <2>3. ASSUME NEW w \in Workers, WorkerStep(w) \/ ServeEnds(w)
        PROVE  Abstract!Adopt(w)
    <3>1. store' = store /\ \A v \in Workers \ {w} : worker'[v] = worker[v]
      BY <1>2, <2>3, WorkerMoves DEF OthersKeep
    <3>2. NeverAhead(w) /\ NeverAhead(w)'
      BY <1>2, <2>1, NeverAheadNext DEF IInv
    <3>3. worker'[w].built.ver \in worker[w].built.ver .. store.config.ver
      <4>1. worker'[w].built.ver \in Nat
        BY <1>2, TypeNext DEF TypeOK, WorkerStates, Config
      <4>2. worker[w].built.ver <= worker'[w].built.ver
        BY <1>2, <2>2, <2>3, <3>2, WorkerMoves
           DEF Keeps, Takes, Loads, Rebuilds, NeverAhead
      <4>3. worker'[w].built.ver <= store.config.ver
        BY <3>1, <3>2 DEF NeverAhead
      <4>4. QED
        BY <2>2, <4>1, <4>2, <4>3
    <3>4. running' = [running EXCEPT ![w] = running'[w]]
      BY <3>1
    <3>5. QED
      BY <3>1, <3>3, <3>4 DEF Abstract!Adopt
  <2>4. CASE worker' = worker /\ store' = store
    BY <2>4
  <2>5. CASE worker' = worker /\ store.config.ver <= store'.config.ver /\ store' \in Arcs
    <3>1. store'.config.ver \in Nat
      BY <2>5 DEF Arcs, Config
    <3>2. CASE store'.config.ver = store.config.ver
      BY <2>5, <3>2
    <3>3. CASE store'.config.ver > store.config.ver
      BY <2>5, <3>1, <3>3 DEF Abstract!Publish, Abstract!Next
    <3>4. QED
      BY <2>2, <2>5, <3>1, <3>2, <3>3
  <2>6. QED
    BY <1>2, <2>1, <2>3, <2>4, <2>5, StepKinds DEF Abstract!Next
<1>3. QED
  BY <1>1, <1>2, TypeCorrect, InductiveInvariant, PTL DEF Spec, ReloadsForward, Abstract!Spec

=============================================================================
