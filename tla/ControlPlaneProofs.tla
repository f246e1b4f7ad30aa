-------------------------- MODULE ControlPlaneProofs --------------------------
(***************************************************************************)
(* The types of ControlPlane, for every set of Gateways, HTTPRoutes,       *)
(* Services, specs and every budget; the inductive invariant IInv, and the *)
(* safety properties that follow from it.                                  *)
(*                                                                         *)
(* GwView, RtView and PairView reduce every step to the steps on one       *)
(* Gateway and one HTTPRoute.  GwInvNext, RtInvNext, ListNext and          *)
(* AcceptedNext show that those steps preserve the parts of IInv that      *)
(* speak of the Gateway, of the HTTPRoute and of both.  HInv is about      *)
(* ControlPlaneHistory.                                                    *)
(***************************************************************************)
EXTENDS ControlPlaneHistory, TLAPS

-----------------------------------------------------------------------------
(* Every action keeps the variables in their types. *)

\* The empty objects, statuses and tasks, which deletions, the garbage collector and
\* the end of a reconcile leave behind, have the types of the full ones.
LEMMA NoneTypes ==
    /\ NoGateway \in GatewayObjects
    /\ NoRoute \in RouteObjects
    /\ NoConfigMap \in ConfigMaps
    /\ NoService \in Services
    /\ NoGwStatus \in GwStatuses
    /\ NoRtStatus \in RtStatuses
    /\ IdleGw \in GwTasks
    /\ IdleRt \in RtTasks
BY SpecAssumption DEF NoGateway, NoRoute, NoConfigMap, NoService, NoGwStatus, NoRtStatus,
   IdleGw, IdleRt, GatewayObjects, RouteObjects, ConfigMaps, Services, GwStatuses,
   RtStatuses, GwTasks, RtTasks, GwPcs, RtPcs, Version, NoVersion

\* The cluster and the controllers start well typed (main.rs builds the controllers
\* before the first watch event arrives).
LEMMA TypeInit == Init => TypeOK
<1> SUFFICES ASSUME Init PROVE TypeOK
  OBVIOUS
<1>1. gateway \in [Gateways -> GatewayObjects] /\ route \in [Routes -> RouteObjects]
  BY NoneTypes DEF Init, GatewayObjects, RouteObjects
<1>2. timer \in [Keys -> {"none", "soon", "late"}] /\ queue \subseteq Keys
  BY NameAssumption DEF Init, Keys
<1>3. class \in ClassStates
  BY NameAssumption DEF Init, ClassStates
<1>4. QED
  BY <1>1, <1>2, <1>3, NoneTypes, BudgetAssumption DEF Init, TypeOK

\* What a Gateway reconcile records of its snapshot (fetcher.rs) keeps its task typed.
LEMMA GwTaskTyped ==
    ASSUME NEW t \in GwTasks, NEW pc \in GwPcs
    PROVE  /\ [t EXCEPT !.pc = pc] \in GwTasks
           /\ \A b \in BOOLEAN : /\ [t EXCEPT !.pc = pc, !.accepted = b] \in GwTasks
                                 /\ [t EXCEPT !.pc = pc, !.addr = b] \in GwTasks
                                 /\ [t EXCEPT !.pc = pc, !.seen = b] \in GwTasks
           /\ \A f \in [Routes -> Version] : [t EXCEPT !.pc = pc, !.routes = f] \in GwTasks
BY DEF GwTasks

\* The same of what an HTTPRoute reconcile records of its parents and of its writes.
LEMMA RtTaskTyped ==
    ASSUME NEW t \in RtTasks, NEW pc \in RtPcs, NEW todo \in SUBSET Gateways
    PROVE  /\ [t EXCEPT !.pc = pc] \in RtTasks
           /\ [t EXCEPT !.pc = pc, !.todo = todo] \in RtTasks
           /\ [t EXCEPT !.pc = pc, !.target = {}] \in RtTasks
           /\ [t EXCEPT !.todo = todo] \in RtTasks
           /\ \A b \in BOOLEAN : [t EXCEPT !.pc = pc, !.accepted = b] \in RtTasks
           /\ \A okay \in SUBSET Gateways, g \in Gateways, v \in Version :
                [t EXCEPT !.pc = pc, !.todo = todo, !.okay = okay, !.found[g] = v] \in RtTasks
           /\ \A target \in SUBSET Gateways, b \in BOOLEAN :
                [t EXCEPT !.pc = pc, !.target = target, !.todo = todo, !.seen = b] \in RtTasks
BY DEF RtTasks

\* One step per handler: users' edits, the garbage collector, the work queue, the calls
\* of the three reconcilers and their failures, a restart.
LEMMA TypeNext == TypeOK /\ [Next]_vars => TypeOK'
<1> SUFFICES ASSUME TypeOK, [Next]_vars PROVE TypeOK'
  OBVIOUS
<1> USE DEF TypeOK
<1>a. /\ \A g \in Gateways : gwTask[g] \in GwTasks
      /\ \A r \in Routes : rtTask[r] \in RtTasks
  OBVIOUS
<1>1. ASSUME NEW g \in Gateways, NEW s \in GatewaySpecs, ApplyGateway(g, s) PROVE TypeOK'
  <2>1. left' \in [Kinds -> Nat]
    BY <1>1 DEF ApplyGateway, Spend, Kinds
  <2>2. queue' \subseteq Keys
    BY <1>1, NameAssumption DEF ApplyGateway, Trigger, Keys, GatewayEvent
  <2>3. gateway' \in [Gateways -> GatewayObjects]
    BY <1>1, NoneTypes DEF ApplyGateway, NextVersion, GatewayObjects
  <2>4. gwStatus' \in [Gateways -> GwStatuses]
    BY <1>1, NoneTypes DEF ApplyGateway
  <2>5. QED
    BY <1>1, <2>1, <2>2, <2>3, <2>4
       DEF ApplyGateway, world, owned, statuses, control, Spend, Trigger
<1>2. ASSUME NEW g \in Gateways, DeleteGateway(g) PROVE TypeOK'
  <2>1. left' \in [Kinds -> Nat]
    BY <1>2 DEF DeleteGateway, Spend, Kinds
  <2>2. queue' \subseteq Keys
    BY <1>2, NameAssumption DEF DeleteGateway, Trigger, Keys
  <2>3. gateway' \in [Gateways -> GatewayObjects]
    BY <1>2, NoneTypes DEF DeleteGateway, NextVersion, GatewayObjects
  <2>4. gwStatus' \in [Gateways -> GwStatuses]
    BY <1>2, NoneTypes DEF DeleteGateway
  <2>5. QED
    BY <1>2, <2>1, <2>2, <2>3, <2>4
       DEF DeleteGateway, world, owned, statuses, control, Spend, Trigger
<1>3. ASSUME NEW r \in Routes, NEW s \in RouteSpecs, ApplyRoute(r, s) PROVE TypeOK'
  <2>1. left' \in [Kinds -> Nat]
    BY <1>3 DEF ApplyRoute, Spend, Kinds
  <2>2. queue' \subseteq Keys
    BY <1>3, NameAssumption DEF ApplyRoute, Trigger, Keys
  <2>3. route' \in [Routes -> RouteObjects]
    BY <1>3, NoneTypes DEF ApplyRoute, NextVersion, RouteObjects
  <2>4. rtStatus' \in [Routes -> RtStatuses]
    BY <1>3, NoneTypes DEF ApplyRoute
  <2>5. QED
    BY <1>3, <2>1, <2>2, <2>3, <2>4
       DEF ApplyRoute, world, owned, statuses, control, Spend, Trigger
<1>4. ASSUME NEW r \in Routes, DeleteRoute(r) PROVE TypeOK'
  <2>1. left' \in [Kinds -> Nat]
    BY <1>4 DEF DeleteRoute, Spend, Kinds
  <2>2. route' \in [Routes -> RouteObjects]
    BY <1>4, NoneTypes DEF DeleteRoute, NextVersion, RouteObjects
  <2>3. rtStatus' \in [Routes -> RtStatuses]
    BY <1>4, NoneTypes DEF DeleteRoute
  <2>4. QED
    BY <1>4, <2>1, <2>2, <2>3 DEF DeleteRoute, world, owned, statuses, control, Spend
<1>5. ASSUME NEW c \in {"foreign", "pending"}, CreateClass(c) PROVE TypeOK'
  <2>1. left' \in [Kinds -> Nat]
    BY <1>5 DEF CreateClass, Spend, Kinds
  <2>2. queue' \subseteq Keys
    BY <1>5, NameAssumption DEF CreateClass, Trigger, Keys
  <2>3. class' \in ClassStates
    BY <1>5 DEF CreateClass, ClassStates
  <2>4. QED
    BY <1>5, <2>1, <2>2, <2>3
       DEF CreateClass, world, owned, statuses, control, Spend, Trigger
<1>6. CASE DeleteClass
  <2>1. left' \in [Kinds -> Nat]
    BY <1>6 DEF DeleteClass, Spend, Kinds
  <2>2. class' \in ClassStates
    BY <1>6 DEF DeleteClass, ClassStates
  <2>3. QED
    BY <1>6, <2>1, <2>2 DEF DeleteClass, world, owned, statuses, control, Spend
<1>7. ASSUME NEW b \in Backends, ToggleBackend(b) PROVE TypeOK'
  <2>1. left' \in [Kinds -> Nat]
    BY <1>7 DEF ToggleBackend, Spend, Kinds
  <2>2. QED
    BY <1>7, <2>1 DEF ToggleBackend, world, owned, statuses, control, Spend
<1>8. ASSUME NEW g \in Gateways, AssignAddress(g) PROVE TypeOK'
  <2>1. queue' \subseteq Keys
    BY <1>8, NameAssumption DEF AssignAddress, Trigger, Keys
  <2>2. service' \in [Gateways -> Services]
    BY <1>8 DEF AssignAddress, Services
  <2>3. QED
    BY <1>8, <2>1, <2>2 DEF AssignAddress, world, owned, statuses, control, Trigger
<1>9. ASSUME NEW g \in Gateways, CollectConfigMap(g) PROVE TypeOK'
  <2>1. queue' \subseteq Keys
    BY <1>9, NameAssumption DEF CollectConfigMap, Trigger, Keys
  <2>2. cm' \in [Gateways -> ConfigMaps]
    BY <1>9, NoneTypes DEF CollectConfigMap
  <2>3. readers' \in [Gateways -> SUBSET (Gateways \cup Routes)]
    BY <1>9 DEF CollectConfigMap
  <2>4. QED
    BY <1>9, <2>1, <2>2, <2>3
       DEF CollectConfigMap, world, owned, statuses, control, Trigger
<1>10. ASSUME NEW g \in Gateways, CollectService(g) PROVE TypeOK'
  <2>1. queue' \subseteq Keys
    BY <1>10, NameAssumption DEF CollectService, Trigger, Keys
  <2>2. service' \in [Gateways -> Services]
    BY <1>10, NoneTypes DEF CollectService
  <2>3. QED
    BY <1>10, <2>1, <2>2 DEF CollectService, world, owned, statuses, control, Trigger
<1>11. CASE ClassFetch
  <2>1. timer' \in [Keys -> {"none", "soon", "late"}]
    BY <1>11 DEF ClassFetch, Keys
  <2>2. QED
    BY <1>11, <2>1 DEF ClassFetch, world, owned, statuses, control
<1>12. CASE ClassPatch
  <2>1. timer' \in [Keys -> {"none", "soon", "late"}]
    BY <1>12 DEF ClassPatch, Keys
  <2>2. queue' \subseteq Keys
    BY <1>12, NameAssumption DEF ClassPatch, Trigger, Keys, StatusEvent
  <2>3. class' \in ClassStates
    BY <1>12 DEF ClassPatch, ClassStates
  <2>4. left' \in [Kinds -> Nat]
    BY <1>12 DEF ClassPatch, Spend, Kinds, StatusEvent
  <2>5. QED
    BY <1>12, <2>1, <2>2, <2>3, <2>4
       DEF ClassPatch, world, owned, statuses, control, StatusEvent, Trigger, Spend
<1>13. CASE ClassFetchFails
  <2>1. timer' \in [Keys -> {"none", "soon", "late"}]
    BY <1>13 DEF ClassFetchFails, Keys
  <2>2. left' \in [Kinds -> Nat]
    BY <1>13 DEF ClassFetchFails, Spend, Kinds
  <2>3. QED
    BY <1>13, <2>1, <2>2 DEF ClassFetchFails, world, owned, statuses, control, Spend
<1>14. CASE ClassPatchFails
  <2>1. timer' \in [Keys -> {"none", "soon", "late"}]
    BY <1>14 DEF ClassPatchFails, Keys
  <2>2. left' \in [Kinds -> Nat]
    BY <1>14 DEF ClassPatchFails, Spend, Kinds
  <2>3. QED
    BY <1>14, <2>1, <2>2 DEF ClassPatchFails, world, owned, statuses, control, Spend
<1>15. ASSUME NEW g \in Gateways, GwStart(g) PROVE TypeOK'
  <2>1. gwTask' \in [Gateways -> GwTasks]
    <3>1. /\ "class" \in GwPcs
          /\ gateway[g].inc \in Nat /\ gateway[g].gen \in Nat
          /\ gateway[g].spec.valid \in BOOLEAN
      BY SpecAssumption DEF GwPcs, GatewayObjects
    <3>2. [IdleGw EXCEPT !.pc = "class", !.inc = gateway[g].inc, !.gen = gateway[g].gen,
                         !.valid = gateway[g].spec.valid] \in GwTasks
      BY <3>1, NoneTypes DEF GwTasks
    <3>3. QED
      BY <1>15, <3>2 DEF GwStart
  <2>2. timer' \in [Keys -> {"none", "soon", "late"}]
    BY <1>15 DEF GwStart, Keys, Dequeue
  <2>3. queue' \subseteq Keys
    BY <1>15, NameAssumption DEF GwStart, Trigger, Keys, Dequeue
  <2>4. QED
    BY <1>15, <2>1, <2>2, <2>3
       DEF GwStart, world, owned, statuses, control, Dequeue, Trigger
<1>16. ASSUME NEW g \in Gateways, GwGetClass(g) PROVE TypeOK'
  <2>1. gwTask' \in [Gateways -> GwTasks]
    <3>1. "list" \in GwPcs /\ (class = "accepted") \in BOOLEAN
      BY DEF GwPcs
    <3>2. [gwTask[g] EXCEPT !.pc = "list", !.accepted = (class = "accepted")] \in GwTasks
      BY <1>a, <3>1, GwTaskTyped
    <3>3. QED
      BY <1>16, <3>2 DEF GwGetClass
  <2>2. QED
    BY <1>16, <2>1 DEF GwGetClass, world, owned, statuses, control
<1>17. ASSUME NEW g \in Gateways, GwListRoutes(g) PROVE TypeOK'
  <2>1. gwTask' \in [Gateways -> GwTasks]
    <3>1. "service" \in GwPcs /\ RoutesForGateway(g) \in [Routes -> Version]
      BY DEF GwPcs, RoutesForGateway, RouteObjects, Version, NoVersion, Ver
    <3>2. [gwTask[g] EXCEPT !.pc = "service", !.routes = RoutesForGateway(g)] \in GwTasks
      BY <1>a, <3>1, GwTaskTyped
    <3>3. QED
      BY <1>17, <3>2 DEF GwListRoutes
  <2>2. QED
    BY <1>17, <2>1 DEF GwListRoutes, world, owned, statuses, control
<1>18. ASSUME NEW g \in Gateways, GwGetService(g) PROVE TypeOK'
  <2>1. gwTask' \in [Gateways -> GwTasks]
    <3>1. "status" \in GwPcs /\ service[g].addr \in BOOLEAN
      BY DEF GwPcs, Services
    <3>2. /\ [gwTask[g] EXCEPT !.pc = "status", !.addr = service[g].addr] \in GwTasks
          /\ [gwTask[g] EXCEPT !.pc = "status"] \in GwTasks
      BY <1>a, <3>1, GwTaskTyped
    <3>3. QED
      BY <1>18, <3>2 DEF GwGetService
  <2>2. left' \in [Kinds -> Nat]
    BY <1>18 DEF GwGetService, Spend, Kinds
  <2>3. QED
    BY <1>18, <2>1, <2>2 DEF GwGetService, world, owned, statuses, control, Spend
<1>19. ASSUME NEW g \in Gateways, GwFetchFails(g) PROVE TypeOK'
  <2>1. gwTask' \in [Gateways -> GwTasks]
    BY <1>19, NoneTypes DEF GwFetchFails, EndGw
  <2>2. timer' \in [Keys -> {"none", "soon", "late"}]
    BY <1>19 DEF GwFetchFails, Keys, EndGw
  <2>3. left' \in [Kinds -> Nat]
    BY <1>19 DEF GwFetchFails, Spend, Kinds
  <2>4. QED
    BY <1>19, <2>1, <2>2, <2>3
       DEF GwFetchFails, world, owned, statuses, control, EndGw, Spend
<1>20. ASSUME NEW g \in Gateways, GwPatchStatus(g) PROVE TypeOK'
  <2>1. gwStatus' \in [Gateways -> GwStatuses]
    BY <1>20 DEF GwPatchStatus, GwTasks, GwStatuses, GwVerdict
  <2>2. gwTask' \in [Gateways -> GwTasks]
    <3>1. "read" \in GwPcs
      BY DEF GwPcs
    <3>2. [gwTask[g] EXCEPT !.pc = "read"] \in GwTasks
      BY <1>a, <3>1, GwTaskTyped
    <3>3. QED
      BY <1>20, <3>2, NoneTypes DEF GwPatchStatus, EndGw
  <2>3. timer' \in [Keys -> {"none", "soon", "late"}]
    BY <1>20 DEF GwPatchStatus, Keys, EndGw
  <2>4. queue' \subseteq Keys
    BY <1>20, NameAssumption DEF GwPatchStatus, Trigger, Keys, StatusEvent, GatewayEvent
  <2>5. left' \in [Kinds -> Nat]
    BY <1>20 DEF GwPatchStatus, Spend, Kinds, StatusEvent
  <2>6. QED
    BY <1>20, <2>1, <2>2, <2>3, <2>4, <2>5
       DEF GwPatchStatus, world, owned, statuses, control, EndGw, StatusEvent, Trigger,
           Spend
<1>21. ASSUME NEW g \in Gateways, GwReadConfigMap(g) PROVE TypeOK'
  <2>1. gwTask' \in [Gateways -> GwTasks]
    <3>1. "write" \in GwPcs /\ (cm[g].owner > 0) \in BOOLEAN
      BY DEF GwPcs
    <3>2. [gwTask[g] EXCEPT !.pc = "write", !.seen = (cm[g].owner > 0)] \in GwTasks
      BY <1>a, <3>1, GwTaskTyped
    <3>3. QED
      BY <1>21, <3>2 DEF GwReadConfigMap
  <2>2. readers' \in [Gateways -> SUBSET (Gateways \cup Routes)]
    BY <1>21 DEF GwReadConfigMap
  <2>3. QED
    BY <1>21, <2>1, <2>2 DEF GwReadConfigMap, world, owned, statuses, control
<1>22. ASSUME NEW g \in Gateways, GwWriteConfigMap(g) PROVE TypeOK'
  <2>1. gwTask' \in [Gateways -> GwTasks]
    BY <1>22 DEF GwWriteConfigMap, GwTasks, GwPcs
  <2>2. cm' \in [Gateways -> ConfigMaps]
    BY <1>22 DEF GwWriteConfigMap, Put, GwTasks, ConfigMaps
  <2>3. readers' \in [Gateways -> SUBSET (Gateways \cup Routes)]
    BY <1>22 DEF GwWriteConfigMap, Put
  <2>4. queue' \subseteq Keys
    BY <1>22, NameAssumption DEF GwWriteConfigMap, Trigger, Keys, Put
  <2>5. QED
    BY <1>22, <2>1, <2>2, <2>3, <2>4
       DEF GwWriteConfigMap, world, owned, statuses, control, Put, Trigger
<1>23. ASSUME NEW g \in Gateways, GwApply(g) PROVE TypeOK'
  <2>1. gwTask' \in [Gateways -> GwTasks]
    BY <1>23, NoneTypes DEF GwApply, EndGw
  <2>2. timer' \in [Keys -> {"none", "soon", "late"}]
    BY <1>23 DEF GwApply, Keys, EndGw
  <2>3. service' \in [Gateways -> Services]
    BY <1>23 DEF GwApply, Services, GwTasks
  <2>4. queue' \subseteq Keys
    BY <1>23, NameAssumption DEF GwApply, Trigger, Keys
  <2>5. QED
    BY <1>23, <2>1, <2>2, <2>3, <2>4
       DEF GwApply, world, owned, statuses, control, EndGw, Trigger
<1>24. ASSUME NEW g \in Gateways, GwEffectFails(g) PROVE TypeOK'
  <2>1. gwTask' \in [Gateways -> GwTasks]
    BY <1>24, NoneTypes DEF GwEffectFails, EndGw
  <2>2. timer' \in [Keys -> {"none", "soon", "late"}]
    BY <1>24 DEF GwEffectFails, Keys, EndGw
  <2>3. left' \in [Kinds -> Nat]
    BY <1>24 DEF GwEffectFails, Spend, Kinds
  <2>4. readers' \in [Gateways -> SUBSET (Gateways \cup Routes)]
    BY <1>24 DEF GwEffectFails, Forget
  <2>5. QED
    BY <1>24, <2>1, <2>2, <2>3, <2>4
       DEF GwEffectFails, world, owned, statuses, control, EndGw, Spend, Forget
<1>25. ASSUME NEW r \in Routes, RtStart(r) PROVE TypeOK'
  <2>1. rtTask' \in [Routes -> RtTasks]
    <3>1. /\ "parents" \in RtPcs
          /\ route[r].inc \in Nat /\ route[r].gen \in Nat
          /\ route[r].spec.parents \in SUBSET Gateways
          /\ route[r].spec.backends \in SUBSET Backends
      BY SpecAssumption DEF RtPcs, RouteObjects
    <3>2. [IdleRt EXCEPT !.pc = "parents", !.inc = route[r].inc, !.gen = route[r].gen,
                         !.todo = route[r].spec.parents,
                         !.needs = route[r].spec.backends] \in RtTasks
      BY <3>1, NoneTypes DEF RtTasks
    <3>3. QED
      BY <1>25, <3>2, NoneTypes DEF RtStart, EndRt
  <2>2. timer' \in [Keys -> {"none", "soon", "late"}]
    BY <1>25 DEF RtStart, Keys, EndRt
  <2>3. QED
    BY <1>25, <2>1, <2>2 DEF RtStart, world, owned, statuses, control, EndRt
<1>26. ASSUME NEW r \in Routes, RtGetParent(r) PROVE TypeOK'
  <2>1. rtTask' \in [Routes -> RtTasks]
    <3> DEFINE t == rtTask[r]
               okay(g) == IF r \in gateway[g].spec.admits THEN t.okay \cup {g} ELSE t.okay
               read(g) == [t EXCEPT !.pc = "class", !.todo = t.todo \ {g}, !.okay = okay(g),
                                    !.found[g] = Ver(gateway[g])]
               missed(g) == [t EXCEPT !.todo = t.todo \ {g}]
    <3>1. PICK g \in t.todo : \/ rtTask' = [rtTask EXCEPT ![r] = read(g)]
                               \/ rtTask' = [rtTask EXCEPT ![r] = missed(g)]
      BY <1>26, Zenon DEF RtGetParent
    <3>2. /\ t \in RtTasks /\ g \in Gateways /\ t.todo \ {g} \in SUBSET Gateways
          /\ okay(g) \in SUBSET Gateways
          /\ Ver(gateway[g]) \in Version
      BY <1>a, <3>1 DEF RtTasks, GatewayObjects, Ver, Version
    <3> HIDE DEF t, okay
    <3>3. "class" \in RtPcs
      BY DEF RtPcs
    <3>4. read(g) \in RtTasks
      BY <3>2, <3>3, RtTaskTyped
    <3>5. missed(g) \in RtTasks
      BY <3>2, <3>3, RtTaskTyped
    <3> HIDE DEF read, missed
    <3>6. QED
      BY <3>1, <3>4, <3>5
  <2>2. left' \in [Kinds -> Nat]
    BY <1>26 DEF RtGetParent, Spend, Kinds
  <2>3. QED
    BY <1>26, <2>1, <2>2 DEF RtGetParent, world, owned, statuses, control, Spend
<1>27. ASSUME NEW r \in Routes, RtGetBackends(r) PROVE TypeOK'
  <2>1. rtTask' \in [Routes -> RtTasks]
    <3>1. "status" \in RtPcs /\ rtTask[r].okay \in SUBSET Gateways
      BY <1>a DEF RtPcs, RtTasks
    <3>2. /\ \A todo \in SUBSET Gateways :
                [rtTask[r] EXCEPT !.pc = "status", !.todo = todo] \in RtTasks
          /\ [rtTask[r] EXCEPT !.pc = "status"] \in RtTasks
      BY <1>a, <3>1, RtTaskTyped
    <3>3. \/ \E todo \in SUBSET Gateways :
                rtTask' = [rtTask EXCEPT ![r] =
                              [rtTask[r] EXCEPT !.pc = "status", !.todo = todo]]
          \/ rtTask' = [rtTask EXCEPT ![r] = [rtTask[r] EXCEPT !.pc = "status"]]
      BY <1>27, <3>1 DEF RtGetBackends
    <3>4. QED
      BY <1>a, <3>2, <3>3
  <2>2. left' \in [Kinds -> Nat]
    BY <1>27 DEF RtGetBackends, Spend, Kinds
  <2>3. QED
    BY <1>27, <2>1, <2>2 DEF RtGetBackends, world, owned, statuses, control, Spend
<1>28. ASSUME NEW r \in Routes, RtGetParentClass(r) PROVE TypeOK'
  <2>1. rtTask' \in [Routes -> RtTasks]
    <3>1. "parents" \in RtPcs /\ (class = "accepted") \in BOOLEAN
      BY DEF RtPcs
    <3>2. /\ [rtTask[r] EXCEPT !.pc = "parents", !.accepted = (class = "accepted")] \in RtTasks
          /\ [rtTask[r] EXCEPT !.pc = "parents"] \in RtTasks
      BY <1>a, <3>1, RtTaskTyped
    <3>3. \/ rtTask' = [rtTask EXCEPT ![r] =
                [rtTask[r] EXCEPT !.pc = "parents", !.accepted = (class = "accepted")]]
          \/ rtTask' = [rtTask EXCEPT ![r] = [rtTask[r] EXCEPT !.pc = "parents"]]
      BY <1>28, Zenon DEF RtGetParentClass
    <3>4. QED
      BY <1>a, <3>2, <3>3
  <2>2. left' \in [Kinds -> Nat]
    BY <1>28 DEF RtGetParentClass, Spend, Kinds
  <2>3. QED
    BY <1>28, <2>1, <2>2 DEF RtGetParentClass, world, owned, statuses, control, Spend
<1>29. ASSUME NEW r \in Routes, RtFetchFails(r) PROVE TypeOK'
  <2>1. rtTask' \in [Routes -> RtTasks]
    BY <1>29, NoneTypes DEF RtFetchFails, EndRt
  <2>2. timer' \in [Keys -> {"none", "soon", "late"}]
    BY <1>29 DEF RtFetchFails, Keys, EndRt
  <2>3. left' \in [Kinds -> Nat]
    BY <1>29 DEF RtFetchFails, Spend, Kinds
  <2>4. QED
    BY <1>29, <2>1, <2>2, <2>3
       DEF RtFetchFails, world, owned, statuses, control, EndRt, Spend
<1>30. ASSUME NEW r \in Routes, RtPatchStatus(r) PROVE TypeOK'
  <2>1. rtStatus' \in [Routes -> RtStatuses]
    BY <1>30 DEF RtPatchStatus, RtTasks, RtStatuses
  <2>2. rtTask' \in [Routes -> RtTasks]
    <3>1. [rtTask[r] EXCEPT !.pc = "read"] \in RtTasks
      BY <1>a, RtTaskTyped DEF RtPcs
    <3>2. QED
      BY <1>30, <3>1, NoneTypes DEF RtPatchStatus, EndRt
  <2>3. timer' \in [Keys -> {"none", "soon", "late"}]
    BY <1>30 DEF RtPatchStatus, Keys, EndRt
  <2>4. queue' \subseteq Keys
    BY <1>30, NameAssumption DEF RtPatchStatus, Trigger, Keys, StatusEvent
  <2>5. left' \in [Kinds -> Nat]
    BY <1>30 DEF RtPatchStatus, Spend, Kinds, StatusEvent
  <2>6. QED
    BY <1>30, <2>1, <2>2, <2>3, <2>4, <2>5
       DEF RtPatchStatus, world, owned, statuses, control, EndRt, StatusEvent, Trigger,
           Spend
<1>31. ASSUME NEW r \in Routes, RtReadConfigMap(r) PROVE TypeOK'
  <2>1. rtTask' \in [Routes -> RtTasks]
    <3>1. PICK g \in rtTask[r].todo : rtTask' = [rtTask EXCEPT ![r] =
             [rtTask[r] EXCEPT !.pc = "write", !.target = {g},
                               !.todo = rtTask[r].todo \ {g}, !.seen = (cm[g].owner > 0)]]
      BY <1>31 DEF RtReadConfigMap
    <3>2. /\ "write" \in RtPcs /\ (cm[g].owner > 0) \in BOOLEAN
          /\ {g} \in SUBSET Gateways /\ rtTask[r].todo \ {g} \in SUBSET Gateways
      BY <1>a DEF RtPcs, RtTasks
    <3>3. QED
      BY <1>a, <3>1, <3>2, RtTaskTyped
  <2>2. readers' \in [Gateways -> SUBSET (Gateways \cup Routes)]
    BY <1>31 DEF RtReadConfigMap, RtTasks
  <2>3. QED
    BY <1>31, <2>1, <2>2 DEF RtReadConfigMap, world, owned, statuses, control
<1>32. ASSUME NEW r \in Routes, RtWriteConfigMap(r) PROVE TypeOK'
  <2>1. rtTask' \in [Routes -> RtTasks]
    <3>1. [rtTask[r] EXCEPT !.pc = "read", !.target = {}] \in RtTasks
      BY <1>a, RtTaskTyped DEF RtPcs
    <3>2. QED
      BY <1>32, <3>1, NoneTypes DEF RtWriteConfigMap, RtPutConfig, RtMoveOn, EndRt
  <2>2. timer' \in [Keys -> {"none", "soon", "late"}]
    BY <1>32 DEF RtWriteConfigMap, RtPutConfig, RtMoveOn, Keys, EndRt
  <2>3. cm' \in [Gateways -> ConfigMaps]
    <3>1. PICK g \in Gateways : Put(r, g, [owner |-> rtTask[r].found[g][1],
                                           gen |-> rtTask[r].found[g][2],
                                           routes |-> OnlyRoute(r, Ver(rtTask[r]))])
      BY <1>32 DEF RtWriteConfigMap, RtPutConfig, RtMoveOn
    <3>2. [owner |-> rtTask[r].found[g][1], gen |-> rtTask[r].found[g][2],
           routes |-> OnlyRoute(r, Ver(rtTask[r]))] \in ConfigMaps
      BY <1>a DEF RtTasks, ConfigMaps, OnlyRoute, Version, NoVersion, Ver
    <3>3. QED
      BY <3>1, <3>2 DEF Put
  <2>4. readers' \in [Gateways -> SUBSET (Gateways \cup Routes)]
    BY <1>32 DEF RtWriteConfigMap, RtPutConfig, RtMoveOn, Put
  <2>5. queue' \subseteq Keys
    BY <1>32, NameAssumption DEF RtWriteConfigMap, RtPutConfig, RtMoveOn, Trigger, Keys, Put
  <2>6. QED
    BY <1>32, <2>1, <2>2, <2>3, <2>4, <2>5
       DEF RtWriteConfigMap, RtPutConfig, RtMoveOn, world, owned, statuses, control, EndRt, Put, Trigger
<1>33. ASSUME NEW r \in Routes, RtEffectFails(r) PROVE TypeOK'
  <2>1. rtTask' \in [Routes -> RtTasks]
    BY <1>33, NoneTypes DEF RtEffectFails, EndRt
  <2>2. timer' \in [Keys -> {"none", "soon", "late"}]
    BY <1>33 DEF RtEffectFails, Keys, EndRt
  <2>3. left' \in [Kinds -> Nat]
    BY <1>33 DEF RtEffectFails, Spend, Kinds
  <2>4. readers' \in [Gateways -> SUBSET (Gateways \cup Routes)]
    BY <1>33 DEF RtEffectFails, Forget
  <2>5. QED
    BY <1>33, <2>1, <2>2, <2>3, <2>4
       DEF RtEffectFails, world, owned, statuses, control, EndRt, Spend, Forget
<1>34. ASSUME NEW k \in Keys, TimerFires(k) PROVE TypeOK'
  <2>1. timer' \in [Keys -> {"none", "soon", "late"}]
    BY <1>34 DEF TimerFires, Keys
  <2>2. queue' \subseteq Keys
    BY <1>34, NameAssumption DEF TimerFires, Trigger, Keys
  <2>3. left' \in [Kinds -> Nat]
    BY <1>34 DEF TimerFires, Spend, Kinds
  <2>4. QED
    BY <1>34, <2>1, <2>2, <2>3
       DEF TimerFires, world, owned, statuses, control, Trigger, Spend
<1>35. ASSUME NEW k \in Keys, DropMissing(k) PROVE TypeOK'
  <2>1. timer' \in [Keys -> {"none", "soon", "late"}]
    BY <1>35 DEF DropMissing, Keys, Dequeue
  <2>2. queue' \subseteq Keys
    BY <1>35, NameAssumption DEF DropMissing, Trigger, Keys, Dequeue
  <2>3. QED
    BY <1>35, <2>1, <2>2
       DEF DropMissing, world, owned, statuses, control, Dequeue, Trigger
<1>36. CASE CrashAndRestart
  <2>1. left' \in [Kinds -> Nat]
    BY <1>36 DEF CrashAndRestart, Spend, Kinds
  <2>2. queue' \subseteq Keys
    BY <1>36, NameAssumption DEF CrashAndRestart, Trigger, Keys
  <2>3. gwTask' \in [Gateways -> GwTasks] /\ rtTask' \in [Routes -> RtTasks]
    BY <1>36, NoneTypes DEF CrashAndRestart
  <2>4. QED
    BY <1>36, <2>1, <2>2, <2>3
       DEF CrashAndRestart, world, owned, statuses, control, Spend, Trigger
<1>37. CASE UNCHANGED vars
  BY <1>37 DEF vars, world, owned, statuses, control
<1>38. QED
  BY <1>1, <1>2, <1>3, <1>4, <1>5, <1>6, <1>7, <1>8, <1>9, <1>10, <1>11, <1>12, <1>13,
         <1>14, <1>15, <1>16, <1>17, <1>18, <1>19, <1>20, <1>21, <1>22, <1>23, <1>24,
         <1>25, <1>26, <1>27, <1>28, <1>29, <1>30, <1>31, <1>32, <1>33, <1>34, <1>35,
         <1>36, <1>37
     DEF Next, EditStep, ClusterStep, ClassStep, GwStep, RtStep

\* The variables always have their types, whatever the controllers, the users and the
\* failures do.
THEOREM TypeCorrect == Spec => []TypeOK
<1>1. Init => TypeOK
  BY TypeInit
<1>2. TypeOK /\ [Next]_vars => TypeOK'
  BY TypeNext
<1>3. QED
  BY <1>1, <1>2, PTL DEF Spec

-----------------------------------------------------------------------------
(* Every step, seen from one Gateway and from one HTTPRoute. *)

\* A step that leaves Gateway g and its reconcile as they are.  It may write the
\* ConfigMap of g, but then the Gateway controller, which owns it, is triggered.
GwFrame(g) ==
    /\ UNCHANGED <<gateway[g], gwStatus[g], gwTask[g], timer[g]>>
    /\ g \in queue => g \in queue'
    /\ cm'[g] = cm[g] \/ g \in queue'

\* The steps on Gateway g itself.
GwOwn(g) ==
    \/ \E s \in GatewaySpecs : ApplyGateway(g, s)
    \/ DeleteGateway(g)
    \/ GwStep(g)
    \/ TimerFires(g)
    \/ DropMissing(g)

\* The same of HTTPRoute r.
RtFrame(r) ==
    /\ UNCHANGED <<route[r], rtStatus[r], rtTask[r], timer[r]>>
    /\ r \in queue => r \in queue'

RtOwn(r) ==
    \/ \E s \in RouteSpecs : ApplyRoute(r, s)
    \/ DeleteRoute(r)
    \/ RtStep(r)
    \/ TimerFires(r)
    \/ DropMissing(r)

\* Reconciles of different keys share nothing but the cluster: a step that is neither
\* on Gateway h nor a restart leaves its object, status and task alone.
LEMMA GwView ==
    ASSUME TypeOK, [Next]_vars, NEW h \in Gateways
    PROVE  GwFrame(h) \/ GwOwn(h) \/ CrashAndRestart
<1> USE NameAssumption DEF TypeOK, Keys, Trigger, world, owned, statuses, control
<1>1. ASSUME NEW g \in Gateways, NEW s \in GatewaySpecs, ApplyGateway(g, s)
      PROVE  GwFrame(h) \/ GwOwn(h)
  <2>1. CASE g = h
    BY <1>1, <2>1 DEF GwOwn
  <2>2. CASE g # h
    BY <1>1, <2>2 DEF GwFrame, ApplyGateway, GatewayEvent
  <2>3. QED
    BY <2>1, <2>2
<1>2. ASSUME NEW g \in Gateways, DeleteGateway(g) PROVE GwFrame(h) \/ GwOwn(h)
  BY <1>2 DEF GwFrame, GwOwn, DeleteGateway
<1>3. ASSUME NEW r \in Routes, (\E s \in RouteSpecs : ApplyRoute(r, s)) \/ DeleteRoute(r)
      PROVE  GwFrame(h)
  BY <1>3 DEF GwFrame, ApplyRoute, DeleteRoute
<1>4. CASE \/ \E c \in {"foreign", "pending"} : CreateClass(c)
           \/ DeleteClass
           \/ \E b \in Backends : ToggleBackend(b)
  BY <1>4 DEF GwFrame, CreateClass, DeleteClass, ToggleBackend
<1>5. ASSUME NEW g \in Gateways, ClusterStep(g) PROVE GwFrame(h)
  BY <1>5 DEF GwFrame, ClusterStep, AssignAddress, CollectConfigMap, CollectService
<1>6. CASE ClassStep
  BY <1>6 DEF GwFrame, ClassStep, ClassFetch, ClassPatch, ClassFetchFails, ClassPatchFails,
           StatusEvent
<1>7. ASSUME NEW g \in Gateways, GwStep(g) PROVE GwFrame(h) \/ GwOwn(h)
  <2>1. CASE g = h
    BY <1>7, <2>1 DEF GwOwn
  <2>2. CASE g # h
    <3>1. CASE GwStart(g)
      BY <2>2, <3>1 DEF GwFrame, GwStart, Dequeue
    <3>2. CASE GwGetClass(g)
      BY <2>2, <3>2 DEF GwFrame, GwGetClass
    <3>3. CASE GwListRoutes(g)
      BY <2>2, <3>3 DEF GwFrame, GwListRoutes
    <3>4. CASE GwGetService(g)
      BY <2>2, <3>4 DEF GwFrame, GwGetService
    <3>5. CASE GwPatchStatus(g)
      BY <2>2, <3>5 DEF GwFrame, GwPatchStatus, EndGw, StatusEvent, GatewayEvent
    <3>6. CASE GwReadConfigMap(g)
      BY <2>2, <3>6 DEF GwFrame, GwReadConfigMap
    <3>7. CASE GwWriteConfigMap(g)
      BY <2>2, <3>7 DEF GwFrame, GwWriteConfigMap, Put
    <3>8. CASE GwApply(g)
      BY <2>2, <3>8 DEF GwFrame, GwApply, EndGw
    <3>9. CASE GwFetchFails(g)
      BY <2>2, <3>9 DEF GwFrame, GwFetchFails, EndGw
    <3>10. CASE GwEffectFails(g)
      BY <2>2, <3>10 DEF GwFrame, GwEffectFails, EndGw
    <3>11. QED
      BY <1>7, <3>1, <3>2, <3>3, <3>4, <3>5, <3>6, <3>7, <3>8, <3>9, <3>10 DEF GwStep
  <2>3. QED
    BY <2>1, <2>2
<1>8. ASSUME NEW r \in Routes, RtStep(r) PROVE GwFrame(h)
  <2>1. CASE RtStart(r)
    BY <2>1 DEF GwFrame, RtStart, EndRt
  <2>2. CASE RtGetParent(r) \/ RtGetParentClass(r)
    BY <2>2 DEF GwFrame, RtGetParent, RtGetParentClass
  <2>3. CASE RtGetBackends(r)
    BY <2>3 DEF GwFrame, RtGetBackends
  <2>4. CASE RtPatchStatus(r)
    BY <2>4 DEF GwFrame, RtPatchStatus, EndRt, StatusEvent
  <2>5. CASE RtReadConfigMap(r)
    BY <2>5 DEF GwFrame, RtReadConfigMap
  <2>6. CASE RtWriteConfigMap(r)
    BY <2>6 DEF GwFrame, RtWriteConfigMap, RtPutConfig, RtMoveOn, Put, EndRt
  <2>7. CASE RtFetchFails(r)
    BY <2>7 DEF GwFrame, RtFetchFails, EndRt
  <2>8. CASE RtEffectFails(r)
    BY <2>8 DEF GwFrame, RtEffectFails, EndRt
  <2>9. QED
    BY <1>8, <2>1, <2>2, <2>3, <2>4, <2>5, <2>6, <2>7, <2>8 DEF RtStep
<1>9. ASSUME NEW k \in Keys, TimerFires(k) \/ DropMissing(k) PROVE GwFrame(h) \/ GwOwn(h)
  BY <1>9 DEF GwFrame, GwOwn, TimerFires, DropMissing, Dequeue
<1>10. CASE UNCHANGED vars
  BY <1>10 DEF GwFrame, vars
<1>11. QED
  BY <1>1, <1>2, <1>3, <1>4, <1>5, <1>6, <1>7, <1>8, <1>9, <1>10 DEF Next, EditStep

\* The users' and the controller's steps on a Gateway leave every HTTPRoute, and its
\* reconcile, as they are (they may put its key on the queue).
LEMMA GwLeavesRoutes ==
    ASSUME TypeOK, NEW g \in Gateways, NEW q \in Routes,
           (\E s \in GatewaySpecs : ApplyGateway(g, s)) \/ DeleteGateway(g) \/ GwStep(g)
    PROVE  RtFrame(q)
<1> USE NameAssumption DEF TypeOK, Keys, Trigger, world, owned, statuses, control, RtFrame
<1>1. CASE (\E s \in GatewaySpecs : ApplyGateway(g, s)) \/ DeleteGateway(g)
  BY <1>1 DEF ApplyGateway, DeleteGateway, GatewayEvent
<1>2. CASE GwStep(g)
  <2>1. CASE GwStart(g)
    BY <2>1 DEF GwStart, Dequeue
  <2>2. CASE GwGetClass(g)
    BY <2>2 DEF GwGetClass
  <2>3. CASE GwListRoutes(g)
    BY <2>3 DEF GwListRoutes
  <2>4. CASE GwGetService(g)
    BY <2>4 DEF GwGetService
  <2>5. CASE GwPatchStatus(g)
    BY <2>5 DEF GwPatchStatus, EndGw, StatusEvent, GatewayEvent
  <2>6. CASE GwReadConfigMap(g)
    BY <2>6 DEF GwReadConfigMap
  <2>7. CASE GwWriteConfigMap(g)
    BY <2>7 DEF GwWriteConfigMap, Put
  <2>8. CASE GwApply(g)
    BY <2>8 DEF GwApply, EndGw
  <2>9. CASE GwFetchFails(g)
    BY <2>9 DEF GwFetchFails, EndGw
  <2>10. CASE GwEffectFails(g)
    BY <2>10 DEF GwEffectFails, EndGw
  <2>11. QED
    BY <1>2, <2>1, <2>2, <2>3, <2>4, <2>5, <2>6, <2>7, <2>8, <2>9, <2>10 DEF GwStep
<1>3. QED
  BY <1>1, <1>2

\* A step that is neither on HTTPRoute q nor a restart leaves its object, its status
\* and its task alone.
LEMMA RtView ==
    ASSUME TypeOK, [Next]_vars, NEW q \in Routes
    PROVE  RtFrame(q) \/ RtOwn(q) \/ CrashAndRestart
<1> USE NameAssumption DEF TypeOK, Keys, Trigger, world, owned, statuses, control
<1>1. ASSUME NEW r \in Routes, NEW s \in RouteSpecs, ApplyRoute(r, s)
      PROVE  RtFrame(q) \/ RtOwn(q)
  <2>1. CASE r = q
    BY <1>1, <2>1 DEF RtOwn
  <2>2. CASE r # q
    BY <1>1, <2>2 DEF RtFrame, ApplyRoute
  <2>3. QED
    BY <2>1, <2>2
<1>2. ASSUME NEW r \in Routes, DeleteRoute(r) PROVE RtFrame(q) \/ RtOwn(q)
  BY <1>2 DEF RtFrame, RtOwn, DeleteRoute
<1>3. ASSUME NEW g \in Gateways, (\E s \in GatewaySpecs : ApplyGateway(g, s)) \/ DeleteGateway(g)
      PROVE  RtFrame(q)
  BY <1>3, GwLeavesRoutes
<1>4. CASE \/ \E c \in {"foreign", "pending"} : CreateClass(c)
           \/ DeleteClass
           \/ \E b \in Backends : ToggleBackend(b)
  BY <1>4 DEF RtFrame, CreateClass, DeleteClass, ToggleBackend
<1>5. ASSUME NEW g \in Gateways, ClusterStep(g) PROVE RtFrame(q)
  BY <1>5 DEF RtFrame, ClusterStep, AssignAddress, CollectConfigMap, CollectService
<1>6. CASE ClassStep
  BY <1>6 DEF RtFrame, ClassStep, ClassFetch, ClassPatch, ClassFetchFails, ClassPatchFails,
           StatusEvent
<1>7. ASSUME NEW r \in Routes, RtStep(r) PROVE RtFrame(q) \/ RtOwn(q)
  <2>1. CASE r = q
    BY <1>7, <2>1 DEF RtOwn
  <2>2. CASE r # q
    <3>1. CASE RtStart(r)
      BY <2>2, <3>1 DEF RtFrame, RtStart, EndRt
    <3>2. CASE RtGetParent(r) \/ RtGetParentClass(r)
      BY <2>2, <3>2 DEF RtFrame, RtGetParent, RtGetParentClass
    <3>3. CASE RtGetBackends(r)
      BY <2>2, <3>3 DEF RtFrame, RtGetBackends
    <3>4. CASE RtPatchStatus(r)
      BY <2>2, <3>4 DEF RtFrame, RtPatchStatus, EndRt, StatusEvent
    <3>5. CASE RtReadConfigMap(r)
      BY <2>2, <3>5 DEF RtFrame, RtReadConfigMap
    <3>6. CASE RtWriteConfigMap(r)
      BY <2>2, <3>6 DEF RtFrame, RtWriteConfigMap, RtPutConfig, RtMoveOn, Put, EndRt
    <3>7. CASE RtFetchFails(r)
      BY <2>2, <3>7 DEF RtFrame, RtFetchFails, EndRt
    <3>8. CASE RtEffectFails(r)
      BY <2>2, <3>8 DEF RtFrame, RtEffectFails, EndRt
    <3>9. QED
      BY <1>7, <3>1, <3>2, <3>3, <3>4, <3>5, <3>6, <3>7, <3>8 DEF RtStep
  <2>3. QED
    BY <2>1, <2>2
<1>8. ASSUME NEW g \in Gateways, GwStep(g) PROVE RtFrame(q)
  BY <1>8, GwLeavesRoutes
<1>9. ASSUME NEW k \in Keys, TimerFires(k) \/ DropMissing(k) PROVE RtFrame(q) \/ RtOwn(q)
  BY <1>9 DEF RtFrame, RtOwn, TimerFires, DropMissing, Dequeue
<1>10. CASE UNCHANGED vars
  BY <1>10 DEF RtFrame, vars
<1>11. QED
  BY <1>1, <1>2, <1>3, <1>4, <1>5, <1>6, <1>7, <1>8, <1>9, <1>10 DEF Next, EditStep

-----------------------------------------------------------------------------
(* What the calls of a reconcile do to its task. *)

\* Reading a parent Gateway (fetcher.rs:136-157) takes it off the list, and records
\* its version, or nothing when it is missing or the read failed unnoticed.
LEMMA ParentRead ==
    ASSUME NEW r \in Routes, RtGetParent(r)
    PROVE  LET t == rtTask[r]
           IN  \E g \in t.todo :
                  \/ \E okay \in {t.okay, t.okay \cup {g}} :
                        rtTask' = [rtTask EXCEPT ![r] =
                           [t EXCEPT !.pc = "class", !.todo = t.todo \ {g},
                                     !.okay = okay, !.found[g] = Ver(gateway[g])]]
                  \/ rtTask' = [rtTask EXCEPT ![r] = [t EXCEPT !.todo = t.todo \ {g}]]
<1> DEFINE t == rtTask[r]
           okay(g) == IF r \in gateway[g].spec.admits THEN t.okay \cup {g} ELSE t.okay
           read(g, o) == [t EXCEPT !.pc = "class", !.todo = t.todo \ {g}, !.okay = o,
                                   !.found[g] = Ver(gateway[g])]
           missed(g) == [t EXCEPT !.todo = t.todo \ {g}]
<1>1. PICK g \in t.todo : \/ rtTask' = [rtTask EXCEPT ![r] = read(g, okay(g))]
                          \/ rtTask' = [rtTask EXCEPT ![r] = missed(g)]
  BY Zenon DEF RtGetParent
<1>2. okay(g) \in {t.okay, t.okay \cup {g}}
  OBVIOUS
<1> HIDE DEF okay
<1>3. QED
  BY <1>1, <1>2, Zenon

\* t and u are of the same incarnation and generation.
SameVer(t, u) == t.inc = u.inc /\ t.gen = u.gen

\* An HTTPRoute reconcile works on the version it started with to its end, and its
\* ConfigMap writes run through the Gateways that accepted the route.
LEMMA RtTaskMoves ==
    ASSUME TypeOK, NEW r \in Routes
    PROVE  /\ RtStart(r) /\ route[r].spec.parents # {} =>
                 rtTask'[r].pc = "parents" /\ SameVer(rtTask'[r], route[r])
           /\ RtGetParent(r) =>
                 rtTask'[r].pc \in {"parents", "class"} /\ SameVer(rtTask'[r], rtTask[r])
           /\ RtGetParentClass(r) =>
                 rtTask'[r].pc = "parents" /\ SameVer(rtTask'[r], rtTask[r])
           /\ RtGetBackends(r) =>
                 rtTask'[r].pc = "status" /\ SameVer(rtTask'[r], rtTask[r])
           /\ RtPatchStatus(r) /\ rtTask[r].todo # {} =>
                 /\ rtTask'[r].pc = "read" /\ SameVer(rtTask'[r], rtTask[r])
                 /\ rtTask'[r].todo = rtTask[r].todo
           /\ RtReadConfigMap(r) =>
                 /\ rtTask'[r].pc = "write" /\ SameVer(rtTask'[r], rtTask[r])
                 /\ rtTask'[r].todo \cup rtTask'[r].target = rtTask[r].todo
           /\ RtWriteConfigMap(r) /\ rtTask[r].todo # {} =>
                 /\ rtTask'[r].pc = "read" /\ SameVer(rtTask'[r], rtTask[r])
                 /\ rtTask'[r].todo = rtTask[r].todo
<1> DEFINE t == rtTask[r]
<1>a. rtTask \in [Routes -> RtTasks] /\ t \in RtTasks
  BY DEF TypeOK
<1> USE DEF SameVer
<1>1. ASSUME RtStart(r), route[r].spec.parents # {}
      PROVE  rtTask'[r].pc = "parents" /\ SameVer(rtTask'[r], route[r])
  <2>1. rtTask' = [rtTask EXCEPT ![r] =
                      [IdleRt EXCEPT !.pc = "parents", !.inc = route[r].inc,
                                     !.gen = route[r].gen, !.todo = route[r].spec.parents,
                                     !.needs = route[r].spec.backends]]
    BY <1>1 DEF RtStart
  <2>2. QED
    BY <1>a, <2>1 DEF IdleRt
<1>2. ASSUME RtGetParent(r)
      PROVE  rtTask'[r].pc \in {"parents", "class"} /\ SameVer(rtTask'[r], rtTask[r])
  <2>1. t.pc = "parents"
    BY <1>2 DEF RtGetParent
  <2>2. PICK g \in t.todo :
           \/ \E okay \in {t.okay, t.okay \cup {g}} :
                 rtTask' = [rtTask EXCEPT ![r] =
                    [t EXCEPT !.pc = "class", !.todo = t.todo \ {g},
                              !.okay = okay, !.found[g] = Ver(gateway[g])]]
           \/ rtTask' = [rtTask EXCEPT ![r] = [t EXCEPT !.todo = t.todo \ {g}]]
    BY <1>2, ParentRead
  <2>3. ASSUME NEW okay, rtTask' = [rtTask EXCEPT ![r] =
                    [t EXCEPT !.pc = "class", !.todo = t.todo \ {g},
                              !.okay = okay, !.found[g] = Ver(gateway[g])]]
        PROVE  rtTask'[r].pc = "class" /\ SameVer(rtTask'[r], t)
    BY <1>a, <2>3 DEF RtTasks
  <2>4. CASE rtTask' = [rtTask EXCEPT ![r] = [t EXCEPT !.todo = t.todo \ {g}]]
    BY <1>a, <2>1, <2>4 DEF RtTasks
  <2>5. QED
    BY <2>2, <2>3, <2>4
<1>7. ASSUME RtGetParentClass(r)
      PROVE  rtTask'[r].pc = "parents" /\ SameVer(rtTask'[r], rtTask[r])
  <2>1. \/ \E b : rtTask' = [rtTask EXCEPT ![r] =
                                 [t EXCEPT !.pc = "parents", !.accepted = b]]
        \/ rtTask' = [rtTask EXCEPT ![r].pc = "parents"]
    BY <1>7, Zenon DEF RtGetParentClass
  <2>2. CASE \E b : rtTask' = [rtTask EXCEPT ![r] =
                                 [t EXCEPT !.pc = "parents", !.accepted = b]]
    BY <1>a, <2>2 DEF RtTasks
  <2>3. CASE rtTask' = [rtTask EXCEPT ![r].pc = "parents"]
    BY <1>a, <2>3 DEF RtTasks
  <2>4. QED
    BY <2>1, <2>2, <2>3
<1>3. ASSUME RtGetBackends(r)
      PROVE  rtTask'[r].pc = "status" /\ SameVer(rtTask'[r], rtTask[r])
  <2>1. \/ \E todo : rtTask' = [rtTask EXCEPT ![r] =
                                    [t EXCEPT !.pc = "status", !.todo = todo]]
        \/ rtTask' = [rtTask EXCEPT ![r].pc = "status"]
    BY <1>3, Zenon DEF RtGetBackends
  <2>2. CASE \E todo : rtTask' = [rtTask EXCEPT ![r] =
                                    [t EXCEPT !.pc = "status", !.todo = todo]]
    BY <1>a, <2>2 DEF RtTasks
  <2>3. CASE rtTask' = [rtTask EXCEPT ![r].pc = "status"]
    BY <1>a, <2>3 DEF RtTasks
  <2>4. QED
    BY <2>1, <2>2, <2>3
<1>4. ASSUME RtPatchStatus(r), t.todo # {}
      PROVE  /\ rtTask'[r].pc = "read" /\ SameVer(rtTask'[r], t)
             /\ rtTask'[r].todo = t.todo
  BY <1>4, <1>a DEF RtPatchStatus, RtTasks
<1>5. ASSUME RtReadConfigMap(r)
      PROVE  /\ rtTask'[r].pc = "write" /\ SameVer(rtTask'[r], t)
             /\ rtTask'[r].todo \cup rtTask'[r].target = t.todo
  <2>1. PICK g \in t.todo : rtTask' = [rtTask EXCEPT ![r] =
                 [rtTask[r] EXCEPT !.pc = "write", !.target = {g},
                                   !.todo = rtTask[r].todo \ {g},
                                   !.seen = (cm[g].owner > 0)]]
    BY <1>5 DEF RtReadConfigMap
  <2>2. \A b : LET u == [t EXCEPT !.pc = "write", !.target = {g},
                                  !.todo = t.todo \ {g}, !.seen = b]
             IN  u.pc = "write" /\ SameVer(u, t) /\ u.todo = t.todo \ {g} /\ u.target = {g}
    BY <1>a DEF RtTasks
  <2>3. QED
    BY <1>a, <2>1, <2>2
<1>6. ASSUME RtWriteConfigMap(r), t.todo # {}
      PROVE  /\ rtTask'[r].pc = "read" /\ SameVer(rtTask'[r], t)
             /\ rtTask'[r].todo = t.todo
  <2>1. rtTask' = [rtTask EXCEPT ![r] = [t EXCEPT !.pc = "read", !.target = {}]]
    BY <1>6 DEF RtWriteConfigMap, RtPutConfig, RtMoveOn
  <2>2. QED
    BY <1>a, <2>1 DEF RtTasks
<1>8. QED
  BY <1>1, <1>2, <1>3, <1>4, <1>5, <1>6, <1>7

\* The reconcile of g has come to pc, on the version it started with.
Advances(g, pc) == gwTask'[g].pc = pc /\ SameVer(gwTask'[g], gwTask[g])

\* A Gateway reconcile works on the version it started with, and on the routes it
\* listed once, to its end; a failure and a refusal end it.
LEMMA GwTaskMoves ==
    ASSUME TypeOK, NEW g \in Gateways
    PROVE  /\ GwGetClass(g) =>
                 Advances(g, "list") /\ gwTask'[g].routes = gwTask[g].routes
           /\ GwListRoutes(g) =>
                 Advances(g, "service") /\ gwTask'[g].routes = RoutesForGateway(g)
           /\ GwGetService(g) =>
                 Advances(g, "status") /\ gwTask'[g].routes = gwTask[g].routes
           /\ GwPatchStatus(g) /\ GwVerdict(gwTask[g]) =>
                 Advances(g, "read") /\ gwTask'[g].routes = gwTask[g].routes
           /\ GwReadConfigMap(g) =>
                 Advances(g, "write") /\ gwTask'[g].routes = gwTask[g].routes
           /\ GwWriteConfigMap(g) =>
                 Advances(g, "apply") /\ gwTask'[g].routes = gwTask[g].routes
           /\ GwPatchStatus(g) /\ ~GwVerdict(gwTask[g]) => gwTask'[g] = IdleGw
           /\ GwApply(g) \/ GwFetchFails(g) \/ GwEffectFails(g) => gwTask'[g] = IdleGw
<1> DEFINE t == gwTask[g]
<1>a. gwTask \in [Gateways -> GwTasks] /\ t \in GwTasks
  BY DEF TypeOK
<1> USE DEF Advances, SameVer
<1>1. ASSUME GwGetClass(g)
      PROVE  Advances(g, "list") /\ gwTask'[g].routes = t.routes
  BY <1>1, <1>a DEF GwGetClass, GwTasks
<1>2. ASSUME GwListRoutes(g)
      PROVE  Advances(g, "service") /\ gwTask'[g].routes = RoutesForGateway(g)
  BY <1>2, <1>a DEF GwListRoutes, GwTasks
<1>3. ASSUME GwGetService(g)
      PROVE  Advances(g, "status") /\ gwTask'[g].routes = t.routes
  <2>1. CASE gwTask' = [gwTask EXCEPT ![g] =
                           [gwTask[g] EXCEPT !.pc = "status", !.addr = service[g].addr]]
    BY <1>a, <2>1 DEF GwTasks
  <2>2. CASE gwTask' = [gwTask EXCEPT ![g].pc = "status"]
    BY <1>a, <2>2 DEF GwTasks
  <2>3. QED
    BY <1>3, <2>1, <2>2, Zenon DEF GwGetService
<1>4. ASSUME GwPatchStatus(g), GwVerdict(t)
      PROVE  Advances(g, "read") /\ gwTask'[g].routes = t.routes
  BY <1>4, <1>a DEF GwPatchStatus, GwTasks
<1>5. ASSUME GwReadConfigMap(g)
      PROVE  Advances(g, "write") /\ gwTask'[g].routes = t.routes
  BY <1>5, <1>a DEF GwReadConfigMap, GwTasks
<1>6. ASSUME GwWriteConfigMap(g)
      PROVE  Advances(g, "apply") /\ gwTask'[g].routes = t.routes
  BY <1>6, <1>a DEF GwWriteConfigMap, GwTasks
<1>7. ASSUME GwPatchStatus(g), ~GwVerdict(t) PROVE gwTask'[g] = IdleGw
  BY <1>7, <1>a DEF GwPatchStatus, EndGw
<1>8. ASSUME GwApply(g) \/ GwFetchFails(g) \/ GwEffectFails(g) PROVE gwTask'[g] = IdleGw
  BY <1>8, <1>a DEF GwApply, GwFetchFails, GwEffectFails, EndGw
<1>9. QED
  BY <1>1, <1>2, <1>3, <1>4, <1>5, <1>6, <1>7, <1>8

-----------------------------------------------------------------------------
(* The invariant is inductive. *)

\* Every step preserves what the invariant says of one Gateway: its status and its
\* ConfigMap keep up with its generation, and the status is patched first.
LEMMA GwInvNext ==
    ASSUME TypeOK, [Next]_vars, NEW h \in Gateways, GwInv(h)
    PROVE  GwInv(h)'
<1> USE NameAssumption DEF TypeOK, Keys, Trigger, world, owned, statuses, control,
        GwInv, GwTaskPast, GwTaskCurrent, GwStatusFirst, GwStatusTracks, ConfigApplied,
        ConfigFollows, GwObservedPast, ObservedPast, Past, SameVer,
        GwSoon, ConfigVer, Ver, Live, IdleGw
<1>1. CASE GwFrame(h)
  BY <1>1 DEF GwFrame
<1>2. ASSUME NEW s \in GatewaySpecs, ApplyGateway(h, s) PROVE GwInv(h)'
  <2>1. /\ h \in queue' /\ UNCHANGED <<gwTask, cm>>
        /\ gateway'[h] = NextVersion(gateway[h], s)
        /\ gwStatus'[h] = IF Live(gateway[h]) THEN gwStatus[h] ELSE NoGwStatus
    BY <1>2 DEF ApplyGateway, GatewayEvent
  <2>2. CASE Live(gateway[h])
    BY <2>1, <2>2 DEF NextVersion, GatewayObjects, GwTasks, GwStatuses
  <2>3. CASE ~Live(gateway[h])
    BY <2>1, <2>3 DEF NextVersion, GatewayObjects, GwTasks, NoGwStatus
  <2>4. QED
    BY <2>2, <2>3
<1>3. CASE DeleteGateway(h)
  BY <1>3 DEF DeleteGateway, NoGateway, GatewayObjects
<1>4. CASE TimerFires(h) \/ DropMissing(h)
  BY <1>4 DEF TimerFires, DropMissing, Dequeue
<1>5. CASE GwStep(h)
  <2>1. CASE GwStart(h)
    BY <2>1 DEF GwStart, Dequeue, GatewayObjects
  <2>2. CASE GwGetClass(h) \/ GwListRoutes(h) \/ GwGetService(h)
    <3>1. /\ UNCHANGED <<gateway, gwStatus, cm, queue>>
          /\ gwTask[h].pc \in {"class", "list", "service"}
      BY <2>2 DEF GwGetClass, GwListRoutes, GwGetService
    <3>2. gwTask'[h].pc \in {"list", "service", "status"} /\ SameVer(gwTask'[h], gwTask[h])
      BY <2>2, GwTaskMoves DEF Advances
    <3>3. QED
      BY <3>1, <3>2
  <2>3. CASE GwReadConfigMap(h)
    <3>1. UNCHANGED <<gateway, gwStatus, cm, queue>> /\ gwTask[h].pc = "read"
      BY <2>3 DEF GwReadConfigMap
    <3>2. gwTask'[h].pc = "write" /\ SameVer(gwTask'[h], gwTask[h])
      BY <2>3, GwTaskMoves DEF Advances
    <3>3. QED
      BY <3>1, <3>2
  <2>4. CASE GwWriteConfigMap(h)
    BY <2>4 DEF GwWriteConfigMap, Put, GwTasks, ConfigMaps
  <2>5. CASE GwPatchStatus(h)
    <3>1. /\ UNCHANGED <<gateway, cm>> /\ gwTask[h].pc = "status"
          /\ h \in queue => h \in queue'
          /\ SameVer(gwStatus'[h], gwTask[h])
          /\ gwStatus'[h].accepted = GwVerdict(gwTask[h])
      BY <2>5 DEF GwPatchStatus, StatusEvent, GatewayEvent
    <3>2. CASE GwVerdict(gwTask[h])
      <4>1. gwTask'[h].pc = "read" /\ SameVer(gwTask'[h], gwTask[h])
        BY <2>5, <3>2, GwTaskMoves DEF Advances
      <4>2. gwStatus'[h].accepted
        BY <3>1, <3>2
      <4>3. GwTaskPast(h)' /\ GwTaskCurrent(h)' /\ GwStatusFirst(h)'
        BY <3>1, <4>1, <4>2
      <4>4. GwObservedPast(h)'
        BY <3>1, <4>1 DEF GatewayObjects, GwTasks
      <4>5. GwStatusTracks(h)' /\ ConfigApplied(h)' /\ ConfigFollows(h)'
        BY <4>1
      <4>6. QED
        BY <4>3, <4>4, <4>5
    <3>3. CASE ~GwVerdict(gwTask[h])
      <4>1. gwTask'[h] = IdleGw /\ timer'[h] = "soon"
        BY <2>5, <3>3 DEF GwPatchStatus, EndGw
      <4>2. QED
        BY <3>1, <3>3, <4>1 DEF GatewayObjects
    <3>4. QED
      BY <3>2, <3>3
  <2>6. CASE GwApply(h)
    <3>1. /\ UNCHANGED <<gateway, gwStatus, cm>> /\ gwTask[h].pc = "apply"
          /\ h \in queue => h \in queue'
          /\ gwTask'[h] = IdleGw
      BY <2>6 DEF GwApply, EndGw
    <3>2. ASSUME Live(gateway[h]), h \notin queue
          PROVE  Ver(gwStatus[h]) = Ver(gateway[h]) /\ ConfigVer(h) = Ver(gateway[h])
      <4>1. gateway[h].inc = gwTask[h].inc /\ gateway[h].gen = gwTask[h].gen
        BY <3>1, <3>2
      <4>2. Ver(gwStatus[h]) = Ver(gwTask[h]) /\ ConfigVer(h) = Ver(gwTask[h])
        BY <3>1, <3>2, <4>1
      <4>3. QED
        BY <4>1, <4>2
    <3>3. QED
      BY <3>1, <3>2 DEF GatewayObjects
  <2>7. CASE GwFetchFails(h)
    BY <2>7 DEF GwFetchFails, EndGw, GatewayObjects
  <2>8. CASE GwEffectFails(h)
    BY <2>8 DEF GwEffectFails, EndGw, GatewayObjects
  <2>9. QED
    BY <1>5, <2>1, <2>2, <2>3, <2>4, <2>5, <2>6, <2>7, <2>8 DEF GwStep
<1>6. CASE CrashAndRestart
  BY <1>6 DEF CrashAndRestart, GatewayObjects
<1>7. QED
  BY <1>1, <1>2, <1>3, <1>4, <1>5, <1>6, GwView DEF GwOwn

\* Every step preserves what the invariant says of one HTTPRoute: its status keeps up
\* with its generation, and is patched before its ConfigMaps are written.
LEMMA RtInvNext ==
    ASSUME TypeOK, [Next]_vars, NEW q \in Routes, RtInv(q)
    PROVE  RtInv(q)'
<1> USE NameAssumption DEF TypeOK, Keys, Trigger, world, owned, statuses, control,
        RtInv, RtTaskPast, RtTaskCurrent, RtStatusFirst, RtStatusTracks,
        RtObservedPast, ObservedPast,
        Past, RtSoon, Ver, Live, IdleRt, SameVer
<1>1. CASE RtFrame(q)
  BY <1>1 DEF RtFrame
<1>2. ASSUME NEW s \in RouteSpecs, ApplyRoute(q, s) PROVE RtInv(q)'
  <2>1. /\ q \in queue' /\ UNCHANGED rtTask
        /\ route'[q] = NextVersion(route[q], s)
        /\ rtStatus'[q] = IF Live(route[q]) THEN rtStatus[q] ELSE NoRtStatus
    BY <1>2 DEF ApplyRoute
  <2>2. CASE Live(route[q])
    BY <2>1, <2>2 DEF NextVersion, RouteObjects, RtTasks, RtStatuses
  <2>3. CASE ~Live(route[q])
    BY <2>1, <2>3 DEF NextVersion, RouteObjects, RtTasks, NoRtStatus
  <2>4. QED
    BY <2>2, <2>3
<1>3. CASE DeleteRoute(q)
  BY <1>3 DEF DeleteRoute, NoRoute, RouteObjects
<1>4. CASE TimerFires(q) \/ DropMissing(q)
  BY <1>4 DEF TimerFires, DropMissing, Dequeue
<1>5. CASE RtStep(q)
  <2>1. CASE RtStart(q)
    <3>1. CASE route[q].spec.parents = {}
      BY <2>1, <3>1 DEF RtStart, EndRt, RouteObjects
    <3>2. CASE route[q].spec.parents # {}
      <4>1. UNCHANGED <<route, rtStatus>>
        BY <2>1 DEF RtStart
      <4>2. rtTask'[q].pc = "parents" /\ SameVer(rtTask'[q], route[q])
        BY <2>1, <3>2, RtTaskMoves
      <4>3. QED
        BY <4>1, <4>2 DEF RouteObjects
    <3>3. QED
      BY <3>1, <3>2
  <2>2. CASE RtGetParent(q) \/ RtGetParentClass(q) \/ RtGetBackends(q)
    <3>1. UNCHANGED <<route, rtStatus, queue>> /\ rtTask[q].pc \in {"parents", "class"}
      BY <2>2 DEF RtGetParent, RtGetParentClass, RtGetBackends
    <3>2. rtTask'[q].pc \in {"parents", "class", "status"} /\ SameVer(rtTask'[q], rtTask[q])
      BY <2>2, RtTaskMoves
    <3>3. QED
      BY <3>1, <3>2
  <2>3. CASE RtPatchStatus(q)
    BY <2>3 DEF RtPatchStatus, EndRt, StatusEvent, RtTasks, RouteObjects
  <2>4. CASE RtReadConfigMap(q)
    <3>1. UNCHANGED <<route, rtStatus, queue>> /\ rtTask[q].pc = "read"
      BY <2>4 DEF RtReadConfigMap
    <3>2. rtTask'[q].pc = "write" /\ SameVer(rtTask'[q], rtTask[q])
      BY <2>4, RtTaskMoves
    <3>3. QED
      BY <3>1, <3>2
  <2>5. CASE RtWriteConfigMap(q)
    <3>1. /\ UNCHANGED <<route, rtStatus>> /\ rtTask[q].pc = "write"
          /\ q \in queue => q \in queue'
      BY <2>5 DEF RtWriteConfigMap, RtPutConfig, RtMoveOn, Put
    <3>2. CASE rtTask[q].todo # {}
      <4>1. rtTask'[q].pc = "read" /\ SameVer(rtTask'[q], rtTask[q])
        BY <2>5, <3>2, RtTaskMoves
      <4>2. QED
        BY <3>1, <4>1
    <3>3. CASE rtTask[q].todo = {}
      <4>1. rtTask'[q] = IdleRt
        BY <2>5, <3>3 DEF RtWriteConfigMap, RtPutConfig, RtMoveOn, EndRt
      <4>2. ASSUME Live(route[q]), q \notin queue PROVE Ver(rtStatus[q]) = Ver(route[q])
        <5>1. route[q].inc = rtTask[q].inc /\ route[q].gen = rtTask[q].gen
          BY <3>1, <4>2
        <5>2. QED
          BY <3>1, <4>2, <5>1
      <4>3. QED
        BY <3>1, <4>1, <4>2 DEF RouteObjects
    <3>4. QED
      BY <3>2, <3>3
  <2>6. CASE RtFetchFails(q)
    BY <2>6 DEF RtFetchFails, EndRt, RouteObjects
  <2>7. CASE RtEffectFails(q)
    BY <2>7 DEF RtEffectFails, EndRt, RouteObjects
  <2>8. QED
    BY <1>5, <2>1, <2>2, <2>3, <2>4, <2>5, <2>6, <2>7 DEF RtStep
<1>6. CASE CrashAndRestart
  BY <1>6 DEF CrashAndRestart, RouteObjects
<1>7. QED
  BY <1>1, <1>2, <1>3, <1>4, <1>5, <1>6, RtView DEF RtOwn

\* What a step puts in a ConfigMap comes from the snapshot of the Gateway reconcile or
\* is the route whose reconcile writes it (the two callers of upsert_configmap).
LEMMA ConfigSources ==
    ASSUME TypeOK, [Next]_vars, NEW h \in Gateways, NEW q \in Routes
    PROVE  \/ cm'[h].routes[q] \in {cm[h].routes[q], NoVersion, gwTask[h].routes[q]}
           \/ cm'[h].routes[q] = Ver(rtTask[q]) /\ rtTask[q].target = {h}
<1> USE DEF TypeOK, world, owned, statuses, control
<1>1. CASE EditStep
  BY <1>1 DEF EditStep, ApplyGateway, DeleteGateway, ApplyRoute, DeleteRoute,
              CreateClass, DeleteClass, ToggleBackend
<1>2. CASE \E g \in Gateways : ClusterStep(g)
  BY <1>2 DEF ClusterStep, AssignAddress, CollectConfigMap, CollectService, NoConfigMap
<1>3. CASE \E g \in Gateways : GwStep(g)
  <2> PICK g \in Gateways : GwStep(g)
    BY <1>3
  <2>1. CASE GwWriteConfigMap(g)
    BY <2>1 DEF GwWriteConfigMap, Put
  <2>2. CASE UNCHANGED cm
    BY <2>2
  <2>3. QED
    BY <2>1, <2>2 DEF GwStep, GwStart, GwGetClass, GwListRoutes, GwGetService,
       GwPatchStatus, GwReadConfigMap, GwApply, GwFetchFails, GwEffectFails
<1>4. CASE \E r \in Routes : RtStep(r)
  <2> PICK r \in Routes : RtStep(r)
    BY <1>4
  <2>1. CASE RtWriteConfigMap(r)
    BY <2>1 DEF RtWriteConfigMap, RtPutConfig, RtMoveOn, Put, OnlyRoute, Ver
  <2>2. CASE UNCHANGED cm
    BY <2>2
  <2>3. QED
    BY <2>1, <2>2 DEF RtStep, RtStart, RtGetParent, RtGetParentClass, RtGetBackends, RtPatchStatus,
       RtReadConfigMap, RtFetchFails, RtEffectFails
<1>5. CASE ClassStep
  BY <1>5 DEF ClassStep, ClassFetch, ClassPatch, ClassFetchFails, ClassPatchFails
<1>6. CASE \E k \in Keys : TimerFires(k) \/ DropMissing(k)
  BY <1>6 DEF TimerFires, DropMissing
<1>7. CASE CrashAndRestart
  BY <1>7 DEF CrashAndRestart
<1>8. CASE UNCHANGED vars
  BY <1>8 DEF vars
<1>9. QED
  BY <1>1, <1>2, <1>3, <1>4, <1>5, <1>6, <1>7, <1>8 DEF Next

\* What a step puts in the snapshot of a Gateway reconcile is what the API server
\* lists at that moment (fetch_routes_for_gateway).
LEMMA ListSources ==
    ASSUME TypeOK, [Next]_vars, NEW h \in Gateways, NEW q \in Routes
    PROVE  gwTask'[h].routes[q] \in {gwTask[h].routes[q], NoVersion, RoutesForGateway(h)[q]}
<1> USE DEF TypeOK, world, owned, statuses, control
<1>1. CASE GwFrame(h)
  BY <1>1 DEF GwFrame
<1>2. CASE GwOwn(h)
  <2>1. CASE GwStart(h)
    BY <2>1 DEF GwStart, IdleGw
  <2>2. CASE GwListRoutes(h)
    BY <2>2, GwTaskMoves DEF RoutesForGateway
  <2>3. CASE GwStep(h) /\ ~GwStart(h) /\ ~GwListRoutes(h)
    BY <2>3, GwTaskMoves DEF GwStep, IdleGw
  <2>4. CASE UNCHANGED gwTask
    BY <2>4
  <2>5. QED
    BY <1>2, <2>1, <2>2, <2>3, <2>4
       DEF GwOwn, ApplyGateway, DeleteGateway, TimerFires, DropMissing
<1>3. CASE CrashAndRestart
  BY <1>3 DEF CrashAndRestart, IdleGw
<1>4. QED
  BY <1>1, <1>2, <1>3, GwView

\* A step on an HTTPRoute (an edit by a user) gives it a version that nothing
\* mentions yet, if any, and queues it.
LEMMA RouteMoves ==
    ASSUME TypeOK, [Next]_vars, NEW q \in Routes
    PROVE  /\ \A v \in Version : Past(v, route[q]) => Past(v, route'[q])
           /\ \/ route'[q] = route[q]
              \/ ~Live(route'[q])
              \/ q \in queue' /\ \A v \in Version : Past(v, route[q]) => v # Ver(route'[q])
<1> USE DEF TypeOK, Past, Version, Live, Ver, RouteObjects
<1>1. CASE route'[q] = route[q]
  BY <1>1
<1>2. CASE \E s \in RouteSpecs : ApplyRoute(q, s)
  BY <1>2 DEF ApplyRoute, NextVersion, Trigger
<1>3. CASE DeleteRoute(q)
  BY <1>3 DEF DeleteRoute, NoRoute
<1>4. CASE RtStep(q) \/ TimerFires(q) \/ DropMissing(q) \/ CrashAndRestart
  BY <1>1, <1>4 DEF RtStep, RtStart, RtGetParent, RtGetParentClass, RtGetBackends, RtPatchStatus, RtReadConfigMap,
     RtWriteConfigMap, RtPutConfig, RtMoveOn, RtFetchFails, RtEffectFails, TimerFires, DropMissing, CrashAndRestart, world
<1>5. QED
  BY <1>1, <1>2, <1>3, <1>4, RtView DEF RtOwn, RtFrame

\* Every step but a restart is on a Gateway, on an HTTPRoute, or on neither; none is
\* on both.
LEMMA PairView ==
    ASSUME TypeOK, [Next]_vars, NEW h \in Gateways, NEW q \in Routes
    PROVE  \/ GwFrame(h) /\ RtFrame(q)
           \/ GwFrame(h) /\ RtOwn(q)
           \/ GwOwn(h) /\ RtFrame(q)
           \/ CrashAndRestart
<1>1. CASE GwOwn(h)
  <2>1. CASE TimerFires(h) \/ DropMissing(h)
    <3>1. h # q /\ q \in Keys /\ timer \in [Keys -> {"none", "soon", "late"}]
      BY NameAssumption DEF Keys, TypeOK
    <3>2. UNCHANGED <<route, rtStatus, rtTask>>
      BY <2>1 DEF TimerFires, DropMissing, world, statuses
    <3>3. timer'[q] = timer[q] /\ (q \in queue => q \in queue')
      BY <2>1, <3>1 DEF TimerFires, DropMissing, Dequeue, Trigger
    <3>4. QED
      BY <1>1, <3>2, <3>3 DEF RtFrame
  <2>2. QED
    BY <1>1, <2>1, GwLeavesRoutes DEF GwOwn
<1>2. QED
  BY <1>1, GwView, RtView

\* Every step preserves that no snapshot and no ConfigMap mentions a route that does
\* not exist yet, and that a Gateway reconcile whose list was overtaken by an
\* HTTPRoute's write to its ConfigMap runs again.
LEMMA ListNext ==
    ASSUME TypeOK, [Next]_vars, NEW h \in Gateways, NEW q \in Routes,
           RtInv(q), PairInv(h, q)
    PROVE  RoutesPast(h, q)' /\ ListNotOvertaken(h, q)'
<1> USE DEF PairInv
<1>1. RoutesPast(h, q)'
  <2>1. /\ cm[h].routes[q] \in Version /\ gwTask[h].routes[q] \in Version
        /\ Ver(rtTask[q]) \in Version /\ Ver(route[q]) \in Version /\ NoVersion \in Version
    BY DEF TypeOK, ConfigMaps, GwTasks, RtTasks, RouteObjects, Ver, Version, NoVersion
  <2>2. /\ Past(cm[h].routes[q], route[q]) /\ Past(gwTask[h].routes[q], route[q])
        /\ Past(Ver(rtTask[q]), route[q]) /\ Past(Ver(route[q]), route[q])
        /\ Past(NoVersion, route[q])
    BY DEF RoutesPast, RtInv, RtTaskPast, TypeOK, RouteObjects, Past, Ver, NoVersion, Live
  <2>a. /\ cm'[h].routes[q] \in {cm[h].routes[q], NoVersion, gwTask[h].routes[q], Ver(rtTask[q])}
        /\ gwTask'[h].routes[q] \in {gwTask[h].routes[q], NoVersion, Ver(route[q])}
    BY ConfigSources, ListSources DEF RoutesForGateway
  <2>3. Past(cm'[h].routes[q], route[q]) /\ Past(gwTask'[h].routes[q], route[q])
    BY <2>2, <2>a
  <2>4. cm'[h].routes[q] \in Version /\ gwTask'[h].routes[q] \in Version
    BY <2>1, <2>a
  <2>5. QED
    BY <2>3, <2>4, RouteMoves DEF RoutesPast, Past
<1>2. ListNotOvertaken(h, q)'
  <2> SUFFICES ASSUME Listed(h)', Live(route[q])', h \in route'[q].spec.parents,
                      cm'[h].routes[q] = Ver(route'[q]), h \notin queue'
               PROVE  gwTask'[h].routes[q] = Ver(route'[q])
    BY DEF ListNotOvertaken, Ver
  <2>1. CASE GwFrame(h)
    <3>1. cm'[h] = cm[h] /\ h \notin queue /\ gwTask'[h] = gwTask[h]
      BY <2>1 DEF GwFrame
    <3>2. cm[h].routes[q] \in Version /\ Past(cm[h].routes[q], route[q])
      BY DEF TypeOK, ConfigMaps, RoutesPast
    <3>3. route'[q] = route[q]
      BY <3>1, <3>2, RouteMoves
    <3>4. QED
      BY <3>1, <3>3 DEF ListNotOvertaken, Listed
  <2>2. CASE GwOwn(h) /\ RtFrame(q)
    <3>1. route'[q] = route[q]
      BY <2>2 DEF RtFrame
    <3>2. CASE GwListRoutes(h)
      BY <3>1, <3>2, GwTaskMoves DEF RoutesForGateway, Ver
    <3>3. CASE GwGetService(h) \/ GwPatchStatus(h) \/ GwReadConfigMap(h)
      <4>1. Listed(h) /\ h \notin queue /\ cm'[h] = cm[h]
        BY <3>3, <2>2 DEF Listed, GwGetService, GwPatchStatus, GwReadConfigMap, owned,
                     StatusEvent, Trigger
      <4>2. gwTask'[h].routes = gwTask[h].routes
        BY <3>3, GwTaskMoves DEF IdleGw, Listed
      <4>3. QED
        BY <3>1, <4>1, <4>2 DEF ListNotOvertaken
    <3>4. CASE \/ GwStart(h) \/ GwGetClass(h) \/ GwWriteConfigMap(h)
               \/ GwApply(h) \/ GwFetchFails(h) \/ GwEffectFails(h)
      <4>1. GwStart(h) => gwTask'[h].pc = "class"
        BY DEF GwStart, IdleGw, TypeOK
      <4>2. QED
        BY <3>4, <4>1, GwTaskMoves DEF Listed, Advances, IdleGw
    <3>5. CASE \/ \E s \in GatewaySpecs : ApplyGateway(h, s)
               \/ DeleteGateway(h) \/ TimerFires(h) \/ DropMissing(h)
      <4>1. UNCHANGED gwTask
        BY <3>5 DEF ApplyGateway, DeleteGateway, TimerFires, DropMissing
      <4>2. CASE DeleteGateway(h)
        <5>1. UNCHANGED cm /\ h \notin queue
          BY <4>2 DEF DeleteGateway, Trigger, owned
        <5>2. QED
          BY <3>1, <4>1, <5>1 DEF ListNotOvertaken, Listed
      <4>3. CASE DropMissing(h)
        BY <4>1, <4>3, NameAssumption DEF DropMissing, Listed
      <4>4. CASE (\E s \in GatewaySpecs : ApplyGateway(h, s)) \/ TimerFires(h)
        BY <4>4 DEF ApplyGateway, GatewayEvent, TimerFires, Trigger
      <4>5. QED
        BY <3>5, <4>2, <4>3, <4>4
    <3>6. QED
      BY <2>2, <3>2, <3>3, <3>4, <3>5 DEF GwOwn, GwStep
  <2>3. CASE CrashAndRestart
    BY <2>3 DEF CrashAndRestart, Listed, IdleGw
  <2>4. QED
    BY <2>1, <2>2, <2>3, PairView
<1>3. QED
  BY <1>1, <1>2

\* Every step preserves that an accepted route is in the ConfigMap, or is about to be
\* written there by one controller or the other.
LEMMA AcceptedNext ==
    ASSUME TypeOK, [Next]_vars, NEW h \in Gateways, NEW q \in Routes,
           RtInv(q), PairInv(h, q)
    PROVE  AcceptedWillPublish(h, q)'
<1> SUFFICES ASSUME AcceptedAt(h, q)'
             PROVE  (RtWillPublish(h, q) \/ GwWillPublish(h, q))'
  BY DEF AcceptedWillPublish
<1>a. /\ AcceptedWillPublish(h, q) /\ ListNotOvertaken(h, q)
      /\ gwTask[h].pc \in GwPcs /\ h \in Keys /\ q \in Keys
      /\ timer \in [Keys -> {"none", "soon", "late"}]
      /\ gwTask \in [Gateways -> GwTasks] /\ rtTask \in [Routes -> RtTasks]
      /\ cm \in [Gateways -> ConfigMaps]
      /\ gateway \in [Gateways -> GatewayObjects] /\ route \in [Routes -> RouteObjects]
  BY DEF PairInv, TypeOK, GwTasks, Keys
\* A step on neither object.
<1>1. CASE GwFrame(h) /\ RtFrame(q)
  <2>1. AcceptedAt(h, q)
    BY <1>1 DEF GwFrame, RtFrame, AcceptedAt, Live, Ver
  <2>2. CASE cm'[h] = cm[h]
    BY <1>1, <1>a, <2>1, <2>2 DEF GwFrame, RtFrame, AcceptedWillPublish, RtWillPublish,
       GwWillPublish, Listed, Ver
  <2>3. CASE h \in queue'
    BY <2>3 DEF GwWillPublish
  <2>4. QED
    BY <1>1, <2>2, <2>3 DEF GwFrame
\* A step on the Gateway.
<1>2. CASE GwOwn(h) /\ RtFrame(q)
  <2>1. CASE (\E s \in GatewaySpecs : ApplyGateway(h, s)) \/ TimerFires(h)
    BY <2>1 DEF ApplyGateway, TimerFires, GatewayEvent, Trigger, GwWillPublish
  <2>2. CASE DeleteGateway(h) \/ DropMissing(h)
    <3>1. ~Live(gateway[h])'
      <4>1. CASE DeleteGateway(h)
        BY <4>1, <1>a DEF DeleteGateway, NoGateway, Live, GatewayObjects
      <4>2. CASE DropMissing(h)
        BY <4>2, NameAssumption DEF DropMissing, Live, world
      <4>3. QED
        BY <2>2, <4>1, <4>2
    <3>2. QED
      BY <3>1 DEF AcceptedAt
  <2>3. CASE GwStep(h)
    <3>1. AcceptedAt(h, q) /\ UNCHANGED <<route, gateway>>
      <4>1. UNCHANGED <<route, gateway>>
        BY <2>3 DEF GwStep, GwStart, GwGetClass, GwListRoutes, GwGetService, GwFetchFails,
           GwPatchStatus, GwReadConfigMap, GwWriteConfigMap, GwApply, GwEffectFails, world
      <4>2. QED
        BY <4>1, <1>2 DEF AcceptedAt, RtFrame, Live, Ver
    <3>2. RtWillPublish(h, q) => RtWillPublish(h, q)'
      BY <1>2 DEF RtFrame, RtWillPublish
    <3>3. SUFFICES ASSUME GwWillPublish(h, q), h \notin queue'
                   PROVE  GwWillPublish(h, q)'
      BY <1>a, <3>1, <3>2 DEF AcceptedWillPublish, GwWillPublish
    <3>4. CASE GwStart(h)
      BY <3>4, <1>a DEF GwStart, IdleGw, GwWillPublish
    <3>5. CASE GwGetClass(h)
      BY <3>5, GwTaskMoves DEF Advances, GwWillPublish
    <3>6. CASE GwListRoutes(h)
      <4>1. gwTask'[h].routes[q] = Ver(route[q])
        BY <3>1, <3>6, GwTaskMoves DEF RoutesForGateway, AcceptedAt
      <4>2. QED
        BY <3>1, <3>6, <4>1, GwTaskMoves DEF Advances, GwWillPublish, Listed, Ver
    <3>7. CASE \/ GwGetService(h) \/ GwReadConfigMap(h)
               \/ GwPatchStatus(h) /\ GwVerdict(gwTask[h])
      <4>1. /\ Listed(h) /\ h \notin queue
            /\ gwTask[h].pc \notin {"class", "list", "apply", "idle"}
        BY <3>3, <3>7 DEF Listed, GwGetService, GwReadConfigMap, GwPatchStatus, StatusEvent, Trigger
      <4>2. Listed(h)' /\ gwTask'[h].routes = gwTask[h].routes
        BY <3>7, GwTaskMoves DEF Advances, Listed
      <4>3. QED
        BY <3>1, <3>3, <4>1, <4>2 DEF GwWillPublish, Ver
    <3>8. CASE GwWriteConfigMap(h)
      <4>1. gwTask[h].pc = "write" /\ h \notin queue
        BY <3>3, <3>8 DEF GwWriteConfigMap, Put, Trigger
      <4>2. cm'[h].routes = gwTask[h].routes
        BY <3>8, <1>a DEF GwWriteConfigMap, Put
      <4>3. gwTask'[h].pc = "apply"
        BY <3>8, GwTaskMoves DEF Advances
      <4>4. QED
        BY <3>1, <3>3, <4>1, <4>2, <4>3 DEF GwWillPublish, Ver
    <3>9. CASE GwApply(h)
      <4>1. gwTask[h].pc = "apply" /\ h \notin queue /\ UNCHANGED cm
        BY <3>3, <3>9 DEF GwApply, Trigger
      <4>2. gwTask'[h].pc = "idle"
        BY <3>9, GwTaskMoves DEF IdleGw
      <4>3. QED
        BY <3>1, <3>3, <4>1, <4>2 DEF GwWillPublish, Listed, Ver
    <3>10. CASE \/ GwFetchFails(h) \/ GwEffectFails(h)
                \/ GwPatchStatus(h) /\ ~GwVerdict(gwTask[h])
      <4>1. gwTask'[h].pc = "idle"
        BY <3>10, GwTaskMoves DEF IdleGw
      <4>2. timer'[h] = "soon"
        BY <3>10, <1>a DEF GwFetchFails, GwEffectFails, GwPatchStatus, EndGw
      <4>3. QED
        BY <4>1, <4>2 DEF GwWillPublish
    <3>11. QED
      BY <2>3, <3>4, <3>5, <3>6, <3>7, <3>8, <3>9, <3>10 DEF GwStep
  <2>4. QED
    BY <1>2, <2>1, <2>2, <2>3 DEF GwOwn
\* A step on the HTTPRoute.
<1>3. CASE GwFrame(h) /\ RtOwn(q)
  <2> SUFFICES ASSUME h \notin queue', q \notin queue'
               PROVE  (RtWillPublish(h, q) \/ GwWillPublish(h, q))'
    BY DEF GwWillPublish, RtWillPublish
  <2>1. CASE (\E s \in RouteSpecs : ApplyRoute(q, s)) \/ TimerFires(q)
    BY <2>1 DEF ApplyRoute, TimerFires, Trigger
  <2>2. CASE DeleteRoute(q) \/ DropMissing(q)
    <3>1. ~Live(route[q])'
      <4>1. CASE DeleteRoute(q)
        BY <4>1, <1>a DEF DeleteRoute, NoRoute, Live, RouteObjects
      <4>2. CASE DropMissing(q)
        BY <4>2, NameAssumption DEF DropMissing, Live, world
      <4>3. QED
        BY <2>2, <4>1, <4>2
    <3>2. QED
      BY <3>1 DEF AcceptedAt
  <2>3. CASE RtStep(q)
    <3>1. UNCHANGED route
      BY <2>3 DEF RtStep, RtStart, RtGetParent, RtGetParentClass, RtGetBackends, RtPatchStatus,
         RtReadConfigMap, RtWriteConfigMap, RtPutConfig, RtMoveOn, RtFetchFails, RtEffectFails, world
    <3>2. cm'[h] = cm[h] /\ h \notin queue /\ gwTask'[h] = gwTask[h] /\ timer'[h] = timer[h]
      BY <1>3 DEF GwFrame
    <3>3. GwWillPublish(h, q) => GwWillPublish(h, q)'
      BY <3>1, <3>2 DEF GwWillPublish, Listed, Ver
    <3>4. CASE RtStart(q)
      <4>1. route[q].spec.parents # {}
        BY <3>1 DEF AcceptedAt
      <4>2. QED
        BY <3>4, <4>1, RtTaskMoves DEF RtWillPublish
    <3>5. CASE RtGetParent(q) \/ RtGetParentClass(q) \/ RtGetBackends(q)
      BY <3>5, RtTaskMoves DEF RtWillPublish
    <3>6. CASE RtPatchStatus(q)
      <4>1. h \in rtTask[q].todo
        BY <3>6 DEF RtPatchStatus, AcceptedAt, TypeOK
      <4>2. QED
        BY <3>6, <4>1, RtTaskMoves DEF RtWillPublish
    <3>7. CASE RtReadConfigMap(q)
      <4>1. AcceptedAt(h, q) /\ q \notin queue /\ rtTask[q].pc = "read"
        BY <1>3, <3>1, <3>7 DEF RtReadConfigMap, statuses, AcceptedAt, GwFrame, Live, Ver
      <4>2. CASE h \in rtTask[q].todo
        BY <3>7, <4>2, RtTaskMoves DEF RtWillPublish
      <4>3. CASE h \notin rtTask[q].todo
        BY <1>a, <3>3, <4>1, <4>3 DEF AcceptedWillPublish, RtWillPublish
      <4>4. QED
        BY <4>2, <4>3
    <3>8. CASE RtWriteConfigMap(q)
      <4>1. AcceptedAt(h, q) /\ q \notin queue /\ rtTask[q].pc = "write"
        BY <1>3, <3>1, <3>8 DEF RtWriteConfigMap, RtPutConfig, RtMoveOn, Put, Trigger, statuses, AcceptedAt,
           GwFrame, Live, Ver
      <4>2. CASE h \in rtTask[q].todo
        BY <3>8, <4>2, RtTaskMoves DEF RtWillPublish
      <4>3. CASE h \notin rtTask[q].todo /\ rtTask[q].target # {h}
        <5>1. h \notin rtTask[q].target
          BY <3>8, <4>3 DEF RtWriteConfigMap, RtPutConfig, RtMoveOn
        <5>2. QED
          BY <1>a, <3>3, <4>1, <4>3, <5>1 DEF AcceptedWillPublish, RtWillPublish
      \* What it writes is there already, so the Gateway controller knows it.
      <4>4. CASE rtTask[q].target = {h}
        <5>1. cm[h].routes[q] = Ver(rtTask[q])
          <6>1. cm'[h].routes = OnlyRoute(q, Ver(rtTask[q]))
            <7>1. PICK g \in Gateways :
                     /\ rtTask[q].target = {g}
                     /\ Put(q, g, [owner |-> rtTask[q].found[g][1],
                                   gen |-> rtTask[q].found[g][2],
                                   routes |-> OnlyRoute(q, Ver(rtTask[q]))])
              BY <3>8 DEF RtWriteConfigMap, RtPutConfig, RtMoveOn
            <7>2. g = h
              BY <4>4, <7>1
            <7>3. QED
              BY <1>a, <7>1, <7>2 DEF Put
          <6>2. QED
            BY <3>2, <6>1 DEF OnlyRoute
        <5>2. cm[h].routes[q] = Ver(route[q])
          BY <4>1, <5>1 DEF RtInv, RtTaskCurrent, AcceptedAt, Ver
        <5>3. gwTask[h].pc \in {"class", "list", "apply", "idle"} \/ Listed(h)
          BY <1>a DEF GwPcs, Listed
        <5>4. Listed(h) => gwTask[h].routes[q] = Ver(route[q])
          BY <1>a, <3>2, <4>1, <5>2 DEF ListNotOvertaken, AcceptedAt
        <5>5. QED
          BY <3>3, <5>2, <5>3, <5>4 DEF GwWillPublish
      <4>5. QED
        BY <4>2, <4>3, <4>4
    <3>9. CASE RtFetchFails(q) \/ RtEffectFails(q)
      BY <3>9, <1>a DEF RtFetchFails, RtEffectFails, EndRt, IdleRt, RtWillPublish
    <3>10. QED
      BY <2>3, <3>4, <3>5, <3>6, <3>7, <3>8, <3>9 DEF RtStep
  <2>4. QED
    BY <1>3, <2>1, <2>2, <2>3 DEF RtOwn
<1>4. CASE CrashAndRestart
  BY <1>4 DEF CrashAndRestart, AcceptedAt, GwWillPublish, world, Live
<1>5. QED
  BY <1>1, <1>2, <1>3, <1>4, PairView

\* The invariant holds when the control plane starts: every object that exists is on
\* the queue.
LEMMA IInvInit == Init => IInv
<1> SUFFICES ASSUME Init PROVE IInv
  OBVIOUS
<1> USE DEF Init, Past, Ver, Live, NoVersion, IdleGw, IdleRt, NoGateway, NoRoute,
        NoConfigMap, NoGwStatus, NoRtStatus
<1>1. ASSUME NEW g \in Gateways PROVE GwInv(g)
  BY <1>1 DEF GwInv, GwTaskPast, GwTaskCurrent, GwObservedPast, ObservedPast, GwStatusFirst,
     GwStatusTracks, GwSoon, ConfigApplied, ConfigFollows
<1>2. ASSUME NEW r \in Routes PROVE RtInv(r)
  <2>a. /\ rtTask[r].pc = "idle" /\ rtTask[r].inc = 0 /\ rtTask[r].gen = 0
        /\ rtStatus[r].inc = 0
        /\ \/ route[r].inc = 0 /\ route[r].gen = 0
           \/ route[r].inc = 1 /\ route[r].gen = 1
    <3>1. rtTask[r] = IdleRt /\ rtStatus[r] = NoRtStatus
      BY <1>2
    <3>2. route[r] = NoRoute \/ route[r] \in [inc : {1}, gen : {1}, spec : RouteSpecs]
      BY <1>2
    <3>3. CASE route[r] = NoRoute
      BY ONLY <3>1, <3>3 DEF IdleRt, NoRtStatus, NoRoute
    <3>4. CASE route[r] \in [inc : {1}, gen : {1}, spec : RouteSpecs]
      BY ONLY <3>1, <3>4 DEF IdleRt, NoRtStatus
    <3>5. QED
      BY <3>2, <3>3, <3>4
  <2>1. RtTaskPast(r) /\ RtTaskCurrent(r) /\ RtStatusFirst(r)
    BY ONLY <2>a DEF RtTaskPast, RtTaskCurrent, RtStatusFirst, Past, Ver, Live
  <2>2. RtObservedPast(r)
    BY ONLY <2>a DEF RtObservedPast, ObservedPast, Live
  <2>3. Live(route[r]) <=> r \in Preexisting
    BY <1>2
  <2>4. RtStatusTracks(r)
    BY ONLY <1>2, <2>3, Init DEF Init, RtStatusTracks, RtSoon
  <2>5. QED
    BY <2>1, <2>2, <2>4 DEF RtInv
<1>3. ASSUME NEW g \in Gateways, NEW r \in Routes PROVE PairInv(g, r)
  BY <1>3 DEF PairInv, RoutesPast, ListNotOvertaken, Listed, AcceptedWillPublish, AcceptedAt
<1>4. QED
  BY <1>1, <1>2, <1>3 DEF IInv

\* Every step of users, cluster, controllers and failures preserves the invariant.
LEMMA IInvNext == TypeOK /\ IInv /\ [Next]_vars => IInv'
<1> SUFFICES ASSUME TypeOK, IInv, [Next]_vars PROVE IInv'
  OBVIOUS
<1>1. ASSUME NEW g \in Gateways PROVE GwInv(g)'
  BY <1>1, GwInvNext DEF IInv
<1>2. ASSUME NEW r \in Routes PROVE RtInv(r)'
  BY <1>2, RtInvNext DEF IInv
<1>3. ASSUME NEW g \in Gateways, NEW r \in Routes PROVE PairInv(g, r)'
  BY <1>3, ListNext, AcceptedNext DEF IInv, PairInv
<1>4. QED
  BY <1>1, <1>2, <1>3 DEF IInv

-----------------------------------------------------------------------------
(* What follows from the invariant. *)

\* The inductive invariant holds in every reachable state: tasks are not behind their
\* objects unless they will run again, and what they have yet to write is known.
THEOREM InductiveInvariant == Spec => [](TypeOK /\ IInv)
<1>1. Init => TypeOK /\ IInv
  BY TypeInit, IInvInit
<1>2. TypeOK /\ IInv /\ [Next]_vars => TypeOK' /\ IInv'
  BY TypeNext, IInvNext
<1>3. QED
  BY <1>1, <1>2, PTL DEF Spec

\* While the executor writes the resources of an object, its status already shows the
\* generation they are built from (executor.rs:55-62).
THEOREM StatusIsFirst == Spec => []StatusFirst
<1>1. IInv => StatusFirst
  BY DEF IInv, GwInv, RtInv, StatusFirst
<1>2. QED
  BY <1>1, InductiveInvariant, PTL

\* A Gateway status that was patched by name onto a newer generation or a new object
\* never stays: the Gateway is reconciled again within seconds (executor.rs:55-62).
THEOREM StatusesTrack == Spec => []GatewayStatusTracks
<1>1. IInv => GatewayStatusTracks
  BY DEF IInv, GwInv, GatewayStatusTracks
<1>2. QED
  BY <1>1, InductiveInvariant, PTL

\* Nor does that of an HTTPRoute that has parents (reconcile.rs:997-1080).
THEOREM RouteStatusesTrack == Spec => []RouteStatusTracks
<1>1. IInv => RouteStatusTracks
  BY DEF IInv, RtInv, RouteStatusTracks
<1>2. QED
  BY <1>1, InductiveInvariant, PTL

\* A ConfigMap that an older write has overwritten, or that is missing, is rebuilt from
\* the present spec of its accepted Gateway within seconds.
THEOREM ConfigFollowsSpec == Spec => []ConfigFollowsGateway
<1>1. IInv => ConfigFollowsGateway
  BY DEF IInv, GwInv, ConfigFollowsGateway
<1>2. QED
  BY <1>1, InductiveInvariant, PTL

\* An accepted route that a one-route config of a sibling, a stale list or a failure
\* keeps off the ConfigMap is on its way back through one controller or the other.
THEOREM LostRoutesHeal == Spec => []LostRouteHeals
<1>1. IInv => LostRouteHeals
  <2> SUFFICES ASSUME IInv, NEW g \in Gateways, NEW r \in Routes,
                      AcceptedAt(g, r), cm[g].routes[r] # Ver(route[r])
               PROVE  GwSoon(g) \/ RtSoon(r)
    BY DEF LostRouteHeals
  <2>1. RtWillPublish(g, r) \/ GwWillPublish(g, r)
    BY DEF IInv, PairInv, AcceptedWillPublish
  <2>2. RtWillPublish(g, r) => RtSoon(r)
    BY DEF RtWillPublish, RtSoon
  <2>3. GwWillPublish(g, r) => GwSoon(g)
    BY DEF GwWillPublish, GwSoon, Listed
  <2>4. QED
    BY <2>1, <2>2, <2>3
<1>2. QED
  BY <1>1, InductiveInvariant, PTL

\* A step that patches the status of an object that stays the same object does not take
\* its observedGeneration back.
LEMMA ObservedStep ==
    ASSUME TypeOK, IInv, [Next]_vars
    PROVE  /\ \A g \in Gateways :
                 gwStatus[g].inc = gateway[g].inc /\ gateway'[g].inc = gateway[g].inc
                 => ~Live(gateway'[g]) \/ ~Regresses(gwStatus[g], gwStatus'[g])
           /\ \A r \in Routes :
                 rtStatus[r].inc = route[r].inc /\ route'[r].inc = route[r].inc
                 => ~Live(route'[r]) \/ ~Regresses(rtStatus[r], rtStatus'[r])
<1>1. ASSUME NEW g \in Gateways, gwStatus[g].inc = gateway[g].inc,
             gateway'[g].inc = gateway[g].inc, Live(gateway'[g])
      PROVE  ~Regresses(gwStatus[g], gwStatus'[g])
  <2>a. /\ gateway \in [Gateways -> GatewayObjects] /\ gwStatus \in [Gateways -> GwStatuses]
        /\ gateway[g] \in GatewayObjects /\ gwStatus[g] \in GwStatuses
    BY DEF TypeOK
  <2>1. CASE gwStatus'[g] = gwStatus[g]
    BY <2>a, <2>1 DEF Regresses, GwStatuses
  <2>2. ASSUME NEW s \in GatewaySpecs, ApplyGateway(g, s) PROVE gwStatus'[g] = gwStatus[g]
    BY <1>1, <2>a, <2>2 DEF ApplyGateway, NextVersion, GatewayObjects
  <2>3. ASSUME DeleteGateway(g) PROVE FALSE
    <3>1. gateway'[g] = [NoGateway EXCEPT !.inc = gateway[g].inc]
      BY <2>a, <2>3 DEF DeleteGateway
    <3>2. gateway'[g].gen = 0
      BY <3>1 DEF NoGateway
    <3>3. QED
      BY <1>1, <3>2 DEF Live
  <2>4. CASE GwPatchStatus(g)
    <3>1. Live(gateway[g]) /\ gwTask[g].pc = "status" /\ SameVer(gwStatus'[g], gwTask[g])
      BY <2>a, <2>4 DEF GwPatchStatus, SameVer
    <3>2. gwTask[g].inc = gwStatus[g].inc /\ gwTask[g].gen >= gwStatus[g].gen
      BY <1>1, <3>1 DEF IInv, GwInv, GwObservedPast, ObservedPast
    <3>3. QED
      BY <2>a, <3>1, <3>2 DEF Regresses, SameVer, GwStatuses, TypeOK, GwTasks
  <2>5. CASE \/ GwStep(g) /\ ~GwPatchStatus(g)
             \/ TimerFires(g) \/ DropMissing(g) \/ CrashAndRestart
    BY <2>1, <2>5 DEF GwStep, GwStart, GwGetClass, GwListRoutes, GwGetService, GwFetchFails,
       GwReadConfigMap, GwWriteConfigMap, GwApply, GwEffectFails, TimerFires, DropMissing,
       CrashAndRestart, statuses
  <2>6. QED
    BY <2>1, <2>2, <2>3, <2>4, <2>5, GwView DEF GwFrame, GwOwn
<1>2. ASSUME NEW r \in Routes, rtStatus[r].inc = route[r].inc,
             route'[r].inc = route[r].inc, Live(route'[r])
      PROVE  ~Regresses(rtStatus[r], rtStatus'[r])
  <2>a. /\ route \in [Routes -> RouteObjects] /\ rtStatus \in [Routes -> RtStatuses]
        /\ route[r] \in RouteObjects /\ rtStatus[r] \in RtStatuses
    BY DEF TypeOK
  <2>1. CASE rtStatus'[r] = rtStatus[r]
    BY <2>a, <2>1 DEF Regresses, RtStatuses
  <2>2. ASSUME NEW s \in RouteSpecs, ApplyRoute(r, s) PROVE rtStatus'[r] = rtStatus[r]
    BY <1>2, <2>a, <2>2 DEF ApplyRoute, NextVersion, RouteObjects
  <2>3. ASSUME DeleteRoute(r) PROVE FALSE
    <3>1. route'[r] = [NoRoute EXCEPT !.inc = route[r].inc]
      BY <2>a, <2>3 DEF DeleteRoute
    <3>2. route'[r].gen = 0
      BY <3>1 DEF NoRoute
    <3>3. QED
      BY <1>2, <3>2 DEF Live
  <2>4. CASE RtPatchStatus(r)
    <3>1. Live(route[r]) /\ rtTask[r].pc = "status" /\ SameVer(rtStatus'[r], rtTask[r])
      BY <2>a, <2>4 DEF RtPatchStatus, SameVer
    <3>2. rtTask[r].inc = rtStatus[r].inc /\ rtTask[r].gen >= rtStatus[r].gen
      BY <1>2, <3>1 DEF IInv, RtInv, RtObservedPast, ObservedPast
    <3>3. QED
      BY <2>a, <3>1, <3>2 DEF Regresses, SameVer, RtStatuses, TypeOK, RtTasks
  <2>5. CASE \/ RtStep(r) /\ ~RtPatchStatus(r)
             \/ TimerFires(r) \/ DropMissing(r) \/ CrashAndRestart
    BY <2>1, <2>5 DEF RtStep, RtStart, RtGetParent, RtGetParentClass, RtGetBackends, RtFetchFails,
       RtReadConfigMap, RtWriteConfigMap, RtPutConfig, RtMoveOn, RtEffectFails, TimerFires, DropMissing,
       CrashAndRestart, statuses
  <2>6. QED
    BY <2>1, <2>2, <2>3, <2>4, <2>5, RtView DEF RtFrame, RtOwn
<1>3. QED
  BY <1>1, <1>2

\* The observedGeneration of one incarnation never goes back: reconciles of a key never
\* overlap, and each reads the object afresh.
THEOREM ObservedMonotone == Spec => ObservedNeverRegresses
<1>1. TypeOK /\ IInv /\ [Next]_vars =>
         [/\ \A g \in Gateways :
                 gwStatus[g].inc = gateway[g].inc /\ gateway'[g].inc = gateway[g].inc
                 => ~Live(gateway'[g]) \/ ~Regresses(gwStatus[g], gwStatus'[g])
          /\ \A r \in Routes :
                 rtStatus[r].inc = route[r].inc /\ route'[r].inc = route[r].inc
                 => ~Live(route'[r]) \/ ~Regresses(rtStatus[r], rtStatus'[r])]_vars
  BY ObservedStep
<1>2. QED
  BY <1>1, InductiveInvariant, PTL DEF Spec, ObservedNeverRegresses

-----------------------------------------------------------------------------
(* That a ConfigMap mentions a route only in a version that was attached   *)
(* to its Gateway.  The ConfigMap's versions come from the snapshots of    *)
(* the reconciles, so the invariant is about those as well: the list of a  *)
(* Gateway reconcile, and the parents that a reconcile of a route is still *)
(* to read or to write.                                                    *)

\* The Gateways that the reconcile of r has to do with.
InHand(r) == rtTask[r].todo \cup rtTask[r].okay \cup rtTask[r].target

WasAttached(g, r, v) == v = NoVersion \/ <<g, r, v>> \in attached

HInv ==
    /\ Attachments \subseteq attached
    /\ \A r \in Routes : \A g \in InHand(r) \cap Gateways : <<g, r, Ver(rtTask[r])>> \in attached
    /\ \A g \in Gateways, r \in Routes : /\ WasAttached(g, r, gwTask[g].routes[r])
                                         /\ WasAttached(g, r, cm[g].routes[r])

LEMMA AttachedNow ==
    ASSUME NEW g \in Gateways, NEW r \in Routes, Live(route[r]), g \in route[r].spec.parents
    PROVE  <<g, r, Ver(route[r])>> \in Attachments
<1>1. <<g, r>> \in {y \in Gateways \X Routes : Live(route[y[2]]) /\ y[1] \in route[y[2]].spec.parents}
  OBVIOUS
<1>2. QED
  BY <1>1 DEF Attachments

\* What a step makes of the parents in the hands of a route's reconcile: fewer of
\* them, or those of the route as it is.
LEMMA InHandMoves ==
    ASSUME TypeOK, [Next]_vars, NEW q \in Routes
    PROVE  \/ InHand(q)' = {}
           \/ InHand(q)' \subseteq InHand(q) /\ Ver(rtTask'[q]) = Ver(rtTask[q])
           \/ /\ InHand(q)' = route[q].spec.parents
              /\ Ver(rtTask'[q]) = Ver(route[q]) /\ Live(route[q])
<1> DEFINE t == rtTask[q]
           Goal == \/ InHand(q)' = {}
                   \/ InHand(q)' \subseteq InHand(q) /\ Ver(rtTask'[q]) = Ver(rtTask[q])
                   \/ /\ InHand(q)' = route[q].spec.parents
                      /\ Ver(rtTask'[q]) = Ver(route[q]) /\ Live(route[q])
<1>a. rtTask \in [Routes -> RtTasks] /\ t \in RtTasks
  BY DEF TypeOK
<1>i. rtTask'[q] = IdleRt => Goal
  BY DEF InHand, IdleRt
<1>u. rtTask'[q] = t => Goal
  BY DEF InHand, Ver
<1>1. CASE RtFrame(q)
  BY <1>1, <1>u DEF RtFrame
<1>2. CASE CrashAndRestart
  BY <1>2, <1>i DEF CrashAndRestart
<1>3. CASE RtStart(q)
  <2>1. CASE rtTask' = [rtTask EXCEPT ![q] = IdleRt]
    BY <1>a, <1>i, <2>1
  <2>2. CASE rtTask' = [rtTask EXCEPT ![q] =
                [IdleRt EXCEPT !.pc = "parents", !.inc = route[q].inc,
                               !.gen = route[q].gen, !.todo = route[q].spec.parents,
                               !.needs = route[q].spec.backends]]
    <3>1. /\ rtTask'[q].todo = route[q].spec.parents
          /\ rtTask'[q].okay = {} /\ rtTask'[q].target = {}
          /\ rtTask'[q].inc = route[q].inc /\ rtTask'[q].gen = route[q].gen
      BY <1>a, <2>2 DEF IdleRt
    <3>2. Live(route[q])
      BY <1>3 DEF RtStart
    <3>3. QED
      BY <3>1, <3>2 DEF InHand, Ver
  <2>3. QED
    BY <1>3, <2>1, <2>2 DEF RtStart, EndRt
<1>4. CASE RtGetParent(q)
  <2>1. PICK g \in t.todo :
           \/ \E okay \in {t.okay, t.okay \cup {g}} :
                 rtTask' = [rtTask EXCEPT ![q] =
                    [t EXCEPT !.pc = "class", !.todo = t.todo \ {g},
                              !.okay = okay, !.found[g] = Ver(gateway[g])]]
           \/ rtTask' = [rtTask EXCEPT ![q] = [t EXCEPT !.todo = t.todo \ {g}]]
    BY <1>4, ParentRead
  <2>2. ASSUME NEW okay \in {t.okay, t.okay \cup {g}},
               rtTask' = [rtTask EXCEPT ![q] =
                    [t EXCEPT !.pc = "class", !.todo = t.todo \ {g},
                              !.okay = okay, !.found[g] = Ver(gateway[g])]]
        PROVE  Goal
    <3>1. /\ rtTask'[q].todo = t.todo \ {g} /\ rtTask'[q].okay = okay
          /\ rtTask'[q].target = t.target /\ SameVer(rtTask'[q], t)
      BY <1>a, <2>2 DEF RtTasks, SameVer
    <3>2. QED
      BY <3>1 DEF InHand, Ver, SameVer
  <2>3. CASE rtTask' = [rtTask EXCEPT ![q] = [t EXCEPT !.todo = t.todo \ {g}]]
    <3>1. /\ rtTask'[q].todo = t.todo \ {g} /\ rtTask'[q].okay = t.okay
          /\ rtTask'[q].target = t.target /\ SameVer(rtTask'[q], t)
      BY <1>a, <2>3 DEF RtTasks, SameVer
    <3>2. QED
      BY <3>1 DEF InHand, Ver, SameVer
  <2>4. QED
    BY <2>1, <2>2, <2>3
<1>5. CASE RtGetParentClass(q)
  <2>1. \/ \E b : rtTask' = [rtTask EXCEPT ![q] = [t EXCEPT !.pc = "parents", !.accepted = b]]
        \/ rtTask' = [rtTask EXCEPT ![q].pc = "parents"]
    BY <1>5, Zenon DEF RtGetParentClass
  <2>2. /\ rtTask'[q].todo = t.todo /\ rtTask'[q].okay = t.okay
        /\ rtTask'[q].target = t.target /\ SameVer(rtTask'[q], t)
    <3>1. CASE \E b : rtTask' = [rtTask EXCEPT ![q] = [t EXCEPT !.pc = "parents", !.accepted = b]]
      BY <1>a, <3>1 DEF RtTasks, SameVer
    <3>2. CASE rtTask' = [rtTask EXCEPT ![q].pc = "parents"]
      BY <1>a, <3>2 DEF RtTasks, SameVer
    <3>3. QED
      BY <2>1, <3>1, <3>2
  <2>3. QED
    BY <2>2 DEF InHand, Ver, SameVer
<1>6. CASE RtGetBackends(q)
  <2>1. \/ \E todo \in {t.okay, {}} :
              rtTask' = [rtTask EXCEPT ![q] = [t EXCEPT !.pc = "status", !.todo = todo]]
        \/ rtTask' = [rtTask EXCEPT ![q].pc = "status"]
    BY <1>6, Zenon DEF RtGetBackends
  <2>2. /\ rtTask'[q].todo \subseteq t.todo \cup t.okay /\ rtTask'[q].okay = t.okay
        /\ rtTask'[q].target = t.target /\ SameVer(rtTask'[q], t)
    <3>1. CASE \E todo \in {t.okay, {}} :
                  rtTask' = [rtTask EXCEPT ![q] = [t EXCEPT !.pc = "status", !.todo = todo]]
      BY <1>a, <3>1 DEF RtTasks, SameVer
    <3>2. CASE rtTask' = [rtTask EXCEPT ![q].pc = "status"]
      BY <1>a, <3>2 DEF RtTasks, SameVer
    <3>3. QED
      BY <2>1, <3>1, <3>2
  <2>3. QED
    BY <2>2 DEF InHand, Ver, SameVer
<1>7. CASE RtPatchStatus(q)
  <2>1. CASE rtTask' = [rtTask EXCEPT ![q] = IdleRt]
    BY <1>a, <1>i, <2>1
  <2>2. CASE rtTask' = [rtTask EXCEPT ![q].pc = "read"]
    <3>1. /\ rtTask'[q].todo = t.todo /\ rtTask'[q].okay = t.okay
          /\ rtTask'[q].target = t.target /\ SameVer(rtTask'[q], t)
      BY <1>a, <2>2 DEF RtTasks, SameVer
    <3>2. QED
      BY <3>1 DEF InHand, Ver, SameVer
  <2>3. QED
    BY <1>7, <2>1, <2>2 DEF RtPatchStatus, EndRt
<1>8. CASE RtReadConfigMap(q)
  <2>1. PICK g \in t.todo :
           rtTask' = [rtTask EXCEPT ![q] = [t EXCEPT !.pc = "write", !.target = {g},
                                                     !.todo = t.todo \ {g},
                                                     !.seen = (cm[g].owner > 0)]]
    BY <1>8 DEF RtReadConfigMap
  <2>a. \A b : LET u == [t EXCEPT !.pc = "write", !.target = {g},
                                  !.todo = t.todo \ {g}, !.seen = b]
              IN  /\ u.todo = t.todo \ {g} /\ u.okay = t.okay
                  /\ u.target = {g} /\ SameVer(u, t)
    BY <1>a DEF RtTasks, SameVer
  <2>2. /\ rtTask'[q].todo = t.todo \ {g} /\ rtTask'[q].okay = t.okay
        /\ rtTask'[q].target = {g} /\ SameVer(rtTask'[q], t)
    BY <1>a, <2>1, <2>a
  <2>3. QED
    BY <2>2 DEF InHand, Ver, SameVer
<1>9. CASE RtWriteConfigMap(q)
  <2>1. CASE rtTask' = [rtTask EXCEPT ![q] = IdleRt]
    BY <1>a, <1>i, <2>1
  <2>2. CASE rtTask' = [rtTask EXCEPT ![q] = [t EXCEPT !.pc = "read", !.target = {}]]
    <3>1. /\ rtTask'[q].todo = t.todo /\ rtTask'[q].okay = t.okay
          /\ rtTask'[q].target = {} /\ SameVer(rtTask'[q], t)
      BY <1>a, <2>2 DEF RtTasks, SameVer
    <3>2. QED
      BY <3>1 DEF InHand, Ver, SameVer
  <2>3. QED
    BY <1>9, <2>1, <2>2 DEF RtWriteConfigMap, RtMoveOn, EndRt
<1>10. CASE RtFetchFails(q) \/ RtEffectFails(q)
  BY <1>10, <1>a, <1>i DEF RtFetchFails, RtEffectFails, EndRt
<1>11. CASE \/ \E s \in RouteSpecs : ApplyRoute(q, s)
            \/ DeleteRoute(q) \/ TimerFires(q) \/ DropMissing(q)
  BY <1>11, <1>u DEF ApplyRoute, DeleteRoute, TimerFires, DropMissing, control
<1>12. QED
  BY <1>1, <1>2, <1>3, <1>4, <1>5, <1>6, <1>7, <1>8, <1>9, <1>10, <1>11, RtView
     DEF RtOwn, RtStep

LEMMA HInvInit == HInit => HInv
<1> SUFFICES ASSUME HInit PROVE HInv
  OBVIOUS
<1>1. Attachments \subseteq attached
  BY DEF HInit
<1>2. \A r \in Routes : InHand(r) = {}
  BY DEF HInit, Init, InHand, IdleRt
<1>3. \A g \in Gateways, r \in Routes :
        gwTask[g].routes[r] = NoVersion /\ cm[g].routes[r] = NoVersion
  BY DEF HInit, Init, IdleGw, NoConfigMap
<1>4. QED
  BY <1>1, <1>2, <1>3 DEF HInv, WasAttached

LEMMA HInvNext == TypeOK /\ HInv /\ [HNext]_hvars => HInv'
<1> SUFFICES ASSUME TypeOK, HInv, [HNext]_hvars PROVE HInv'
  OBVIOUS
<1>1. [Next]_vars
  BY DEF HNext, hvars
<1>2. attached \subseteq attached' /\ Attachments' \subseteq attached'
  <2>1. CASE HNext
    BY <2>1 DEF HNext
  <2>2. CASE UNCHANGED hvars
    <3>1. attached' = attached /\ Attachments' = Attachments
      BY <2>2 DEF hvars, vars, world, Attachments
    <3>2. QED
      BY <3>1 DEF HInv
  <2>3. QED
    BY <2>1, <2>2
<1>3. ASSUME NEW r \in Routes, NEW g \in InHand(r)' \cap Gateways
      PROVE  <<g, r, Ver(rtTask'[r])>> \in attached
  <2>1. CASE InHand(r)' \subseteq InHand(r) /\ Ver(rtTask'[r]) = Ver(rtTask[r])
    BY <1>3, <2>1 DEF HInv
  <2>2. CASE /\ InHand(r)' = route[r].spec.parents
             /\ Ver(rtTask'[r]) = Ver(route[r]) /\ Live(route[r])
    BY <1>3, <2>2, AttachedNow DEF HInv
  <2>3. QED
    BY <1>1, <1>3, <2>1, <2>2, InHandMoves
<1>4. ASSUME NEW g \in Gateways, NEW r \in Routes
      PROVE  WasAttached(g, r, gwTask'[g].routes[r])
  <2>1. WasAttached(g, r, RoutesForGateway(g)[r])
    BY AttachedNow DEF RoutesForGateway, WasAttached, HInv
  <2>2. QED
    BY <1>1, <2>1, ListSources DEF HInv, WasAttached
<1>5. ASSUME NEW g \in Gateways, NEW r \in Routes
      PROVE  WasAttached(g, r, cm'[g].routes[r])
  <2>1. CASE cm'[g].routes[r] = Ver(rtTask[r]) /\ rtTask[r].target = {g}
    <3>1. g \in InHand(r) \cap Gateways
      BY <2>1 DEF InHand
    <3>2. QED
      BY <2>1, <3>1 DEF HInv, WasAttached
  <2>2. QED
    BY <1>1, <2>1, ConfigSources DEF HInv, WasAttached
<1>6. QED
  BY <1>2, <1>3, <1>4, <1>5 DEF HInv, WasAttached, Ver

\* The invariant of the runs: however the reads and the writes of the controllers
\* interleave, no ConfigMap mixes the parents of one version of a route with the
\* rules of another (fetcher.rs 49-179, reconcile.rs 1010-1024).
THEOREM OnlyAttachedPublished == HSpec => []PublishedWasAttached
<1>1. HInit => TypeOK /\ HInv
  BY TypeInit, HInvInit DEF HInit
<1>2. TypeOK /\ HInv /\ [HNext]_hvars => TypeOK' /\ HInv'
  BY TypeNext, HInvNext DEF HNext, hvars
<1>3. HInv => PublishedWasAttached
  BY DEF HInv, WasAttached, PublishedWasAttached
<1>4. QED
  BY <1>1, <1>2, <1>3, PTL DEF HSpec

=============================================================================
