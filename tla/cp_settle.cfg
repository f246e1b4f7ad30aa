CONSTANTS
    Gateways = {g1}
    Routes = {r1}
    Backends = {b1}
    ClassKey = cls
    GatewaySpecs <- Open
    RouteSpecs <- AttachedBacked
    NameTwin <- NoTwin
    Preexisting <- Everything
    FirstClasses = {"absent", "pending"}
    Budgets <- EditOrFault
    Bounded <- FreeResync
SPECIFICATION FairSpec
PROPERTIES StatusesSettle StaleRoutesLeave
CHECK_DEADLOCK FALSE
