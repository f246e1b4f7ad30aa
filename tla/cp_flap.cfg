CONSTANTS
    Gateways = {g1}
    Routes = {r1, r2}
    Backends = {}
    ClassKey = cls
    GatewaySpecs <- Open
    RouteSpecs <- Attached
    NameTwin <- NoTwin
    Preexisting <- Everything
    FirstClasses = {"accepted"}
    Budgets <- NoEvent
    Bounded <- Kinds
SPECIFICATION Spec
PROPERTIES PublishedRouteStays
CHECK_DEADLOCK FALSE
