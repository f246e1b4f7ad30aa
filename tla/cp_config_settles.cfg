CONSTANTS
    Gateways = {g1}
    Routes = {r1, r2}
    Backends = {}
    ClassKey = cls
    GatewaySpecs <- Open
    RouteSpecs <- Attached
    NameTwin <- NoTwin
    Preexisting <- Everything
    FirstClasses = {"accepted"}
    Budgets <- ResyncOrTick
    Bounded <- Kinds
SPECIFICATION FairSpec
PROPERTIES ConfigSettles
CHECK_DEADLOCK FALSE
