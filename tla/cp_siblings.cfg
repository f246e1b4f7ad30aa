CONSTANTS
    Gateways = {g1}
    Routes = {r1, r2}
    Backends = {}
    ClassKey = cls
    GatewaySpecs <- Open
    RouteSpecs <- Attached
    NameTwin <- NoTwin
    Preexisting <- Everything
    FirstClasses = {"accepted"}
    Budgets <- EditOrFaults
    Bounded <- Kinds
SPECIFICATION Spec
INVARIANTS LostRouteHeals RouteStatusTracks
SYMMETRY Symmetry
CHECK_DEADLOCK FALSE
