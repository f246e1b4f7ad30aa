CONSTANTS
    Gateways = {g1}
    Routes = {r1}
    Backends = {}
    ClassKey = cls
    GatewaySpecs <- OpenOrInvalid
    RouteSpecs <- AttachedOrNot
    NameTwin <- AllTwins
    Preexisting <- Everything
    FirstClasses = {"accepted"}
    Budgets <- TwoEdits
    Bounded <- Kinds
SPECIFICATION HSpec
INVARIANTS TypeOK PublishedWasAttached StatusFirst GatewayStatusTracks ConfigFollowsGateway IInv
PROPERTIES ObservedNeverRegresses
CHECK_DEADLOCK FALSE
