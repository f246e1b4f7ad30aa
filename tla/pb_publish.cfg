SPECIFICATION Spec
CONSTANTS
    GatewayKeys <- MCGatewayKeys
    RouteKeys <- MCRouteKeys
    ServiceKeys <- MCServiceKeys
    SecretKeys <- MCSecretKeys
    ClassStatus <- MCClassStatus
    Nodes <- MCNodes
    Bytes <- MCBytes
    GatewaySpecs <- MCGatewaySpecs
    RouteSpecs <- MCRouteSpecs
    Services <- MCServices
    Contents <- MCContents
    Grants <- MCGrants
    MaxObjects = 4
INVARIANTS AcceptedIsPublished PublishersAgree ResolvedIsServed PortsExposed
           DataPlaneReadsItsConfig
PROPERTIES GrantsOnlyAdmit
