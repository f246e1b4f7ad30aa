CONSTANTS
    Workers = {w1}
    http = http
    https = https
    Listeners = {http, https}
    ListenerLists <- OneOrTwo
    Addresses = {a1, a2, a3}
    Clients = {}
    None = none
    AddressReuse = TRUE
    MaxVersion = 3
    MaxFaults = 0
SPECIFICATION Spec
INVARIANTS PipelinesCurrent
CHECK_DEADLOCK FALSE
