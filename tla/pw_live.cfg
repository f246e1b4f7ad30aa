CONSTANTS
    Workers = {w1}
    http = http
    https = https
    Listeners = {http, https}
    ListenerLists <- OneTwoOrNone
    Addresses = {a1, a2, a3}
    Clients = {c1, c2}
    None = none
    AddressReuse = FALSE
    MaxVersion = 2
    MaxFaults = 1
SPECIFICATION FairSpec
INVARIANTS PipelinesCurrent
PROPERTIES Converges PendingIsTaken ShutdownCompletes
CHECK_DEADLOCK FALSE
