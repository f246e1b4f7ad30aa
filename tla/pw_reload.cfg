CONSTANTS
    Workers = {w1, w2}
    http = http
    https = https
    Listeners = {http, https}
    ListenerLists <- OneOrTwo
    Addresses = {a1, a2, a3, a4}
    Clients = {c1}
    None = none
    AddressReuse = TRUE
    MaxVersion = 2
    MaxFaults = 2
SPECIFICATION Spec
INVARIANTS TypeOK IInv FirstChangeDetected ServedByItsListener
PROPERTIES ReloadsForward
SYMMETRY Symmetry
CHECK_DEADLOCK FALSE
