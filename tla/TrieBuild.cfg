SPECIFICATION Spec
CONSTANTS
    v = v
    w = w
    None = None
    Values = {v, w}
    Keys <- Labels
    MaxPushes = 3
INVARIANTS
    CountersExact
    NodesCanonical
PROPERTIES
    IsRouteTable
