SPECIFICATION Spec
CONSTANTS
    None = None
    Top = Top
    a = a
    z = z
    Hosts = {a, z}
    TopChain <- VhostsTop
    HostChain <- VhostsHost
    Main <- MainValues
    Fallback <- FallbackValues
    Confs <- DifferingConfs
INVARIANTS
    SameHandler
CHECK_DEADLOCK FALSE
