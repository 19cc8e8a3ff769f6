SPECIFICATION Spec
CONSTANTS
    None = None
    Top = Top
    a = a
    z = z
    Hosts = {a, z}
    TopChain <- MixedTop
    HostChain <- VhostsHost
    Main <- MainValues
    Fallback <- FallbackValues
    Confs <- AllOn
INVARIANTS
    CapturedBeforeLogged
CHECK_DEADLOCK FALSE
