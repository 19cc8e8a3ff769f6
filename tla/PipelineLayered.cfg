SPECIFICATION Spec
CONSTANTS
    None = None
    Top = Top
    a = a
    z = z
    Hosts = {a, z}
    TopChain <- LayeredTop
    HostChain <- LayeredHost
    Main <- TwoValues
    Fallback <- NoValues
    Confs <- SomeConfs
INVARIANTS
    AnonymizedLog
    LoggedOnce
    AuthGate
    OriginalUriKept
    HandledIsServed
PROPERTIES
    AnswerIsFinal
    EveryRequestEnds
CHECK_DEADLOCK FALSE
