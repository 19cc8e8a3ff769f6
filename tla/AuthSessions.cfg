SPECIFICATION Spec
CONSTANTS
    page = page
    other = other
    ann = ann
    ip = ip
    key = key
    first = first
    second = second
    None = None
    Server = Server
    Total = Total
    Handlers = {page, other}
    Users = {ann}
    Ips = {ip}
    Requests = {first, second}
    Configurations <- SomeConfigurations
    SecondsPerHour = 1
    SecondsPerDay = 2
    MaxBody = 1
    MaxChunk = 2
    MaxClock = 2
    MaxStarts = 2
    MaxCookies = 2
    MaxAttempts = 2
SYMMETRY Symmetry
INVARIANTS
    TypeOK
    LimitsHold
    SecureKept
    BodyBounded
PROPERTIES
    SessionsFromLogin
    LoginSticks
CHECK_DEADLOCK FALSE
