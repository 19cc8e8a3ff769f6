SPECIFICATION FilesSpec
CONSTANTS
    None = None
    one = one
    two = two
    Dot = 30
    DotDot = 31
    Decode <- SomeNames
    Encode <- SomeEncoded
    Cut <- SomeCuts
    Kind <- SomeKinds
    Links <- SomeLinks
    IndexFiles <- SomeIndex
    Page404 <- NotFound
    Canonicalize = TRUE
    SiteRoot <- Www
    StrippedRoot <- Files
    Methods = {"GET", "POST"}
    Configurations <- SomeConfigurations
    RequestHosts <- Hosts
    RequestPaths <- SomePaths
INVARIANTS
    RoutedAsConfigured
    StrippedPath
    
    ServesWhatIsThere
CHECK_DEADLOCK FALSE
