SPECIFICATION ServedSpec
CONSTANTS
    None = None
    Configurations <- HeaderSetups
    RewriteConfigurations <- RewriteSetups
    Setups <- SomeSetups
    ListOptions <- Lists
    RequestHosts <- Hosts
    RequestKeys <- Keys
    RequestPaths <- SomePaths
    OwnHeaders <- FileHeaders
INVARIANTS
    RegularRulesApplied
    NothingExtra
    SpecificPrevails
    AnsweredAsDocumented
    RewrittenAsDocumented
