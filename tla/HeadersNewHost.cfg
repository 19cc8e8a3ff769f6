SPECIFICATION Spec
CONSTANTS
    None = None
    Configurations <- NewHost
    ListOptions <- Lists
    RequestHosts <- Hosts
    RequestKeys <- Keys
INVARIANTS
    RulesApplied
