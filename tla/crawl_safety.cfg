CONSTANTS
    Pages <- SafetyPages
    Seed = "s"
    Rotation <- NoRotation
    Gap = 1
    NoPage = NoPage
    SELF_BOUND = TRUE
    MaxElapsed = 1
    HeadResults <- SafetyHead
    GetResults = {"valid"}
    Bodies <- SafetyBodies
    RobotsResults = {"rules"}
    Disallowed = {}
    Foreign = "ext"
    PluginOrder <- LivePluginOrder
    PluginNames <- MCPluginNames
    Names <- MCNames
    Vals <- MCVals
    NoValue = NoValue
    Procs = {c}
    Cron = c
    Admins = {}
SPECIFICATION Spec
INVARIANTS
    TypeOK
    BreadthFirstDiscovery
    OutgoingLinksReconciled
PROPERTY
    ImplementsAbstractCrawl
