CONSTANTS
    Pages <- MCPages
    Seed = "s"
    Rotation <- LiveRotation
    Gap = 2
    NoPage = NoPage
    SELF_BOUND = TRUE
    MaxElapsed = 1
    HeadResults <- RefusedOrHtml
    GetResults = {"valid"}
    Bodies <- BothLinked
    RobotsResults = {"rules"}
    Disallowed = {}
    Foreign = "ext"
    PluginOrder <- LivePluginOrder
    PluginNames <- MCPluginNames
    Names <- MCNames
    Vals <- MCVals
    NoValue = NoValue
    Procs = {c}
    Cron = c
    Admins = {}
SPECIFICATION FairSpec
PROPERTY
    EveryPageRecheckedForever
