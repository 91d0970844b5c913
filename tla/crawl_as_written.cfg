CONSTANTS
    Pages <- MCPages
    Seed = "s"
    Rotation <- MCRotation
    Gap = 3
    NoPage = NoPage
    SELF_BOUND = FALSE
    MaxElapsed = 2
    HeadResults <- AllHead
    GetResults = {"transport", "invalid", "valid"}
    Bodies <- WrittenBodies
    RobotsResults = {"rules", "allow_all", "deny_all", "raise"}
    Disallowed = {}
    Foreign = "ext"
    PluginOrder <- MCPluginOrder
    PluginNames <- MCPluginNames
    Names <- MCNames
    Vals <- MCVals
    NoValue = NoValue
    Procs = {c}
    Cron = c
    Admins = {}
SPECIFICATION Spec
INVARIANT
    PluginValuesLastWriterWins
