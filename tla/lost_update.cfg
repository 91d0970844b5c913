CONSTANTS
    Pages <- AdminPages
    Seed = "s"
    Rotation <- NoRotation
    Gap = 1
    NoPage = NoPage
    SELF_BOUND = TRUE
    MaxElapsed = 1
    HeadResults <- OnlyHtml
    GetResults = {"valid"}
    Bodies <- AdminBodies
    RobotsResults = {"rules"}
    Disallowed = {}
    Foreign = "ext"
    PluginOrder <- AdminPluginOrder
    PluginNames <- MCPluginNames
    Names <- AdminNames
    Vals <- AdminVals
    NoValue = NoValue
    Procs = {c}
    Cron = c
    Admins = {x}
    MaxRequests = 3
    AdminViews = {"toggle", "expunge"}
SPECIFICATION AdminSpec
CHECK_DEADLOCK FALSE
PROPERTY
    CheckedAtNeverGoesBack
