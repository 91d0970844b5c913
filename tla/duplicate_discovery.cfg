\* cron's check_site and a page_check request of the web views at once
CONSTANTS
    Pages <- AdminPages
    Seed = "s"
    Rotation <- NoRotation
    Gap = 1
    NoPage = NoPage
    SELF_BOUND = TRUE
    MaxElapsed = 1
    HeadResults <- OnlyHtml
    GetResults = {"valid"}
    Bodies <- BodyLinksA
    RobotsResults = {"rules"}
    Disallowed = {}
    Foreign = "ext"
    PluginOrder <- LivePluginOrder
    PluginNames <- MCPluginNames
    Names <- AdminNames
    Vals <- AdminVals
    NoValue = NoValue
    Procs = {c, w}
    Cron = c
    Admins = {}
    MaxRequests = 0
    AdminViews = {}
SPECIFICATION AdminSpec
INVARIANT
    CheckNeverRaises
