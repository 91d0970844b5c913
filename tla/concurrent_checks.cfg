\* cron's check_site and a page_check request of the web views checking at
\* once, with no admin request: the seed and one page its body may or may
\* not name, 200 HTML, HTML moved off-site and 404.
CONSTANTS
    Pages <- AdminPages
    Seed = "s"
    Rotation <- NoRotation
    Gap = 1
    NoPage = NoPage
    SELF_BOUND = TRUE
    MaxElapsed = 1
    HeadResults <- SafetyHead
    GetResults = {"valid"}
    Bodies <- AdminBodies
    RobotsResults = {"rules"}
    Disallowed = {}
    Foreign = "ext"
    PluginOrder <- LivePluginOrder
    PluginNames <- MCPluginNames
    Names <- AdminNames
    Vals <- AdminVals
    NoValue = NoValue
    Procs = {c, w}
    Cron = c
    Admins = {}
    MaxRequests = 0
    AdminViews = {}
SPECIFICATION Spec
PROPERTY
    ImplementsAbstractCrawl
