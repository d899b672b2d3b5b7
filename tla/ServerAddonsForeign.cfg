CONSTANTS
    w = w
    e = e
    h = h
    None = None
    Addons = {w, e, h}
    Maps = {w, None}
    Community = {}
    SharedNames = {}
    LegacyItems = {}
    NotFound = {}
    SingleFile = {}
    Lists <- OneOrTwo
    MountDownload = FALSE
    Startable <- Anything
    Results = {TRUE}
    InOrder = TRUE
    Calm = FALSE
    MaxCommands = 1
    Events = {"download", "engine"}
SPECIFICATION Spec
INVARIANTS
    FinishedListIsExhausted
