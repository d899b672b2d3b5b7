CONSTANTS
    w = w
    e = e
    h = h
    None = None
    Addons = {w, e, h}
    Maps = {w, None}
    Community = {}
    SharedNames = {}
    LegacyItems = {h}
    NotFound = {}
    SingleFile = {}
    Lists <- OneOrTwo
    MountDownload = TRUE
    Startable <- Anything
    Results = {TRUE}
    InOrder = TRUE
    Calm = FALSE
    MaxCommands = 1
    Events = {"cvar", "engine"}
SPECIFICATION FairSpec
PROPERTIES
    EveryExtraIsMounted
    ReloadsStop
