CONSTANTS
    e = e
    r = r
    None = None
    Global = Global
    Clients = {c1}
    Addons = {e, r}
    Rss = {r}
    Maps = {None}
    Community = {}
    SharedNames = {}
    LegacyItems = {}
    NotFound = {}
    SingleFile = {}
    Lists <- EitherFirst
    MountDownload = FALSE
    Startable <- Anything
    Results = {TRUE}
    InOrder = TRUE
    Calm = TRUE
    MaxCommands = 1
    ServerEvents = {"map", "refresh", "cvar"}
    Listable = {r}
    GlobalAddons <- NoList
    CacheOn = TRUE
    CacheDuration = 0
    ExtraTimeout = 1
    ConnTimeout = 2
    MaxAge = 3
    ClientEvents = {"prefer", "refresh", "add"}
    Prompt = FALSE
    ServerDisks <- OnlyR
    ClientDisks <- Nothing
SPECIFICATION Spec
INVARIANTS
    BeliefSound
PROPERTIES
    ActiveHasRequired
    OptedOutNeverCredited
    OptOutRespected
