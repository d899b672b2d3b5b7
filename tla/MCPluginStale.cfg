CONSTANTS
    e = e
    r = r
    None = None
    Global = Global
    Clients = {c1}
    Addons = {e, r}
    Rss = {r}
    Maps = {None}
    Community = {}
    SharedNames = {}
    LegacyItems = {}
    NotFound = {}
    SingleFile = {}
    Lists <- EitherFirst
    MountDownload = FALSE
    Startable <- Anything
    Results = {TRUE}
    InOrder = TRUE
    Calm = TRUE
    MaxCommands = 1
    ServerEvents = {"map", "download", "refresh"}
    Listable = {}
    GlobalAddons <- NoList
    CacheOn = TRUE
    CacheDuration = 0
    ExtraTimeout = 1
    ConnTimeout = 2
    MaxAge = 3
    ClientEvents = {}
    Prompt = FALSE
    ServerDisks <- OnlyR
    ClientDisks <- Nothing
SPECIFICATION Spec
PROPERTIES
    EveryoneActiveHasRequired
