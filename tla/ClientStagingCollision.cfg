CONSTANTS
    w = w
    v = v
    e = e
    r = r
    None = None
    Global = Global
    Clients = {c1}
    Addons = {w, e, r}
    Rss = {r}
    Listable = {r}
    Maps = {r}
    ExtraAddons <- Extra
    Mountable <- Extra
    GlobalAddons <- NoList
    CacheOn = FALSE
    CacheDuration = 0
    ExtraTimeout = 1
    ConnTimeout = 2
    MaxAge = 3
    Events = {"time"}
    Prompt = TRUE
SPECIFICATION FairSpec
PROPERTIES
    EveryoneJoins
