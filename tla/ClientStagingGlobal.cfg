CONSTANTS
    w = w
    v = v
    e = e
    r = r
    None = None
    Global = Global
    Clients = {c1, c2}
    Addons = {w, r}
    Rss = {r}
    Listable = {r}
    Maps = {w}
    ExtraAddons <- NoList
    Mountable <- NoList
    GlobalAddons <- NoList
    CacheOn = TRUE
    CacheDuration = 0
    ExtraTimeout = 1
    ConnTimeout = 2
    MaxAge = 3
    Events = {"add", "refresh"}
    Prompt = FALSE
SPECIFICATION Spec
PROPERTIES
    GlobalRefreshReachesEveryone
