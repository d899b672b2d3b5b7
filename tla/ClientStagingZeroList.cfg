CONSTANTS
    w = w
    v = v
    e = e
    r = r
    None = None
    Global = Global
    Clients = {c1}
    Addons = {w, e, r}
    Rss = {r}
    Listable = {r}
    Maps = {None}
    ExtraAddons <- Extra
    Mountable <- NoList
    GlobalAddons <- NoList
    CacheOn = TRUE
    CacheDuration = 0
    ExtraTimeout = 1
    ConnTimeout = 2
    MaxAge = 3
    Events = {}
    Prompt = FALSE
SPECIFICATION Spec
PROPERTIES
    ZeroListMeansNoServerAddons
