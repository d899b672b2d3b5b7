CONSTANTS
    w = w
    v = v
    e = e
    r = r
    None = None
    Global = Global
    Clients = {c1}
    Addons = {w, v, e, r}
    Rss = {r}
    Listable = {e}
    Maps = {w, v}
    ExtraAddons <- OnlyRss
    Mountable <- OnlyRss
    GlobalAddons <- Extra
    CacheOn = TRUE
    CacheDuration = 0
    ExtraTimeout = 1
    ConnTimeout = 1
    MaxAge = 2
    Events = {"time", "remove", "map"}
    Prompt = TRUE
SPECIFICATION FairSpec
PROPERTIES
    EveryoneJoins
    UnansweredIsDisconnected
    KickedIsUnanswered
    ActiveHasAll
    ActiveMountsAll
