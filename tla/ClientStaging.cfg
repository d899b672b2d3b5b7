CONSTANTS
    w = w
    v = v
    e = e
    r = r
    None = None
    Global = Global
    Clients = {c1}
    Addons = {w, e, r}
    Rss = {r}
    Listable = {e}
    Maps = {w, None}
    ExtraAddons <- Extra
    Mountable <- NoList
    GlobalAddons <- OnlyRss
    CacheOn = TRUE
    CacheDuration = 2
    ExtraTimeout = 1
    ConnTimeout = 2
    MaxAge = 3
    Events = {"leave", "time", "add", "refresh", "prefer"}
    Prompt = FALSE
SPECIFICATION Spec
INVARIANTS
    TypeOK
    BeliefSound
    AtMostOneToFetch
PROPERTIES
    OptedOutNeverCredited
    LateReconnectEarnsNothing
    OptOutRespected
