-------------------------- MODULE MCClientStaging --------------------------
(* Bounded instances of ClientStaging for TLC.                             *)
EXTENDS ClientStaging

CONSTANTS w, v, e, r    \* two workshop maps, two extra addons (r an RSS asset)

NoList  == <<>>
Extra   == <<e>>
OnlyRss == <<r>>
=============================================================================
