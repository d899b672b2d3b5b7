-------------------------- MODULE MCRssPreferences --------------------------
(* Bounded instances of RssPreferences for TLC.                            *)
EXTENDS RssPreferences
=============================================================================
