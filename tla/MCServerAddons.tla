--------------------------- MODULE MCServerAddons ---------------------------
(* Bounded instances of ServerAddons for TLC.                              *)
EXTENDS ServerAddons

CONSTANTS w, e, h       \* a workshop map and two extra addons

OneOrTwo  == {<<>>, <<e>>, <<h, e>>}
WithMap   == {<<>>, <<e>>, <<w, e>>}
Anything  == {{e, h, w}}
SomeOrAll == {{e}, {e, w}}
=============================================================================
