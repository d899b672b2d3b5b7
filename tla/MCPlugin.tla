------------------------------ MODULE MCPlugin ------------------------------
(* A bounded instance of Plugin for TLC.                                   *)
EXTENDS Plugin

CONSTANTS e, r          \* an extra addon and an RSS asset

NoList      == <<>>
EitherFirst == {<<e, r>>, <<r, e>>}
OnlyR       == {{r}}    \* the server has yet to download the other
Nothing     == {{}}
Anything    == {Addons}
=============================================================================
