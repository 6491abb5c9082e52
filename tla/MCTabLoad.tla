------------------------------ MODULE MCTabLoad ------------------------------
(* Small instances of TabLoad: two addresses of http(s), one of chrome:// and   *)
(* about:blank, which goto may leave and not arrive at.                         *)
EXTENDS TabLoad

CONSTANTS home, goal, chrome, blank

MCUrls     == {home, goal, chrome, blank}
MCInternal == {chrome, blank}
MCRefused  == {chrome}
=============================================================================
