------------------------- MODULE MCHttpRoutingProxy -------------------------
(***************************************************************************)
(* Small instances of HttpRoutingProxy for TLC.                            *)
(***************************************************************************)
EXTENDS HttpRoutingProxy

CONSTANTS k1, k2
=============================================================================
