------------------------- MODULE MCHttpServerSocket -------------------------
(***************************************************************************)
(* Small instances of HttpServerSocket for TLC.                            *)
(***************************************************************************)
EXTENDS HttpServerSocket
=============================================================================
