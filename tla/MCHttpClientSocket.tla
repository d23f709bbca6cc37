------------------------- MODULE MCHttpClientSocket -------------------------
(***************************************************************************)
(* Small instances of HttpClientSocket for TLC.                            *)
(***************************************************************************)
EXTENDS HttpClientSocket
=============================================================================
