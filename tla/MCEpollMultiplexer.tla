------------------------- MODULE MCEpollMultiplexer -------------------------
(***************************************************************************)
(* Small instances of EpollMultiplexer for TLC.                            *)
(***************************************************************************)
EXTENDS EpollMultiplexer, TLC

CONSTANTS l, c, a, b

(***************************************************************************)
(* Connections are interchangeable.                                        *)
(***************************************************************************)
ConnectionSymmetry == Permutations({a, b})
=============================================================================
