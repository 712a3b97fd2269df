------------------------------- MODULE MCPair -------------------------------
(* Two other devices and two tokens, which live for one tick although two   *)
(* are asked for.                                                           *)
EXTENDS Pair, TLC
=============================================================================
