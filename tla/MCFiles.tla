------------------------------ MODULE MCFiles -------------------------------
(* A source file of two chunks that may be edited down to one, or emptied.  *)
EXTENDS Files, TLC

CONSTANTS v1, v2, v3

MCNumChunks == v1 :> 2 @@ v2 :> 1 @@ v3 :> 0
MCFileSize == v1 :> 2 @@ v2 :> 1 @@ v3 :> 0
=============================================================================
