----------------------------- MODULE MCServices -----------------------------
(* One device that administers the core, and one that registers there from a *)
(* shell while `neonet revoke` runs on it.                                   *)
EXTENDS Services, TLC

CONSTANTS c1, c2, c3, d1, d2

MCOwner == c1 :> d1 @@ c2 :> d2 @@ c3 :> d2
MCKinds == [c \in Clients |-> IF c = c3 THEN {"revoke"}
                              ELSE {"register", "list", "revoke"}]

=============================================================================
