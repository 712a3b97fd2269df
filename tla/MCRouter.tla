------------------------------ MODULE MCRouter ------------------------------
(* A router with two identities and one oversized message, driven through    *)
(* its whole interface.                                                      *)
EXTENDS Router, TLC

CONSTANTS a, b

Msg(id, size) == [id |-> id, sender |-> a, recipient |-> b, size |-> size]

MCMessages == {Msg(1, 1), Msg(2, 1), Msg(3, 1)}
                \cup {[id |-> 4, sender |-> b, recipient |-> a, size |-> 2]}
\* Nothing tells two inboxes, or two links, apart.
MCSymmetry == Permutations(Inboxes) \cup Permutations(Links)
=============================================================================
