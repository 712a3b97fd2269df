------------------------------ MODULE MCLobby -------------------------------
(* Two members that compete for the seats of a lobby that starts over, one    *)
(* with a shell and a command beside it, which take frames over two paths.    *)
EXTENDS Lobby, TLC

CONSTANTS m1, m2, s1, s2, s3, p1, p2, p3

Homes == s1 :> m1 @@ s2 :> m1 @@ s3 :> m2
Ends == p1 :> s1 @@ p2 :> s2 @@ p3 :> s3
=============================================================================
