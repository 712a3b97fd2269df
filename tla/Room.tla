-------------------------------- MODULE Room --------------------------------
(***************************************************************************)
(* What a lobby promises.  A host accepts posts one after another; a member *)
(* hears some of them, each at most once, and those that come over one     *)
(* path in the order in which their host accepted them.                    *)
(***************************************************************************)
EXTENDS Naturals, Sequences

CONSTANTS Hosts, Members, Paths, MaxPosts

VARIABLES said,    \* host -> number of posts it accepted
          heard    \* member -> the posts in its log, [host, pos, path]

RoomInit ==
  /\ said = [h \in Hosts |-> 0]
  /\ heard = [m \in Members |-> <<>>]

Say(h) ==
  /\ said[h] < MaxPosts
  /\ said' = [said EXCEPT ![h] = @ + 1]
  /\ UNCHANGED heard

Hear(m, h, pos, p) ==
  /\ \A k \in DOMAIN heard[m] : heard[m][k].host = h =>
       /\ heard[m][k].pos # pos
       /\ heard[m][k].path = p => heard[m][k].pos < pos
  /\ heard' = [heard EXCEPT ![m] = Append(@, [host |-> h, pos |-> pos, path |-> p])]
  /\ UNCHANGED said

RoomNext ==
  \E h \in Hosts :
    \/ Say(h)
    \/ \E m \in Members, p \in Paths, pos \in 1 .. said[h] : Hear(m, h, pos, p)

RoomSpec == RoomInit /\ [][RoomNext]_<<said, heard>>
=============================================================================
