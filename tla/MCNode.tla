------------------------------- MODULE MCNode -------------------------------
(* Instances of Node: a core that accepts two successive connections of the  *)
(* same device, and an edge or a shell that dials a core.                    *)
EXTENDS Node, TLC

CONSTANTS me, dev, core, far, l1, l2, l3

Msg(id, from, to, size) ==
  [id |-> id, sender |-> from, recipient |-> to, size |-> size]

(***************************************************************************)
(* A core: device `dev' connects, loses its connection and connects again, *)
(* and a device that is not on the allow list tries too.                   *)
(***************************************************************************)
Request == Msg(1, dev, me, 1)
Reply == Msg(1, me, dev, 1)
Spoofed == Msg(2, far, me, 1)
Stranger == Msg(3, far, me, 1)
Push1 == Msg(4, me, dev, 1)
Push2 == Msg(5, me, dev, 1)

CoreMessages == {Request, Reply, Spoofed, Stranger, Push1, Push2}
CoreRemote == l1 :> dev @@ l2 :> dev @@ l3 :> far
CoreArrives == l1 :> {Request} @@ l2 :> {Spoofed} @@ l3 :> {Stranger}
ReplyToRequest(messages) ==
  [m \in messages |-> IF m = Request THEN Reply ELSE NoMsg]
CoreReplyTo == ReplyToRequest(CoreMessages)
CoreApp == {Push1, Push2}

(***************************************************************************)
(* An edge, whose only dial ends it, or a shell that dials the same core   *)
(* again; the core relays to and from `far'.                               *)
(***************************************************************************)
Relayed == Msg(1, far, me, 1)
RelayedReply == Msg(1, me, far, 1)
Mail == Msg(2, me, far, 1)
Later == Msg(3, far, me, 1)

EdgeMessages == {Relayed, RelayedReply, Mail, Later}
EdgeRemote == l1 :> core @@ l2 :> core
EdgeArrives == l1 :> {Relayed, Later} @@ l2 :> {Later}
EdgeReplyTo == [m \in EdgeMessages |->
                  IF m = Relayed THEN RelayedReply ELSE NoMsg]
EdgeApp == {Mail}

(***************************************************************************)
(* Small cores for the temporal properties: two messages for a device that *)
(* reconnects, and three requests in a row.                                *)
(***************************************************************************)
PairRemote == l1 :> dev @@ l2 :> dev
PushMessages == {Push1, Push2}
NoArrivals == l1 :> {} @@ l2 :> {}
PushReplyTo == ReplyToRequest(PushMessages)

BusyRequests == {Msg(k, dev, me, 1) : k \in 1 .. 3}
BusyReplies == {Msg(k, me, dev, 1) : k \in 1 .. 3}
BusyMessages == BusyRequests \cup BusyReplies
BusyRemote == l1 :> dev
BusyArrives == l1 :> BusyRequests
BusyReplyTo == [m \in BusyMessages |->
                  IF m \in BusyRequests THEN Msg(m.id, me, dev, 1) ELSE NoMsg]
=============================================================================
