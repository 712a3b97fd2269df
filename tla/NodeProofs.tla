----------------------------- MODULE NodeProofs -----------------------------
(***************************************************************************)
(* Proofs about Node, for any number of connections, tasks and messages:   *)
(* a node uses its router only through the router's operations, so every   *)
(* theorem of RouterProofs holds in a node; the routing tables agree with  *)
(* the connections; and a node that registers first keeps its own mail.    *)
(***************************************************************************)
EXTENDS Node, RouterProofs

(***************************************************************************)
(* Every step of a node is a step of its router, or leaves it alone        *)
(***************************************************************************)
LEMMA NodeStepRefines ==
  ASSUME NodeAssumption, NodeTypeOK, [NodeNext]_vars PROVE [RouterNext]_rvars
<1> USE DEF Chans
<1>1. ASSUME NEW c \in Inboxes, RegisterLocal(c) PROVE RouterNext
  BY <1>1 DEF RegisterLocal, RouterNext, NodeAssumption
<1>2. ASSUME NEW c \in Inboxes, Dispatch(c) PROVE RouterNext
  BY <1>2 DEF Dispatch, RouterNext
<1>3. ASSUME NEW c \in Links, InstallHop(c) PROVE RouterNext
  <2>1. Remote[c] \in Ids
    BY DEF NodeAssumption
  <2> QED
    BY <1>3, <2>1 DEF InstallHop, RouterNext
<1>4. ASSUME NEW c \in Links, InstallRelay(c) PROVE RouterNext
  <2>1. Remote[c] \in Ids
    BY DEF NodeAssumption
  <2> QED
    BY <1>4, <2>1 DEF InstallRelay, RouterNext
<1>5. ASSUME NEW c \in Links, WriterRecv(c) \/ WriterFails(c) PROVE RouterNext
  BY <1>5 DEF WriterRecv, WriterFails, RouterNext
<1>6. ASSUME NEW c \in Links, Teardown(c) PROVE RouterNext
  <2>1. Remote[c] \in Ids
    BY DEF NodeAssumption
  <2>2. \E is_relay \in BOOLEAN : RemoveRoute(Remote[c], c, is_relay)
    <3>1. CASE c \in Dialed
      <4>1. RemoveRoute(Remote[c], c, TRUE)
        BY <1>6, <3>1 DEF Teardown, RemoveRoute
      <4> QED
        BY <4>1
    <3>2. CASE c \notin Dialed
      <4>1. RemoveRoute(Remote[c], c, FALSE)
        BY <1>6, <3>2 DEF Teardown, RemoveRoute
      <4> QED
        BY <4>1
    <3> QED
      BY <3>1, <3>2
  <2> QED
    BY <2>1, <2>2 DEF RouterNext
<1>7. ASSUME NEW t \in Tasks, TaskSend(t) PROVE RouterNext
  <2>1. hand[t] \in Messages
    BY <1>7 DEF TaskSend, NodeTypeOK
  <2> QED
    BY <1>7, <2>1 DEF TaskSend, RouterNext
<1>8. CASE SendContinues
  BY <1>8 DEF SendContinues, RouterNext
<1>9. ASSUME NEW c \in Links,
             \/ Accept(c) \/ Dial(c) \/ DialEnds(c)
             \/ PeerCloses(c) \/ PeerStalls(c)
             \/ \E m \in Messages : ReadFrame(c, m)
             \/ ReaderEof(c) \/ WriterWrites(c)
      PROVE  UNCHANGED rvars
  BY <1>9 DEF Accept, Dial, DialEnds, PeerCloses, PeerStalls, ReadFrame,
              ReaderEof, WriterWrites
<1>10. ASSUME NEW m \in AppMessages, AwaitRoute(m) PROVE UNCHANGED rvars
  BY <1>10 DEF AwaitRoute
<1>11. CASE UNCHANGED vars
  BY <1>11 DEF vars
<1>12. CASE EdgeExits
  BY <1>12 DEF EdgeExits
<1> QED
  BY <1>1, <1>2, <1>3, <1>4, <1>5, <1>6, <1>7, <1>8, <1>9, <1>10, <1>11, <1>12
     DEF NodeNext, NodeStep

(***************************************************************************)
(* The invariant of a node, one lemma per kind of step                     *)
(***************************************************************************)
LEMMA NodeInitInv ==
  ASSUME NodeAssumption, NodeInit PROVE NodeInv
<1> USE DEF NodeInit, RouterInit
<1>1. NodeTypeOK
  BY DEF NodeTypeOK, Phases, Socks, Readers, Writers, Fates, Tasks
<1>2. ConnectionsOK /\ HandsOK
  BY DEF ConnectionsOK, HandsOK, Chans, Tasks
<1>3. LiveReplacementKept /\ RoutesHaveConnections /\ SenderAttribution
  BY DEF LiveReplacementKept, RoutesHaveConnections, SenderAttribution
<1> QED
  BY <1>1, <1>2, <1>3 DEF NodeInv

\* The step neither begins nor ends a route.
SameRoutes ==
  \A d \in Links :
    /\ phase[d] \in {"routed", "pumping"} \/ phase'[d] \in {"routed", "pumping"}
         => phase'[d] = phase[d]
    /\ writer[d] = "ended" => writer'[d] = "ended"

LEMMA SameRoutesInv ==
  ASSUME RouterAssumption, NodeAssumption, TypeOK, NodeInv,
         NodeTypeOK', ConnectionsOK', SameRoutes,
         UNCHANGED <<next_hops, relays, place, hand, latest>>
  PROVE  NodeInv'
<1>1. HandsOK' /\ SenderAttribution'
  BY DEF NodeInv, HandsOK, SenderAttribution
<1>2. LiveReplacementKept'
  BY DEF NodeInv, LiveReplacementKept, SameRoutes
<1>3. RoutesHaveConnections'
  <2>1. \A i \in Ids : next_hops[i] # NoChan => next_hops[i] \in Links
    BY DEF TypeOK
  <2>2. Dialed \subseteq Links
    BY DEF NodeAssumption
  <2> QED
    BY <2>1, <2>2 DEF NodeInv, RoutesHaveConnections, SameRoutes
<1> QED
  BY <1>1, <1>2, <1>3 DEF NodeInv

\* Steps that leave the router alone.
LEMMA QuietInv ==
  ASSUME RouterAssumption, NodeAssumption, TypeOK, NodeInv, UNCHANGED rvars,
         NEW c \in Links,
         \/ Accept(c) \/ Dial(c) \/ DialEnds(c)
         \/ PeerCloses(c) \/ PeerStalls(c)
         \/ \E m \in Messages : ReadFrame(c, m)
         \/ ReaderEof(c) \/ WriterWrites(c)
  PROVE  NodeInv'
<1>0. /\ NodeTypeOK /\ ConnectionsOK /\ HandsOK /\ LiveReplacementKept
      /\ RoutesHaveConnections /\ SenderAttribution
      /\ UNCHANGED <<peers, next_hops, relays, rx, place>>
  BY DEF NodeInv, rvars, tables, channels, history
<1>1. CASE Accept(c)
  <2>1. /\ c \notin Dialed /\ phase[c] = "none"
        /\ phase' = [phase EXCEPT ![c] = IF Remote[c] \in Allowed
                                         THEN "authed" ELSE "done"]
        /\ sock' = [sock EXCEPT ![c] = IF Remote[c] \in Allowed THEN "up" ELSE "down"]
        /\ UNCHANGED <<reader, writer, wmsg, hand, fate, latest>>
    BY <1>1 DEF Accept
  <2>2. NodeTypeOK'
    BY <1>0, <2>1 DEF NodeTypeOK, Phases, Socks, Readers, Writers
  <2>3. ConnectionsOK'
    BY <1>0, <2>1 DEF ConnectionsOK, NodeTypeOK
  <2>4. SameRoutes
    BY <1>0, <2>1 DEF SameRoutes, NodeTypeOK
  <2> QED
    BY <1>0, <2>1, <2>2, <2>3, <2>4, SameRoutesInv
<1>2. CASE Dial(c)
  <2>1. /\ phase[c] = "none" /\ c \in Dialed /\ phase' = [phase EXCEPT ![c] = "dialing"]
        /\ UNCHANGED <<sock, reader, writer, wmsg, hand, fate, latest>>
    BY <1>2 DEF Dial
  <2>2. NodeTypeOK'
    BY <1>0, <2>1 DEF NodeTypeOK, Phases, Socks, Readers, Writers
  <2>3. ConnectionsOK'
    BY <1>0, <2>1 DEF ConnectionsOK, NodeTypeOK
  <2>4. SameRoutes
    BY <1>0, <2>1 DEF SameRoutes, NodeTypeOK
  <2> QED
    BY <1>0, <2>1, <2>2, <2>3, <2>4, SameRoutesInv
<1>3. CASE DialEnds(c)
  <2>1. /\ phase[c] = "dialing" /\ c \in Dialed
        /\ \/ phase' = [phase EXCEPT ![c] = "authed"]
           \/ phase' = [phase EXCEPT ![c] = "done"]
        /\ sock' \in {sock, [sock EXCEPT ![c] = "up"]}
        /\ UNCHANGED <<reader, writer, wmsg, hand, fate, latest>>
    BY <1>0, <1>3 DEF DialEnds, ConnectionsOK
  <2>2. NodeTypeOK'
    BY <1>0, <2>1 DEF NodeTypeOK, Phases, Socks, Readers, Writers
  <2>3. ConnectionsOK'
    BY <1>0, <2>1 DEF ConnectionsOK, NodeTypeOK
  <2>4. SameRoutes
    BY <1>0, <2>1 DEF SameRoutes, NodeTypeOK
  <2> QED
    BY <1>0, <2>1, <2>2, <2>3, <2>4, SameRoutesInv
<1>4. CASE PeerCloses(c) \/ PeerStalls(c)
  <2>1. /\ sock' \in {[sock EXCEPT ![c] = "down"], [sock EXCEPT ![c] = "stalled"]}
        /\ UNCHANGED <<phase, reader, writer, wmsg, hand, fate, latest>>
    BY <1>4 DEF PeerCloses, PeerStalls
  <2>2. NodeTypeOK'
    BY <1>0, <2>1 DEF NodeTypeOK, Phases, Socks, Readers, Writers
  <2>3. ConnectionsOK'
    BY <1>0, <2>1 DEF ConnectionsOK, NodeTypeOK
  <2>4. SameRoutes
    BY <1>0, <2>1 DEF SameRoutes, NodeTypeOK
  <2> QED
    BY <1>0, <2>1, <2>2, <2>3, <2>4, SameRoutesInv
<1>5. ASSUME NEW m \in Messages, ReadFrame(c, m) PROVE NodeInv'
  <2>1. /\ reader[c] = "on" /\ m \in Arrives[c]
        /\ fate' \in {[fate EXCEPT ![m] = "read"], [fate EXCEPT ![m] = "spoofed"]}
        /\ \/ Attributed(c, m) /\ hand' = [hand EXCEPT ![c] = m]
           \/ hand' = hand
        /\ UNCHANGED <<phase, sock, reader, writer, wmsg, latest>>
    BY <1>5 DEF ReadFrame
  <2>2. NodeTypeOK'
    BY <1>0, <2>1 DEF NodeTypeOK, Fates, Tasks
  <2>3. ConnectionsOK'
    BY <1>0, <2>1 DEF ConnectionsOK
  <2>4. HandsOK'
    <3>1. phase[c] = "pumping" /\ (c \notin Dialed => Remote[c] \in Allowed)
      BY <1>0, <2>1 DEF ConnectionsOK
    <3>2. c \notin {Dispatcher, App}
      BY DEF NodeAssumption
    <3> QED
      BY <1>0, <2>1, <3>1, <3>2 DEF HandsOK, Attributed, NodeTypeOK, Tasks
  <2>5. LiveReplacementKept' /\ RoutesHaveConnections' /\ SenderAttribution'
    BY <1>0, <2>1 DEF LiveReplacementKept, RoutesHaveConnections, SenderAttribution
  <2> QED
    BY <2>2, <2>3, <2>4, <2>5 DEF NodeInv
<1>6. CASE ReaderEof(c)
  <2>1. /\ reader' = [reader EXCEPT ![c] = "ended"]
        /\ UNCHANGED <<phase, sock, writer, wmsg, hand, fate, latest>>
    BY <1>6 DEF ReaderEof
  <2>2. NodeTypeOK'
    BY <1>0, <2>1 DEF NodeTypeOK, Phases, Socks, Readers, Writers
  <2>3. ConnectionsOK'
    BY <1>0, <2>1 DEF ConnectionsOK, NodeTypeOK
  <2>4. SameRoutes
    BY <1>0, <2>1 DEF SameRoutes, NodeTypeOK
  <2> QED
    BY <1>0, <2>1, <2>2, <2>3, <2>4, SameRoutesInv
<1>7. CASE WriterWrites(c)
  <2>0. wmsg[c] \in Messages
    BY <1>0, <1>7 DEF WriterWrites, ConnectionsOK
  <2>1. /\ writer[c] = "writing" /\ writer' = [writer EXCEPT ![c] = "idle"]
        /\ wmsg' = [wmsg EXCEPT ![c] = NoMsg]
        /\ fate' \in [Messages -> Fates]
        /\ UNCHANGED <<phase, sock, reader, hand, latest>>
    <3>1. fate' \in [Messages -> Fates]
      BY <1>0, <1>7, <2>0 DEF WriterWrites, NodeTypeOK, Fates
    <3> QED
      BY <1>7, <3>1 DEF WriterWrites
  <2>2. NodeTypeOK'
    BY <1>0, <2>1 DEF NodeTypeOK, Phases, Socks, Readers, Writers
  <2>3. ConnectionsOK'
    BY <1>0, <2>1 DEF ConnectionsOK, NodeTypeOK
  <2>4. SameRoutes
    BY <1>0, <2>1 DEF SameRoutes, NodeTypeOK
  <2> QED
    BY <1>0, <2>1, <2>2, <2>3, <2>4, SameRoutesInv
<1> QED
  BY <1>1, <1>2, <1>3, <1>4, <1>5, <1>6, <1>7

\* pump_connection installs its channel as the next hop of its remote.
LEMMA InstallHopInv ==
  ASSUME RouterAssumption, NodeAssumption, TypeOK, NodeInv,
         NEW c \in Links, InstallHop(c)
  PROVE  NodeInv'
<1>0. /\ NodeTypeOK /\ ConnectionsOK /\ HandsOK /\ LiveReplacementKept
      /\ RoutesHaveConnections /\ SenderAttribution
      /\ Remote \in [Links -> Ids] /\ Dialed \subseteq Links
  BY DEF NodeInv, NodeAssumption
<1>1. /\ phase[c] = "authed" /\ rx[c] = "unused" /\ rx' = [rx EXCEPT ![c] = "open"]
      /\ next_hops' = [next_hops EXCEPT ![Remote[c]] = c]
      /\ latest' = [latest EXCEPT ![Remote[c]] = c]
      /\ \/ /\ c \notin Dialed /\ phase' = [phase EXCEPT ![c] = "pumping"]
            /\ reader' = [reader EXCEPT ![c] = "on"]
            /\ writer' = [writer EXCEPT ![c] = "idle"]
         \/ /\ c \in Dialed /\ phase' = [phase EXCEPT ![c] = "routed"]
            /\ UNCHANGED <<reader, writer>>
      /\ UNCHANGED <<relays, place, sock, wmsg, hand, fate>>
  BY DEF InstallHop, SetNextHop, StartPump, history
<1>2. NodeTypeOK'
  BY <1>0, <1>1 DEF NodeTypeOK, Phases, Readers, Writers
<1>3. ConnectionsOK'
  BY <1>0, <1>1 DEF ConnectionsOK, NodeTypeOK, TypeOK, Chans
<1>4. HandsOK' /\ SenderAttribution'
  BY <1>0, <1>1 DEF HandsOK, SenderAttribution
<1>5. \A d \in Links \ {c} : phase'[d] = phase[d] /\ writer'[d] = writer[d]
  BY <1>0, <1>1 DEF NodeTypeOK
<1>6. phase'[c] \in {"routed", "pumping"} /\ next_hops'[Remote[c]] = c
  BY <1>0, <1>1 DEF NodeTypeOK, TypeOK
<1>7. LiveReplacementKept'
  <2> SUFFICES ASSUME NEW d \in Links, latest'[Remote[d]] = d,
                      phase'[d] \in {"routed", "pumping"}, writer'[d] # "ended"
               PROVE  next_hops'[Remote[d]] = d
    BY DEF LiveReplacementKept
  <2>1. CASE d = c
    BY <1>6, <2>1
  <2>2. CASE d # c
    <3>1. Remote[d] # Remote[c] /\ latest[Remote[d]] = d
      BY <1>0, <1>1, <2>2 DEF NodeTypeOK
    <3>2. next_hops[Remote[d]] = d
      BY <1>0, <1>5, <2>2, <3>1 DEF LiveReplacementKept
    <3> QED
      BY <1>0, <1>1, <3>1, <3>2 DEF TypeOK
  <2> QED
    BY <2>1, <2>2
<1>8. RoutesHaveConnections'
  <2>1. ASSUME NEW i \in Ids, next_hops'[i] # NoChan
        PROVE  /\ Remote[next_hops'[i]] = i
               /\ phase'[next_hops'[i]] \in {"routed", "pumping"}
    <3>1. CASE i = Remote[c]
      BY <1>6, <3>1
    <3>2. CASE i # Remote[c]
      <4>1. next_hops'[i] = next_hops[i] /\ next_hops[i] \in Links
        BY <1>0, <1>1, <2>1, <3>2 DEF TypeOK
      <4>2. Remote[next_hops[i]] = i /\ phase[next_hops[i]] \in {"routed", "pumping"}
        BY <1>0, <2>1, <4>1 DEF RoutesHaveConnections
      <4>3. next_hops[i] # c
        BY <1>1, <4>2
      <4> QED
        BY <1>5, <4>1, <4>2, <4>3
    <3> QED
      BY <3>1, <3>2
  <2>2. ASSUME NEW q \in relays'
        PROVE  \E d \in Dialed : Remote[d] = q /\ phase'[d] = "pumping"
    <3>1. PICK d \in Dialed : Remote[d] = q /\ phase[d] = "pumping"
      BY <1>0, <1>1 DEF RoutesHaveConnections
    <3>2. d # c /\ d \in Links
      BY <1>0, <1>1, <3>1
    <3> QED
      BY <1>5, <3>1, <3>2
  <2> QED
    BY <2>1, <2>2 DEF RoutesHaveConnections
<1> QED
  BY <1>2, <1>3, <1>4, <1>7, <1>8 DEF NodeInv

\* ... and, if it dialed, as a relay.
LEMMA InstallRelayInv ==
  ASSUME RouterAssumption, NodeAssumption, TypeOK, NodeInv,
         NEW c \in Links, InstallRelay(c)
  PROVE  NodeInv'
<1>0. /\ NodeTypeOK /\ ConnectionsOK /\ HandsOK /\ LiveReplacementKept
      /\ RoutesHaveConnections /\ SenderAttribution /\ Dialed \subseteq Links
  BY DEF NodeInv, NodeAssumption
<1>1. /\ phase[c] = "routed" /\ phase' = [phase EXCEPT ![c] = "pumping"]
      /\ reader' = [reader EXCEPT ![c] = "on"]
      /\ writer' = [writer EXCEPT ![c] = "idle"]
      /\ relays' = relays \cup {Remote[c]}
      /\ UNCHANGED <<next_hops, rx, place, sock, wmsg, hand, fate, latest>>
  BY DEF InstallRelay, SetRelay, StartPump, channels, history
<1>2. NodeTypeOK'
  BY <1>0, <1>1 DEF NodeTypeOK, Phases, Readers, Writers
<1>3. ConnectionsOK'
  BY <1>0, <1>1 DEF ConnectionsOK, NodeTypeOK
<1>4. HandsOK' /\ SenderAttribution'
  BY <1>0, <1>1 DEF HandsOK, SenderAttribution
<1>5. c \in Dialed /\ writer[c] = "off"
  BY <1>0, <1>1 DEF ConnectionsOK
<1>6. LiveReplacementKept'
  BY <1>0, <1>1, <1>5 DEF LiveReplacementKept, NodeTypeOK
<1>7. RoutesHaveConnections'
  <2>1. \A i \in Ids : next_hops[i] # NoChan => next_hops[i] \in Links
    BY DEF TypeOK
  <2>2. \A d \in Links \ {c} : phase'[d] = phase[d]
    BY <1>0, <1>1 DEF NodeTypeOK
  <2>3. phase'[c] = "pumping"
    BY <1>0, <1>1 DEF NodeTypeOK
  <2> QED
    BY <1>0, <1>1, <1>5, <2>1, <2>2, <2>3 DEF RoutesHaveConnections
<1> QED
  BY <1>2, <1>3, <1>4, <1>6, <1>7 DEF NodeInv

\* The teardown forgets this connection's route, and no other.
LEMMA TeardownInv ==
  ASSUME RouterAssumption, NodeAssumption, TypeOK, NodeInv,
         NEW c \in Links, Teardown(c)
  PROVE  NodeInv'
<1>0. /\ NodeTypeOK /\ ConnectionsOK /\ HandsOK /\ LiveReplacementKept
      /\ RoutesHaveConnections /\ SenderAttribution
      /\ Remote \in [Links -> Ids] /\ Dialed \subseteq Links
  BY DEF NodeInv, NodeAssumption
<1>1. /\ reader[c] = "ended" /\ writer[c] = "ended"
      /\ phase' = [phase EXCEPT ![c] = "done"]
      /\ next_hops' = [next_hops EXCEPT ![Remote[c]] = IF @ = c THEN NoChan ELSE @]
      /\ relays' = IF c \in Dialed THEN relays \ {Remote[c]} ELSE relays
      /\ UNCHANGED <<rx, place, sock, reader, writer, wmsg, hand, fate, latest>>
  BY DEF Teardown, RemoveRoute, NextHopsWithoutIfCurrent, RelaysWithout,
         channels, history
<1>2. NodeTypeOK'
  BY <1>0, <1>1 DEF NodeTypeOK, Phases
<1>3. ConnectionsOK'
  BY <1>0, <1>1 DEF ConnectionsOK, NodeTypeOK
<1>4. HandsOK' /\ SenderAttribution'
  BY <1>0, <1>1 DEF HandsOK, SenderAttribution
<1>5. \A d \in Links \ {c} : phase'[d] = phase[d]
  BY <1>0, <1>1 DEF NodeTypeOK
<1>6. \A i \in Ids : \/ next_hops'[i] = next_hops[i]
                     \/ next_hops[i] = c /\ next_hops'[i] = NoChan
  <2> SUFFICES ASSUME NEW i \in Ids
               PROVE  \/ next_hops'[i] = next_hops[i]
                      \/ next_hops[i] = c /\ next_hops'[i] = NoChan
    OBVIOUS
  <2>1. next_hops \in [Ids -> Links \cup {NoChan}] /\ Remote[c] \in Ids
    BY <1>0 DEF TypeOK
  <2>2. CASE i = Remote[c]
    BY <1>1, <2>1, <2>2
  <2>3. CASE i # Remote[c]
    BY <1>1, <2>1, <2>3
  <2> QED
    BY <2>2, <2>3
<1>7. LiveReplacementKept'
  <2> SUFFICES ASSUME NEW d \in Links, latest[Remote[d]] = d,
                      phase'[d] \in {"routed", "pumping"}, writer[d] # "ended"
               PROVE  next_hops'[Remote[d]] = d
    BY <1>1 DEF LiveReplacementKept
  <2>1. d # c /\ next_hops[Remote[d]] = d
    BY <1>0, <1>1, <1>5 DEF LiveReplacementKept
  <2> QED
    BY <1>0, <1>6, <2>1
<1>8. RoutesHaveConnections'
  <2>1. ASSUME NEW i \in Ids, next_hops'[i] # NoChan
        PROVE  /\ Remote[next_hops'[i]] = i
               /\ phase'[next_hops'[i]] \in {"routed", "pumping"}
    <3>1. next_hops'[i] = next_hops[i] /\ next_hops[i] \in Links
      BY <1>6, <2>1 DEF TypeOK
    <3>2. Remote[next_hops[i]] = i /\ phase[next_hops[i]] \in {"routed", "pumping"}
      BY <1>0, <2>1, <3>1 DEF RoutesHaveConnections
    <3>3. next_hops[i] # c
      <4>1. SUFFICES ASSUME next_hops[i] = c PROVE FALSE
        OBVIOUS
      <4>2. i = Remote[c]
        BY <3>2, <4>1
      <4>3. next_hops'[i] = NoChan
        BY <1>0, <1>1, <4>1, <4>2 DEF TypeOK
      <4> QED
        BY <2>1, <4>3
    <3> QED
      BY <1>5, <3>1, <3>2, <3>3
  <2>2. ASSUME NEW q \in relays'
        PROVE  \E d \in Dialed : Remote[d] = q /\ phase'[d] = "pumping"
    <3>1. PICK d \in Dialed : Remote[d] = q /\ phase[d] = "pumping"
      BY <1>0, <1>1 DEF RoutesHaveConnections
    <3>2. d # c /\ d \in Links
      BY <1>0, <1>1, <3>1
    <3> QED
      BY <1>5, <3>1, <3>2
  <2> QED
    BY <2>1, <2>2 DEF RoutesHaveConnections
<1> QED
  BY <1>2, <1>3, <1>4, <1>7, <1>8 DEF NodeInv

\* register, the receivers and the application's wait touch no route.
LEMMA ReceiversInv ==
  ASSUME RouterAssumption, NodeAssumption, TypeOK, AccountedFor, NodeInv,
         \/ \E c \in Inboxes : RegisterLocal(c) \/ Dispatch(c)
         \/ \E c \in Links : WriterRecv(c) \/ WriterFails(c)
         \/ \E m \in AppMessages : AwaitRoute(m)
  PROVE  NodeInv'
<1>0. /\ NodeTypeOK /\ ConnectionsOK /\ HandsOK /\ LiveReplacementKept
      /\ RoutesHaveConnections /\ SenderAttribution
      /\ Inboxes \cap Links = {} /\ Chans = Inboxes \cup Links
  BY DEF NodeInv, RouterAssumption, Chans
<1> USE DEF tables, channels, walk, history, rvars, nvars
<1>1. ASSUME NEW c \in Inboxes, RegisterLocal(c) PROVE NodeInv'
  <2>1. /\ rx' = [rx EXCEPT ![c] = "open"]
        /\ UNCHANGED <<next_hops, relays, nvars>>
    BY <1>1 DEF RegisterLocal, Register
  <2>2. \A m \in Messages : place'[m] # "new" => place[m] # "new"
    <3>1. \A m \in Elems(offline[Me]) : place[m] = "queue"
      BY DEF AccountedFor, NodeAssumption
    <3> QED
      BY <1>1, <3>1 DEF RegisterLocal, Register
  <2>3. NodeTypeOK' /\ HandsOK'
    BY <1>0, <2>1 DEF NodeTypeOK, HandsOK
  <2>4. ConnectionsOK'
    BY <1>0, <2>1 DEF ConnectionsOK, TypeOK
  <2>5. LiveReplacementKept' /\ RoutesHaveConnections'
    BY <1>0, <2>1 DEF LiveReplacementKept, RoutesHaveConnections
  <2>6. SenderAttribution'
    BY <1>0, <2>2 DEF SenderAttribution
  <2> QED
    BY <2>3, <2>4, <2>5, <2>6 DEF NodeInv
<1>2. ASSUME NEW c \in Inboxes, Dispatch(c) PROVE NodeInv'
  <2>1. /\ rx[c] = "open" /\ buf[c] # <<>>
        /\ place' = [place EXCEPT ![Head(buf[c])] = "taken"]
        /\ fate' = [fate EXCEPT ![Head(buf[c])] = "handled"]
        /\ hand' = [hand EXCEPT ![Dispatcher] = ReplyTo[Head(buf[c])]]
        /\ UNCHANGED <<next_hops, relays, rx, phase, sock, reader, writer, wmsg, latest>>
    BY <1>2 DEF Dispatch, Recv
  <2>2. Head(buf[c]) \in Messages /\ Head(buf[c]) \in Elems(buf[c])
    <3>1. buf[c] \in Seq(Messages) /\ 1 \in DOMAIN buf[c] /\ Head(buf[c]) = buf[c][1]
      BY <1>0, <2>1 DEF TypeOK
    <3> QED
      BY <3>1 DEF Elems
  <2>3. place[Head(buf[c])] # "new"
    BY <1>0, <2>2 DEF AccountedFor
  <2>4. /\ ReplyTo[Head(buf[c])] \in Messages \cup {NoMsg}
        /\ ReplyTo[Head(buf[c])] # NoMsg => ReplyTo[Head(buf[c])].sender = Me
    BY <2>2 DEF NodeAssumption
  <2>5. NodeTypeOK'
    BY <1>0, <2>1, <2>2, <2>4 DEF NodeTypeOK, Fates, Tasks
  <2>6. ConnectionsOK' /\ LiveReplacementKept' /\ RoutesHaveConnections'
    BY <1>0, <2>1 DEF ConnectionsOK, LiveReplacementKept, RoutesHaveConnections
  <2>7. HandsOK'
    BY <1>0, <2>1, <2>4 DEF HandsOK, NodeTypeOK, Tasks, NodeAssumption
  <2>8. SenderAttribution'
    BY <1>0, <2>1, <2>2, <2>3 DEF SenderAttribution, TypeOK
  <2> QED
    BY <2>5, <2>6, <2>7, <2>8 DEF NodeInv
<1>3. ASSUME NEW c \in Links, WriterRecv(c) PROVE NodeInv'
  <2>1. /\ writer[c] = "idle" /\ buf[c] # <<>>
        /\ place' = [place EXCEPT ![Head(buf[c])] = "taken"]
        /\ writer' = [writer EXCEPT ![c] = "writing"]
        /\ wmsg' = [wmsg EXCEPT ![c] = Head(buf[c])]
        /\ UNCHANGED <<next_hops, relays, rx, phase, sock, reader, hand, fate, latest>>
    BY <1>3 DEF WriterRecv, Recv
  <2>2. Head(buf[c]) \in Messages /\ Head(buf[c]) \in Elems(buf[c])
    <3>1. buf[c] \in Seq(Messages) /\ 1 \in DOMAIN buf[c] /\ Head(buf[c]) = buf[c][1]
      BY <1>0, <2>1 DEF TypeOK
    <3> QED
      BY <3>1 DEF Elems
  <2>3. place[Head(buf[c])] # "new"
    BY <1>0, <2>2 DEF AccountedFor
  <2>4. NodeTypeOK'
    BY <1>0, <2>1, <2>2 DEF NodeTypeOK, Writers
  <2>5. ConnectionsOK'
    BY <1>0, <2>1, <2>2 DEF ConnectionsOK, NodeTypeOK
  <2>6. HandsOK' /\ LiveReplacementKept' /\ RoutesHaveConnections'
    BY <1>0, <2>1 DEF HandsOK, LiveReplacementKept, RoutesHaveConnections, NodeTypeOK
  <2>7. SenderAttribution'
    BY <1>0, <2>1, <2>2, <2>3 DEF SenderAttribution, TypeOK
  <2> QED
    BY <2>4, <2>5, <2>6, <2>7 DEF NodeInv
<1>4. ASSUME NEW c \in Links, WriterFails(c) PROVE NodeInv'
  <2>1. /\ writer[c] = "writing" /\ rx' = [rx EXCEPT ![c] = "closed"]
        /\ place' = [m \in Messages |-> IF m \in Elems(buf[c]) THEN "lost" ELSE place[m]]
        /\ fate' = [fate EXCEPT ![wmsg[c]] = "vanished"]
        /\ writer' = [writer EXCEPT ![c] = "ended"]
        /\ wmsg' = [wmsg EXCEPT ![c] = NoMsg]
        /\ UNCHANGED <<next_hops, relays, phase, sock, reader, hand, latest>>
    BY <1>4 DEF WriterFails, DropRx
  <2>2. \A m \in Messages : place'[m] # "new" => place[m] # "new"
    <3>1. \A m \in Elems(buf[c]) : place[m] = "chan"
      BY <1>0 DEF AccountedFor
    <3> QED
      BY <2>1, <3>1
  <2>3. NodeTypeOK'
    BY <1>0, <2>1 DEF NodeTypeOK, Writers, Fates
  <2>4. ConnectionsOK'
    BY <1>0, <2>1 DEF ConnectionsOK, NodeTypeOK, TypeOK
  <2>5. HandsOK' /\ LiveReplacementKept' /\ RoutesHaveConnections'
    BY <1>0, <2>1 DEF HandsOK, LiveReplacementKept, RoutesHaveConnections, NodeTypeOK
  <2>6. SenderAttribution'
    BY <1>0, <2>2 DEF SenderAttribution
  <2> QED
    BY <2>3, <2>4, <2>5, <2>6 DEF NodeInv
<1>5. ASSUME NEW m \in AppMessages, AwaitRoute(m) PROVE NodeInv'
  <2>1. /\ hand' = [hand EXCEPT ![App] = m] /\ fate' = [fate EXCEPT ![m] = "read"]
        /\ UNCHANGED <<next_hops, relays, rx, place, phase, sock, reader, writer,
                       wmsg, latest>>
    BY <1>5 DEF AwaitRoute
  <2>2. m \in Messages /\ m.sender = Me /\ App \notin Links /\ Dispatcher # App
    BY DEF NodeAssumption
  <2>3. NodeTypeOK'
    BY <1>0, <2>1, <2>2 DEF NodeTypeOK, Fates, Tasks
  <2>4. HandsOK'
    BY <1>0, <2>1, <2>2 DEF HandsOK, NodeTypeOK, Tasks
  <2>5. ConnectionsOK' /\ LiveReplacementKept' /\ RoutesHaveConnections'
    BY <1>0, <2>1 DEF ConnectionsOK, LiveReplacementKept, RoutesHaveConnections
  <2>6. SenderAttribution'
    BY <1>0, <2>1 DEF SenderAttribution
  <2> QED
    BY <2>3, <2>4, <2>5, <2>6 DEF NodeInv
<1> QED
  BY <1>1, <1>2, <1>3, <1>4, <1>5

\* A task enters Router::send with the message it has in hand.
LEMMA TaskSendInv ==
  ASSUME RouterAssumption, NodeAssumption, TypeOK, NodeInv,
         NEW t \in Tasks, TaskSend(t)
  PROVE  NodeInv'
<1>0. /\ NodeTypeOK /\ ConnectionsOK /\ HandsOK /\ LiveReplacementKept
      /\ RoutesHaveConnections /\ SenderAttribution
  BY DEF NodeInv
<1>1. /\ hand[t] # NoMsg
      /\ hand' = [hand EXCEPT ![t] = IF stage' = "idle" THEN NoMsg ELSE @]
      /\ \/ place' = [place EXCEPT ![hand[t]] = "sending"]
         \/ place' = [place EXCEPT ![hand[t]] = "rejected"]
      /\ UNCHANGED <<next_hops, relays, rx, phase, sock, reader, writer, wmsg,
                     fate, latest>>
  BY DEF TaskSend, SendStart, tables, channels
<1>2. \A u \in Tasks : hand'[u] \in {hand[u], NoMsg}
  BY <1>0, <1>1 DEF NodeTypeOK
<1>3. NodeTypeOK'
  BY <1>0, <1>1 DEF NodeTypeOK
<1>4. HandsOK'
  BY <1>0, <1>2 DEF HandsOK, Tasks
<1>5. ConnectionsOK' /\ LiveReplacementKept' /\ RoutesHaveConnections'
  BY <1>0, <1>1 DEF ConnectionsOK, LiveReplacementKept, RoutesHaveConnections
<1>6. SenderAttribution'
  <2> SUFFICES ASSUME NEW m \in Messages, place'[m] # "new", m.sender # Me
               PROVE  \E c \in Links :
                        /\ m \in Arrives[c]
                        /\ c \in Dialed \/ (Remote[c] = m.sender /\ m.sender \in Allowed)
    BY DEF SenderAttribution
  <2>1. CASE m = hand[t]
    BY <1>0, <1>1, <2>1 DEF HandsOK, Tasks
  <2>2. CASE m # hand[t]
    <3>1. place'[m] = place[m]
      BY <1>1, <2>2 DEF TypeOK
    <3> QED
      BY <1>0, <3>1 DEF SenderAttribution
  <2> QED
    BY <2>1, <2>2
<1> QED
  BY <1>3, <1>4, <1>5, <1>6 DEF NodeInv

KeptUnlessDead(i) ==
  \/ next_hops'[i] = next_hops[i]
  \/ next_hops'[i] = NoChan /\ rx[next_hops[i]] = "closed"

\* The walk of send forgets only routes whose channel is dropped, and concerns
\* only messages that were already handed over.
LEMMA SendStepRoutes ==
  ASSUME RouterAssumption, RouterInv, SendStep
  PROVE  /\ \A i \in Ids : KeptUnlessDead(i)
         /\ UNCHANGED <<relays, rx>>
         /\ \A m \in Messages : place'[m] # "new" => place[m] # "new"
<1> USE DEF tables, channels, history, KeptUnlessDead
<1>0. /\ TypeOK /\ AccountedFor /\ sending \in Messages /\ sending.recipient \in Ids
      /\ place[sending] = "sending" /\ stage # "idle"
  <2>1. stage # "idle"
    BY DEF SendStep, TryPeer, TryNextHop, TryRelay, PushOffline
  <2> QED
    BY <2>1, UnderWay DEF RouterInv
<1>1. ASSUME NEW c, Enqueue(c)
      PROVE  /\ UNCHANGED <<next_hops, relays, rx>>
             /\ \A m \in Messages : place'[m] # "new" => place[m] # "new"
  BY <1>0, <1>1 DEF Enqueue, TypeOK
<1>2. CASE TryPeer
  BY <1>1, <1>2 DEF TryPeer
<1>3. CASE TryNextHop
  BY <1>0, <1>1, <1>3 DEF TryNextHop, NoRoute, TypeOK
<1>4. CASE \E q \in Ids : TryRelay(q)
  BY <1>0, <1>1, <1>4 DEF TryRelay, NoRoute, TypeOK
<1>5. CASE PushOffline
  <2> DEFINE q == offline[sending.recipient]
  <2>1. /\ q \in Seq(Messages) /\ Len(q) <= Capacity /\ Increasing(stamp, q)
        /\ stamp \in [Messages -> Nat]
    BY <1>0 DEF RouterInv, TypeOK, QueueBound, Fifo
  <2>2. \A x \in Elems(q) : x \in Messages /\ place[x] = "queue"
    BY <1>0 DEF AccountedFor
  <2>3. \A x \in Elems(q) : stamp[x] < stamp[sending]
    BY <1>0, <2>2 DEF RouterInv, StampsOK, Unstamped
  <2>4. /\ Elems(Push(q, sending)) \subseteq Elems(q) \cup {sending}
        /\ Elems(Append(q, sending)) = Elems(q) \cup {sending}
    <3> HIDE DEF q
    <3> QED
      BY <1>0, <2>1, <2>3, PushFacts, AppendFacts
  <2>5. offline'[sending.recipient] = Push(q, sending)
    BY <1>0, <1>5 DEF PushOffline, TypeOK
  <2>6. \A m \in Messages : m \notin Elems(q) \cup {sending} => place'[m] = place[m]
    BY <1>5, <2>4, <2>5 DEF PushOffline
  <2> QED
    BY <1>0, <1>5, <2>2, <2>6 DEF PushOffline
<1> QED
  BY <1>2, <1>3, <1>4, <1>5 DEF SendStep

LEMMA SendContinuesInv ==
  ASSUME RouterAssumption, NodeAssumption, RouterInv, NodeInv, SendContinues
  PROVE  NodeInv'
<1>0. /\ NodeTypeOK /\ ConnectionsOK /\ HandsOK /\ LiveReplacementKept
      /\ RoutesHaveConnections /\ SenderAttribution /\ TypeOK
      /\ Remote \in [Links -> Ids]
  BY DEF NodeInv, RouterInv, NodeAssumption
<1>1. /\ \A i \in Ids : KeptUnlessDead(i)
      /\ UNCHANGED <<relays, rx>>
      /\ \A m \in Messages : place'[m] # "new" => place[m] # "new"
  BY SendStepRoutes DEF SendContinues
<1>2. /\ hand' \in [Tasks -> Messages \cup {NoMsg}]
      /\ \A u \in Tasks : hand'[u] \in {hand[u], NoMsg}
      /\ UNCHANGED <<phase, sock, reader, writer, wmsg, fate, latest>>
  BY <1>0 DEF SendContinues, NodeTypeOK
<1>3. NodeTypeOK' /\ ConnectionsOK'
  BY <1>0, <1>1, <1>2 DEF NodeTypeOK, ConnectionsOK
<1>4. HandsOK'
  BY <1>0, <1>2 DEF HandsOK, Tasks
<1>5. LiveReplacementKept'
  BY <1>0, <1>1, <1>2 DEF LiveReplacementKept, ConnectionsOK, KeptUnlessDead
<1>6. RoutesHaveConnections'
  BY <1>0, <1>1, <1>2 DEF RoutesHaveConnections, KeptUnlessDead
<1>7. SenderAttribution'
  BY <1>0, <1>1 DEF SenderAttribution
<1> QED
  BY <1>3, <1>4, <1>5, <1>6, <1>7 DEF NodeInv

\* Every step of a node preserves its invariant.
LEMMA NodeNextInv ==
  ASSUME RouterAssumption, NodeAssumption, RouterInv, NodeInv, [NodeNext]_vars
  PROVE  NodeInv'
<1>0. TypeOK /\ AccountedFor
  BY DEF RouterInv
<1>1. ASSUME NEW c \in Links,
             \/ Accept(c) \/ Dial(c) \/ DialEnds(c)
             \/ PeerCloses(c) \/ PeerStalls(c)
             \/ \E m \in Messages : ReadFrame(c, m)
             \/ ReaderEof(c) \/ WriterWrites(c)
      PROVE  NodeInv'
  <2>1. UNCHANGED rvars
    BY <1>1 DEF Accept, Dial, DialEnds, PeerCloses, PeerStalls, ReadFrame,
                ReaderEof, WriterWrites
  <2> QED
    BY <1>0, <1>1, <2>1, QuietInv
<1>2. ASSUME NEW c \in Links, InstallHop(c) \/ InstallRelay(c) \/ Teardown(c)
      PROVE  NodeInv'
  BY <1>0, <1>2, InstallHopInv, InstallRelayInv, TeardownInv
<1>3. ASSUME \/ \E c \in Inboxes : RegisterLocal(c) \/ Dispatch(c)
             \/ \E c \in Links : WriterRecv(c) \/ WriterFails(c)
             \/ \E m \in AppMessages : AwaitRoute(m)
      PROVE  NodeInv'
  BY <1>0, <1>3, ReceiversInv
<1>4. ASSUME NEW t \in Tasks, TaskSend(t) PROVE NodeInv'
  BY <1>0, <1>4, TaskSendInv
<1>5. CASE SendContinues
  BY <1>5, SendContinuesInv
<1>6. CASE EdgeExits \/ UNCHANGED vars
  <2>0. UNCHANGED <<rvars, nvars>>
    BY <1>6 DEF EdgeExits, vars
  <2> USE <2>0 DEF nvars, rvars, tables, channels, history
  <2>1. (NodeTypeOK /\ ConnectionsOK /\ HandsOK)'
    BY DEF NodeInv, NodeTypeOK, ConnectionsOK, HandsOK
  <2>2. (LiveReplacementKept /\ RoutesHaveConnections /\ SenderAttribution)'
    BY DEF NodeInv, LiveReplacementKept, RoutesHaveConnections, SenderAttribution
  <2> QED
    BY <2>1, <2>2 DEF NodeInv
<1> QED
  BY <1>1, <1>2, <1>3, <1>4, <1>5, <1>6 DEF NodeNext, NodeStep

(***************************************************************************)
(* A node that registers before it listens or dials: its inbox is there    *)
(* when the first message can be, and stays                                *)
(***************************************************************************)
Listening ==
  /\ Registered => peers[Me] \in Inboxes /\ rx[peers[Me]] = "open"
  /\ ~Registered => /\ stage = "idle"
                    /\ \A t \in Tasks : hand[t] = NoMsg
                    /\ \A c \in Links : phase[c] = "none"

OwnKept == \A m \in Messages : m.recipient = Me => via[m] \notin Links

LEMMA OwnStays ==
  ASSUME Listening, OwnKept, peers'[Me] = peers[Me], via' = via,
         \A c \in Inboxes : rx'[c] = rx[c],
         Registered \/ UNCHANGED <<stage, hand, phase>>
  PROVE  Listening' /\ OwnKept'
<1>1. Registered' <=> Registered
  BY DEF Registered
<1>2. Listening'
  BY <1>1 DEF Listening
<1> QED
  BY <1>2 DEF OwnKept

\* Nothing happens before the registration.
LEMMA FirstRegistered ==
  ASSUME RouterAssumption, NodeAssumption, TypeOK, NodeInv, Listening
  PROVE  /\ \A c \in Links : phase[c] # "none" \/ reader[c] = "on" => Registered
         /\ \A t \in Tasks : hand[t] # NoMsg => Registered
         /\ \A d \in Ids : Reachable(d) => Registered
         /\ \A c \in Inboxes : rx[c] = "open" => Registered
<1>1. \A c \in Links : phase[c] # "none" \/ reader[c] = "on" => Registered
  BY DEF Listening, NodeInv, ConnectionsOK
<1>2. \A d \in Ids : Reachable(d) => Registered
  <2>1. ASSUME NEW d \in Ids, next_hops[d] # NoChan PROVE Registered
    <3>1. next_hops[d] \in Links /\ phase[next_hops[d]] \in {"routed", "pumping"}
      BY <2>1 DEF NodeInv, RoutesHaveConnections, TypeOK
    <3> QED
      BY <1>1, <3>1
  <2>2. ASSUME NEW q \in relays PROVE Registered
    <3>1. PICK c \in Links : phase[c] = "pumping"
      BY DEF NodeInv, RoutesHaveConnections, NodeAssumption
    <3> QED
      BY <1>1, <3>1
  <2> QED
    BY <2>1, <2>2 DEF Reachable
<1> QED
  BY <1>1, <1>2 DEF Listening, Registered

LEMMA SendContinuesOwn ==
  ASSUME RouterAssumption, NodeAssumption, RouterInv, Listening, OwnKept,
         SendContinues
  PROVE  Listening' /\ OwnKept'
<1> USE DEF tables, channels, walk, history
<1>1. /\ peers \in [Ids -> Inboxes \cup {NoChan}] /\ via \in [Messages -> Chans \cup {NoChan}]
      /\ Inboxes \cap Links = {} /\ Me \in Ids
  BY DEF RouterInv, TypeOK, RouterAssumption, NodeAssumption
<1>2. stage # "idle" /\ sending \in Messages
  BY DEF SendContinues, SendStep, TryPeer, TryNextHop, TryRelay, PushOffline,
     RouterInv, WalkOK
<1>3. Registered /\ peers[Me] \in Inboxes /\ rx[peers[Me]] = "open" /\ peers[Me] # NoChan
  BY <1>2 DEF Listening, RouterAssumption, Chans
<1>4. stage # "peer" => sending.recipient # Me
  BY <1>2, <1>3 DEF RouterInv, WalkOK, TypeOK, Stages
<1>5. rx' = rx
  BY DEF SendContinues, SendStep, TryPeer, TryNextHop, TryRelay, PushOffline, Enqueue
<1>6. peers'[Me] = peers[Me]
  <2>1. CASE TryPeer
    BY <1>1, <1>3, <2>1 DEF TryPeer, Enqueue, NoRoute
  <2>2. CASE ~TryPeer
    BY <2>2 DEF SendContinues, SendStep, TryNextHop, TryRelay, PushOffline, Enqueue
  <2> QED
    BY <2>1, <2>2
<1>7. OwnKept'
  <2>1. CASE UNCHANGED via
    BY <2>1 DEF OwnKept
  <2>2. ASSUME NEW c, Enqueue(c), sending.recipient = Me => c \in Inboxes
        PROVE  OwnKept'
    BY <1>1, <1>2, <2>2 DEF OwnKept, Enqueue
  <2>3. CASE TryPeer
    <3>1. sending.recipient = Me => peers[sending.recipient] \in Inboxes
      BY <1>3
    <3> QED
      BY <2>1, <2>2, <2>3, <3>1 DEF TryPeer
  <2>4. CASE TryNextHop \/ (\E q \in Ids : TryRelay(q))
    <3>1. sending.recipient # Me
      BY <1>4, <2>4 DEF TryNextHop, TryRelay
    <3> QED
      BY <2>1, <2>2, <2>4, <3>1 DEF TryNextHop, TryRelay
  <2>5. CASE PushOffline
    BY <2>1, <2>5 DEF PushOffline
  <2> QED
    BY <2>3, <2>4, <2>5 DEF SendContinues, SendStep
<1>8. Registered'
  BY <1>3, <1>5 DEF Registered
<1>9. Listening'
  BY <1>3, <1>5, <1>6, <1>8 DEF Listening
<1> QED
  BY <1>7, <1>9

LEMMA OwnNext ==
  ASSUME RouterAssumption, NodeAssumption, RegistersFirst, RouterInv, NodeInv,
         Listening, OwnKept, NodeStep
  PROVE  Listening' /\ OwnKept'
<1> USE DEF rvars, nvars, tables, channels, walk, history
<1>1. /\ rx \in [Chans -> RxStates] /\ Inboxes \cap Links = {} /\ Me \in Ids
      /\ peers \in [Ids -> Inboxes \cup {NoChan}] /\ TypeOK
      /\ via \in [Messages -> Chans \cup {NoChan}]
  BY DEF RouterInv, TypeOK, RouterAssumption, NodeAssumption
<1>2. /\ \A c \in Links : phase[c] # "none" \/ reader[c] = "on" => Registered
      /\ \A t \in Tasks : hand[t] # NoMsg => Registered
      /\ \A d \in Ids : Reachable(d) => Registered
      /\ \A c \in Inboxes : rx[c] = "open" => Registered
  BY <1>1, FirstRegistered
<1>3. ASSUME NEW c \in Inboxes, RegisterLocal(c)
      PROVE  Listening' /\ OwnKept'
  <2>1. /\ rx' = [rx EXCEPT ![c] = "open"] /\ peers' = [peers EXCEPT ![Me] = c]
        /\ via' = [m \in Messages |-> IF m \in Elems(buf'[c]) THEN c ELSE via[m]]
    BY <1>3 DEF RegisterLocal, Register
  <2>2. peers'[Me] = c /\ rx'[c] = "open"
    BY <1>1, <2>1 DEF Chans
  <2>3. Registered'
    BY <2>2 DEF Registered
  <2>4. OwnKept'
    BY <1>1, <2>1 DEF OwnKept
  <2> QED
    BY <2>2, <2>3, <2>4 DEF Listening
<1>4. ASSUME NEW c \in Links,
             \/ Accept(c) \/ Dial(c) \/ DialEnds(c)
             \/ PeerCloses(c) \/ PeerStalls(c)
             \/ \E m \in Messages : ReadFrame(c, m)
             \/ ReaderEof(c) \/ WriterWrites(c)
      PROVE  Listening' /\ OwnKept'
  <2>1. UNCHANGED rvars
    BY <1>4 DEF Accept, Dial, DialEnds, PeerCloses, PeerStalls, ReadFrame,
                ReaderEof, WriterWrites
  <2>2. Registered \/ UNCHANGED <<hand, phase>>
    BY <1>2, <1>4 DEF Accept, Dial, DialEnds, PeerCloses, PeerStalls, ReadFrame,
                ReaderEof, WriterWrites
  <2> QED
    BY <2>1, <2>2, OwnStays
<1>5. ASSUME NEW c \in Links, InstallHop(c) \/ InstallRelay(c) \/ Teardown(c)
      PROVE  Listening' /\ OwnKept'
  <2>1. Registered
    BY <1>2, <1>5 DEF InstallHop, InstallRelay, Teardown
  <2>2. peers' = peers /\ via' = via /\ \A k \in Inboxes : rx'[k] = rx[k]
    BY <1>1, <1>5 DEF InstallHop, InstallRelay, Teardown, SetNextHop, SetRelay,
       RemoveRoute, Chans
  <2> QED
    BY <2>1, <2>2, OwnStays
<1>6. ASSUME NEW c \in Links, WriterRecv(c) \/ WriterFails(c)
      PROVE  Listening' /\ OwnKept'
  <2>1. UNCHANGED <<peers, via, stage, hand, phase>>
    BY <1>6 DEF WriterRecv, WriterFails, Recv, DropRx
  <2>2. \A k \in Inboxes : rx'[k] = rx[k]
    BY <1>1, <1>6 DEF WriterRecv, WriterFails, Recv, DropRx, Chans
  <2> QED
    BY <2>1, <2>2, OwnStays
<1>7. ASSUME NEW c \in Inboxes, Dispatch(c)
      PROVE  Listening' /\ OwnKept'
  <2>1. Registered /\ UNCHANGED <<peers, via, rx>>
    BY <1>2, <1>7 DEF Dispatch, Recv
  <2> QED
    BY <2>1, OwnStays
<1>8. ASSUME NEW m \in AppMessages, AwaitRoute(m)
      PROVE  Listening' /\ OwnKept'
  <2>1. m.recipient \in Ids
    BY DEF NodeAssumption, RouterAssumption, Message
  <2>2. Registered /\ UNCHANGED <<peers, via, rx>>
    BY <1>2, <1>8, <2>1 DEF AwaitRoute
  <2> QED
    BY <2>2, OwnStays
<1>9. ASSUME NEW t \in Tasks, TaskSend(t) PROVE Listening' /\ OwnKept'
  <2>1. Registered /\ UNCHANGED <<peers, via, rx>>
    BY <1>2, <1>9 DEF TaskSend, SendStart
  <2> QED
    BY <2>1, OwnStays
<1>10. CASE SendContinues
  BY <1>10, SendContinuesOwn
<1> QED
  BY <1>3, <1>4, <1>5, <1>6, <1>7, <1>8, <1>9, <1>10 DEF NodeStep

(***************************************************************************)
(* Theorems                                                                *)
(***************************************************************************)
\* The router's and the node's invariants hold together.
THEOREM NodeInvariance == NodeSpec => [](RouterInv /\ NodeInv)
<1>1. NodeInit => RouterInv /\ NodeInv
  BY NodeInitInv, InitInv, RouterAssumption, NodeAssumption DEF NodeInit
<1>2. RouterInv /\ NodeInv /\ [NodeNext]_vars => (RouterInv /\ NodeInv)'
  <2> SUFFICES ASSUME RouterInv, NodeInv, [NodeNext]_vars
               PROVE  (RouterInv /\ NodeInv)'
    OBVIOUS
  <2>1. [RouterNext]_rvars
    BY NodeStepRefines, NodeAssumption DEF NodeInv
  <2> QED
    BY <2>1, NextInv, NodeNextInv, RouterAssumption, NodeAssumption
<1> QED
  BY <1>1, <1>2, PTL DEF NodeSpec

\* A node implements the router's specification: pump_connection, the tasks
\* and the dispatcher use the router only through its operations, with the
\* mutex held, so what RouterProofs shows of the router holds in every node.
THEOREM NodeImplementsRouter == NodeSpec => RouterSpec
<1>1. NodeInit => RouterInit
  BY DEF NodeInit
<1>2. NodeInv /\ [NodeNext]_vars => [RouterNext]_rvars
  BY NodeStepRefines, NodeAssumption DEF NodeInv
<1> QED
  BY <1>1, <1>2, NodeInvariance, PTL DEF NodeSpec, RouterSpec

\* Tearing down a dying connection does not clobber a live replacement.
THEOREM ReplacementKept == NodeSpec => []LiveReplacementKept
<1>1. NodeInv => LiveReplacementKept
  BY DEF NodeInv
<1> QED
  BY <1>1, NodeInvariance, PTL

\* No next hop and no relay outlives its connections.
THEOREM RoutesBacked == NodeSpec => []RoutesHaveConnections
<1>1. NodeInv => RoutesHaveConnections
  BY DEF NodeInv
<1> QED
  BY <1>1, NodeInvariance, PTL

\* The router never sees a message under the name of a device that neither
\* sent it over its own permitted connection nor through a dialed relay.
THEOREM SendersAttributed == NodeSpec => []SenderAttribution
<1>1. NodeInv => SenderAttribution
  BY DEF NodeInv
<1> QED
  BY <1>1, NodeInvariance, PTL

\* A node that registers before it listens or dials never sends its own mail
\* away: the inbox is there before the first connection, and the router does
\* not forget it.
THEOREM OwnMailKept == NodeSpec => []OwnMailStaysLocal
<1> DEFINE Own == RegistersFirst => Listening /\ OwnKept
<1>1. NodeInit => Own
  <2> SUFFICES ASSUME NodeInit PROVE Listening /\ OwnKept
    OBVIOUS
  <2>1. ~Registered
    BY DEF NodeInit, RouterInit, Registered, Chans
  <2>2. NoChan \notin Links
    BY RouterAssumption DEF Chans
  <2> QED
    BY <2>1, <2>2 DEF NodeInit, RouterInit, Listening, OwnKept
<1>2. RouterInv /\ NodeInv /\ Own /\ [NodeNext]_vars => Own'
  <2> SUFFICES ASSUME RouterInv, NodeInv, Own, [NodeNext]_vars, RegistersFirst'
               PROVE  (Listening /\ OwnKept)'
    OBVIOUS
  <2>1. CASE Running /\ NodeStep
    <3>1. RegistersFirst
      BY <2>1 DEF Running, RegistersFirst
    <3> QED
      BY <2>1, <3>1, OwnNext, RouterAssumption, NodeAssumption
  <2>2. ~EdgeExits
    BY DEF EdgeExits, RegistersFirst
  <2>3. CASE UNCHANGED vars
    <3>1. RegistersFirst
      BY <2>3 DEF vars, RegistersFirst
    <3>2. UNCHANGED <<rvars, nvars>>
      BY <2>3 DEF vars
    <3> QED
      BY <3>1, <3>2, OwnStays DEF rvars, nvars, tables, channels, walk, history
  <2> QED
    BY <2>1, <2>2, <2>3 DEF NodeNext
<1>3. Own => OwnMailStaysLocal
  BY DEF OwnKept, OwnMailStaysLocal
<1> QED
  BY <1>1, <1>2, <1>3, NodeInvariance, PTL DEF NodeSpec
=============================================================================
