------------------------------- MODULE Router -------------------------------
(***************************************************************************)
(* The message router of one NeoNet node (src/src/messaging.rs): the       *)
(* tables `peers', `next_hops' and `relays', the bounded per-identity      *)
(* offline queues, and the mpsc channels the tables point to.              *)
(*                                                                         *)
(* Every operation takes `&mut self' behind the node's mutex, so no two of *)
(* them overlap.  `send' alone awaits: it walks local peer, direct next    *)
(* hop, relays, offline queue, and blocks on a full channel with the mutex *)
(* held.  The walk is therefore a sequence of steps (stage), during which  *)
(* only the receiving ends of the channels can move.                       *)
(***************************************************************************)
EXTENDS Naturals, Sequences

CONSTANTS Ids,             \* public identities
          Inboxes,         \* channels created by Router::register
          Links,           \* channels created by pump_connection
          NoChan,          \* absence of a table entry
          Messages,        \* the messages that may be handed to the router
          NoMsg,           \* absence of a message
          Capacity,        \* queue_capacity_per_identity
          LinkCapacity,    \* mpsc::channel::<Message>(64)
          MaxMessageSize   \* MAX_MESSAGE_SIZE

Message == [id : Nat, sender : Ids, recipient : Ids, size : Nat]

Chans == Inboxes \cup Links

ASSUME RouterAssumption ==
  /\ Messages \subseteq Message
  /\ NoMsg \notin Messages
  /\ NoChan \notin Chans
  /\ Inboxes \cap Links = {}
  /\ Capacity \in Nat \ {0}
  /\ LinkCapacity \in Nat \ {0}
  /\ MaxMessageSize \in Nat

VARIABLES
  peers,       \* identity -> inbox of a locally registered recipient
  next_hops,   \* identity -> outgoing channel of an authenticated connection
  relays,      \* identities of the cores this node dialed
  offline,     \* identity -> queued messages, oldest first
  buf,         \* channel -> messages sent and not yet received
  rx,          \* channel -> "unused", "open", "closed" (receiver dropped)
  stage,       \* where the running `send' is; "idle" when none runs
  sending,     \* its message
  left,        \* the relays it has not tried yet
  place,       \* history: where each message is
  via,         \* history: the channel that carried each message
  stamp,       \* history: the order in which messages were handed over
  clock        \* history: how many were

tables == <<peers, next_hops, relays>>
channels == <<buf, rx>>
walk == <<stage, sending, left>>
history == <<place, via, stamp, clock>>
rvars == <<tables, offline, channels, walk, history>>

Stages == {"idle", "peer", "hop", "relay"}
RxStates == {"unused", "open", "closed"}
Places == {"new", "rejected", "sending", "chan", "queue", "taken",
           "evicted", "lost"}

Room(c) == IF c \in Inboxes THEN Capacity ELSE LinkCapacity

Elems(s) == {s[k] : k \in DOMAIN s}

Smaller(a, b) == IF a < b THEN a ELSE b

(***************************************************************************)
(* OfflineQueue::push, drain                                               *)
(***************************************************************************)
\* push_back, then pop_front when the queue has grown past its capacity.
Push(q, m) ==
  IF Len(Append(q, m)) > Capacity THEN Tail(Append(q, m)) ELSE Append(q, m)

(***************************************************************************)
(* Registration and the routing tables                                     *)
(***************************************************************************)
RouterInit ==
  /\ peers = [i \in Ids |-> NoChan]
  /\ next_hops = [i \in Ids |-> NoChan]
  /\ relays = {}
  /\ offline = [i \in Ids |-> <<>>]
  /\ buf = [c \in Chans |-> <<>>]
  /\ rx = [c \in Chans |-> "unused"]
  /\ stage = "idle"
  /\ sending = NoMsg
  /\ left = {}
  /\ place = [m \in Messages |-> "new"]
  /\ via = [m \in Messages |-> NoChan]
  /\ stamp = [m \in Messages |-> 0]
  /\ clock = 0

\* How much of a drained queue try_send can put in a fresh inbox.
Fits(q) == Smaller(Len(q), Capacity)

\* Mutant: the queue is copied into the inbox and not drained.
RegisterWithoutDrain(i, c) ==
  /\ stage = "idle"
  /\ rx[c] = "unused"
  /\ rx' = [rx EXCEPT ![c] = "open"]
  /\ buf' = [buf EXCEPT ![c] = SubSeq(offline[i], 1, Fits(offline[i]))]
  /\ peers' = [peers EXCEPT ![i] = c]
  /\ via' = [m \in Messages |-> IF m \in Elems(buf'[c]) THEN c ELSE via[m]]
  /\ UNCHANGED <<next_hops, relays, offline, walk, place, stamp, clock>>

\* Mutant: the queued messages stay queued, and later ones overtake them.
RegisterLeavingQueue(i, c) ==
  /\ stage = "idle"
  /\ rx[c] = "unused"
  /\ rx' = [rx EXCEPT ![c] = "open"]
  /\ peers' = [peers EXCEPT ![i] = c]
  /\ UNCHANGED <<next_hops, relays, offline, buf, walk, history>>

\* register: a fresh channel of capacity `Capacity' receives the drained
\* queue through try_send, whose error is ignored.
Register(i, c) ==
  /\ stage = "idle"
  /\ rx[c] = "unused"
  /\ rx' = [rx EXCEPT ![c] = "open"]
  /\ buf' = [buf EXCEPT ![c] = SubSeq(offline[i], 1, Fits(offline[i]))]
  /\ peers' = [peers EXCEPT ![i] = c]
  /\ offline' = [offline EXCEPT ![i] = <<>>]
  /\ place' = [m \in Messages |->
                 IF m \notin Elems(offline[i]) THEN place[m]
                 ELSE IF m \in Elems(buf'[c]) THEN "chan" ELSE "lost"]
  /\ via' = [m \in Messages |-> IF m \in Elems(buf'[c]) THEN c ELSE via[m]]
  /\ UNCHANGED <<next_hops, relays, walk, stamp, clock>>

Unregister(i) ==
  /\ stage = "idle"
  /\ peers' = [peers EXCEPT ![i] = NoChan]
  /\ UNCHANGED <<next_hops, relays, offline, channels, walk, history>>

\* set_next_hop.  The channel is created by the caller just before.
SetNextHop(d, c) ==
  /\ stage = "idle"
  /\ rx[c] = "unused"
  /\ rx' = [rx EXCEPT ![c] = "open"]
  /\ next_hops' = [next_hops EXCEPT ![d] = c]
  /\ UNCHANGED <<peers, relays, offline, buf, walk, history>>

RemoveNextHop(d) ==
  /\ stage = "idle"
  /\ next_hops' = [next_hops EXCEPT ![d] = NoChan]
  /\ UNCHANGED <<peers, relays, offline, channels, walk, history>>

\* Mutants: the entry goes whoever owns it; it stays; the relay stays.
NextHopsWithout(d, c) == [next_hops EXCEPT ![d] = NoChan]

NextHopsKept(d, c) == next_hops

RelaysKept(q) == relays

\* remove_next_hop_if_current, and remove_relay.
NextHopsWithoutIfCurrent(d, c) ==
  [next_hops EXCEPT ![d] = IF @ = c THEN NoChan ELSE @]

RelaysWithout(q) == relays \ {q}

\* What pump_connection does with one guard when a connection has ended.
RemoveRoute(d, c, is_relay) ==
  /\ stage = "idle"
  /\ next_hops' = NextHopsWithoutIfCurrent(d, c)
  /\ relays' = IF is_relay THEN RelaysWithout(d) ELSE relays
  /\ UNCHANGED <<peers, offline, channels, walk, history>>

SetRelay(q) ==
  /\ stage = "idle"
  /\ relays' = relays \cup {q}
  /\ UNCHANGED <<peers, next_hops, offline, channels, walk, history>>

(***************************************************************************)
(* send                                                                    *)
(***************************************************************************)
\* Entry: validate_size, then the walk starts at the local peer.
SendStart(m) ==
  /\ stage = "idle"
  /\ place[m] = "new"
  /\ \/ /\ m.size <= MaxMessageSize
        /\ stage' = "peer"
        /\ sending' = m
        /\ left' = relays
        /\ place' = [place EXCEPT ![m] = "sending"]
        /\ stamp' = [stamp EXCEPT ![m] = clock]
        /\ clock' = clock + 1
     \/ /\ m.size > MaxMessageSize
        /\ place' = [place EXCEPT ![m] = "rejected"]
        /\ UNCHANGED <<walk, stamp, clock>>
  /\ UNCHANGED <<tables, offline, channels, via>>

\* No sender in the table, or one whose send fails.
NoRoute(c) == c # NoChan => rx[c] = "closed"

\* The send future of channel c resolves to Ok.
Enqueue(c) ==
  /\ rx[c] = "open"
  /\ Len(buf[c]) < Room(c)
  /\ buf' = [buf EXCEPT ![c] = Append(@, sending)]
  /\ place' = [place EXCEPT ![sending] = "chan"]
  /\ via' = [via EXCEPT ![sending] = c]
  /\ stage' = "idle"
  /\ sending' = NoMsg
  /\ left' = {}
  /\ UNCHANGED <<tables, offline, rx, stamp, clock>>

\* Mutant: a dead inbox is not forgotten.
TryPeerKeepingDead ==
  /\ stage = "peer"
  /\ LET d == sending.recipient IN
     \/ peers[d] # NoChan /\ Enqueue(peers[d])
     \/ /\ NoRoute(peers[d])
        /\ stage' = "hop"
        /\ UNCHANGED <<tables, offline, channels, sending, left, history>>

\* The local peer: absent, delivered to, or found dead and forgotten.  A full
\* open channel enables none of the three: the walk waits, mutex held.
TryPeer ==
  /\ stage = "peer"
  /\ LET d == sending.recipient IN
     \/ peers[d] # NoChan /\ Enqueue(peers[d])
     \/ /\ NoRoute(peers[d])
        /\ peers' = [peers EXCEPT ![d] = NoChan]
        /\ stage' = "hop"
        /\ UNCHANGED <<next_hops, relays, offline, channels, sending, left,
                       history>>

TryNextHop ==
  /\ stage = "hop"
  /\ LET d == sending.recipient IN
     \/ next_hops[d] # NoChan /\ Enqueue(next_hops[d])
     \/ /\ NoRoute(next_hops[d])
        /\ next_hops' = [next_hops EXCEPT ![d] = NoChan]
        /\ stage' = "relay"
        /\ UNCHANGED <<peers, relays, offline, channels, sending, left,
                       history>>

\* One iteration of `for relay in &self.relays'; a HashSet has no order.
TryRelay(q) ==
  /\ stage = "relay"
  /\ q \in left
  /\ \/ next_hops[q] # NoChan /\ Enqueue(next_hops[q])
     \/ /\ NoRoute(next_hops[q])
        /\ next_hops' = [next_hops EXCEPT ![q] = NoChan]
        /\ left' = left \ {q}
        /\ UNCHANGED <<peers, relays, offline, channels, stage, sending,
                       history>>

\* Mutant: gives up after the first relay that fails.
PushOfflineEarly ==
  /\ stage = "relay"
  /\ left # relays \/ relays = {}
  /\ LET d == sending.recipient IN
     /\ offline' = [offline EXCEPT ![d] = Push(@, sending)]
     /\ place' = [m \in Messages |->
                    CASE m \in Elems(offline'[d]) -> "queue"
                      [] m \in Elems(Append(offline[d], sending))
                           \ Elems(offline'[d]) -> "evicted"
                      [] OTHER -> place[m]]
  /\ stage' = "idle"
  /\ sending' = NoMsg
  /\ left' = {}
  /\ UNCHANGED <<tables, channels, via, stamp, clock>>

\* Every route failed: self.offline.push(message), whose return value is the
\* evicted message, if any.
PushOffline ==
  /\ stage = "relay"
  /\ left = {}
  /\ LET d == sending.recipient IN
     /\ offline' = [offline EXCEPT ![d] = Push(@, sending)]
     /\ place' = [m \in Messages |->
                    CASE m \in Elems(offline'[d]) -> "queue"
                      [] m \in Elems(Append(offline[d], sending))
                           \ Elems(offline'[d]) -> "evicted"
                      [] OTHER -> place[m]]
  /\ stage' = "idle"
  /\ sending' = NoMsg
  /\ UNCHANGED <<tables, channels, left, via, stamp, clock>>

SendStep ==
  \/ TryPeer
  \/ TryNextHop
  \/ \E q \in Ids : TryRelay(q)
  \/ PushOffline

(***************************************************************************)
(* The receiving ends of the channels (tokio::sync::mpsc)                  *)
(***************************************************************************)
Recv(c) ==
  /\ rx[c] = "open"
  /\ buf[c] # <<>>
  /\ buf' = [buf EXCEPT ![c] = Tail(@)]
  /\ place' = [place EXCEPT ![Head(buf[c])] = "taken"]
  /\ UNCHANGED <<tables, offline, rx, walk, via, stamp, clock>>

\* The receiver is dropped, and what it had not received with it.
DropRx(c) ==
  /\ rx[c] = "open"
  /\ rx' = [rx EXCEPT ![c] = "closed"]
  /\ buf' = [buf EXCEPT ![c] = <<>>]
  /\ place' = [m \in Messages |->
                 IF m \in Elems(buf[c]) THEN "lost" ELSE place[m]]
  /\ UNCHANGED <<tables, offline, walk, via, stamp, clock>>

(***************************************************************************)
(* The router behind its mutex, used in every way its interface allows.    *)
(***************************************************************************)
RouterNext ==
  \/ \E i \in Ids :
       \/ \E c \in Inboxes : Register(i, c)
       \/ Unregister(i)
       \/ RemoveNextHop(i)
       \/ SetRelay(i)
       \/ \E c \in Links : SetNextHop(i, c)
       \/ \E c \in Links, is_relay \in BOOLEAN : RemoveRoute(i, c, is_relay)
  \/ \E m \in Messages : SendStart(m)
  \/ SendStep
  \/ \E c \in Chans : Recv(c) \/ DropRx(c)

RouterSpec == RouterInit /\ [][RouterNext]_rvars

(***************************************************************************)
(* Properties                                                              *)
(***************************************************************************)
TypeOK ==
  /\ peers \in [Ids -> Inboxes \cup {NoChan}]
  /\ next_hops \in [Ids -> Links \cup {NoChan}]
  /\ relays \subseteq Ids
  /\ offline \in [Ids -> Seq(Messages)]
  /\ buf \in [Chans -> Seq(Messages)]
  /\ rx \in [Chans -> RxStates]
  /\ stage \in Stages
  /\ sending \in Messages \cup {NoMsg}
  /\ left \subseteq relays
  /\ place \in [Messages -> Places]
  /\ via \in [Messages -> Chans \cup {NoChan}]
  /\ stamp \in [Messages -> Nat]
  /\ clock \in Nat

\* "Bounded offline queue, maintained independently for each recipient
\* identity": no queue and no channel ever holds more than it was made for,
\* whatever mix of failed routes feeds it.
QueueBound ==
  /\ \A i \in Ids : Len(offline[i]) <= Capacity
  /\ \A c \in Chans : Len(buf[c]) <= Room(c)

\* Conservation: at any moment a message handed to Router::send is in exactly
\* one place.  The channels hold the messages they were sent and that nobody
\* received, the queue of identity i the messages for i that found no route;
\* none is in two places, through relays, re-registrations and evictions.
AccountedFor ==
  /\ \A c \in Chans :
       Elems(buf[c]) = {m \in Messages : place[m] = "chan" /\ via[m] = c}
  /\ \A i \in Ids :
       Elems(offline[i]) = {m \in Messages : place[m] = "queue" /\ m.recipient = i}
  /\ \A m \in Messages : place[m] = "sending" <=> sending = m

\* Once past the size check a message is lost only with the receiver of the
\* channel that carried it.  In particular the try_send of Router::register,
\* whose error is ignored ("A freshly-created channel with this capacity
\* cannot be full yet"), never drops a queued message.
LostOnlyWithReceiver ==
  \A m \in Messages :
    place[m] = "lost" => via[m] \in Chans /\ rx[via[m]] = "closed"

\* No message is duplicated, forgotten, or lost other than with its channel.
Conserved == AccountedFor /\ LostOnlyWithReceiver

Increasing(f, s) == \A j, k \in DOMAIN s : j < k => f[s[j]] < f[s[k]]

\* Every channel and every offline queue holds its messages in the order in
\* which they were handed to Router::send, without duplicates.
Fifo ==
  /\ \A c \in Chans : Increasing(stamp, buf[c])
  /\ \A i \in Ids : Increasing(stamp, offline[i])

\* "Any queued messages are delivered first, preserving FIFO order for that
\* recipient": nothing that went to an inbox of identity i is newer than a
\* message still queued for i, so a later register cannot reorder them.
InboxBeforeQueue ==
  \A i \in Ids : \A m \in Elems(offline[i]), n \in Messages :
    n.recipient = i /\ via[n] \in Inboxes => stamp[n] < stamp[m]

\* "Dropping the oldest message makes the capacity bound explicit": what was
\* evicted is older than everything still queued for the same identity.
EvictedAreOldest ==
  \A i \in Ids : \A m \in Elems(offline[i]), n \in Messages :
    n.recipient = i /\ place[n] = "evicted" => stamp[n] < stamp[m]

\* First in, first out, within a channel or queue, from an inbox to a later
\* queue of the same identity, and for evictions.
InOrder == Fifo /\ InboxBeforeQueue /\ EvictedAreOldest

\* "Deliver directly when possible, otherwise enqueue": the walk of send gives
\* up only after it has removed every route it could have used, the dead
\* inbox, the dead next hop and the dead next hop of each relay.
QueuedOnlyWithoutRoute ==
  [][\A m \in Messages :
       place[m] = "sending" /\ place'[m] = "queue" =>
         /\ peers'[m.recipient] = NoChan
         /\ next_hops'[m.recipient] = NoChan
         /\ \A q \in relays' : next_hops'[q] = NoChan]_rvars

(***************************************************************************)
(* The inductive invariant behind these properties                         *)
(***************************************************************************)
\* What the running walk of send has already ruled out.
WalkOK ==
  /\ stage = "idle" => sending = NoMsg /\ left = {}
  /\ stage # "idle" => sending \in Messages
  /\ stage \in {"peer", "hop"} => left = relays
  /\ stage \in {"hop", "relay"} => peers[sending.recipient] = NoChan
  /\ stage = "relay" =>
       /\ next_hops[sending.recipient] = NoChan
       /\ \A q \in relays \ left : next_hops[q] = NoChan

Unstamped == {"new", "rejected"}

\* The message under way is the newest one.
StampsOK ==
  /\ \A m \in Messages : place[m] \notin Unstamped => stamp[m] < clock
  /\ stage # "idle" =>
       \A m \in Messages : place[m] \notin Unstamped \cup {"sending"}
         => stamp[m] < stamp[sending]

\* Only messages that entered a channel have one, and dropped or unused
\* channels are empty.
ChannelsOK ==
  /\ \A m \in Messages :
       place[m] \notin {"chan", "taken", "lost"} => via[m] = NoChan
  /\ \A c \in Chans : rx[c] # "open" => buf[c] = <<>>

\* A registered identity has no queue.
RegisteredNotQueued ==
  \A i \in Ids : peers[i] # NoChan => offline[i] = <<>>

\* Holds in every reachable state and is preserved by every step.
RouterInv ==
  /\ TypeOK
  /\ WalkOK
  /\ StampsOK
  /\ ChannelsOK
  /\ RegisteredNotQueued
  /\ QueueBound
  /\ AccountedFor
  /\ LostOnlyWithReceiver
  /\ Fifo
  /\ InboxBeforeQueue
  /\ EvictedAreOldest
=============================================================================
