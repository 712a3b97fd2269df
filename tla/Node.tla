-------------------------------- MODULE Node --------------------------------
(***************************************************************************)
(* One running node (src/src/node.rs): its router behind a mutex, the      *)
(* connections it accepted or dialed, and the tasks that contend for the   *)
(* mutex.  A connection has a reader and a writer task; a dispatcher takes *)
(* messages from the node's own inbox and may reply; an application task   *)
(* waits for a route and sends.                                            *)
(*                                                                         *)
(* The mutex is held exactly while stage # "idle": the short operations    *)
(* take and release it in one step, Router::send keeps it over its awaits. *)
(***************************************************************************)
EXTENDS Router

CONSTANTS Me,             \* this node's identity
          Remote,         \* link -> identity authenticated by the handshake
          Dialed,         \* the links this node dials (relays)
          Allowed,        \* the AllowList, as the set it permits
          Arrives,        \* link -> messages the remote may send over it
          AppMessages,    \* messages of the application task
          ReplyTo,        \* message -> the reply its handler makes, or NoMsg
          Dispatcher, App,
          Programs,       \* what the process may be: run_server ("server"),
                          \* run_edge ("edge"), the shell or a command ("shell")
          Closes,         \* links whose remote may close or die
          Stalls          \* links whose remote may stop reading

Tasks == Links \cup {Dispatcher, App}

ASSUME NodeAssumption ==
  /\ Me \in Ids
  /\ Remote \in [Links -> Ids]
  /\ Dialed \subseteq Links
  /\ Allowed \subseteq Ids
  /\ Closes \subseteq Links /\ Stalls \subseteq Links
  /\ Arrives \in [Links -> SUBSET Messages]
  /\ AppMessages \subseteq Messages
  /\ \A m \in AppMessages : m.sender = Me
  /\ ReplyTo \in [Messages -> Messages \cup {NoMsg}]
  /\ \A m \in Messages : ReplyTo[m] # NoMsg =>
       /\ ReplyTo[m].id = m.id
       /\ ReplyTo[m].sender = Me
       /\ ReplyTo[m].recipient = m.sender
  /\ Programs \subseteq {"server", "edge", "shell"}
  /\ Links \cap {Dispatcher, App} = {} /\ Dispatcher # App

VARIABLES
  program,  \* which of Programs the process is, or "exited"
  phase,    \* link -> progress of its connection
  sock,     \* link -> "none", "up", "stalled" (remote not reading), "down"
  reader,   \* link -> reader task: "off", "on", "ended"
  writer,   \* link -> writer task: "off", "idle", "writing", "ended"
  wmsg,     \* link -> the message its writer took from the channel
  hand,     \* task -> the message it passes to the router
  fate,     \* history: what the tasks did with each message
  latest    \* history: identity -> the link last installed for it

nvars == <<phase, sock, reader, writer, wmsg, hand, fate, latest>>
vars == <<program, rvars, nvars>>

Phases == {"none", "dialing", "authed", "routed", "pumping", "done"}
Socks == {"none", "up", "stalled", "down"}
Readers == {"off", "on", "ended"}
Writers == {"off", "idle", "writing", "ended"}
Fates == {"none", "read", "spoofed", "handled", "written", "unencodable",
          "vanished"}

\* The enum tag MessagingFrame::encode puts before the message.
FrameTag == 1

NodeInit ==
  /\ RouterInit
  /\ program \in Programs
  /\ phase = [c \in Links |-> "none"]
  /\ sock = [c \in Links |-> "none"]
  /\ reader = [c \in Links |-> "off"]
  /\ writer = [c \in Links |-> "off"]
  /\ wmsg = [c \in Links |-> NoMsg]
  /\ hand = [t \in Tasks |-> NoMsg]
  /\ fate = [m \in Messages |-> "none"]
  /\ latest = [i \in Ids |-> NoChan]

Registered == \E c \in Inboxes : rx[c] # "unused"

\* run_server and run_edge register before they listen or dial; the shell and
\* mesh_client start the dial first.
RegistersFirst == program \in {"server", "edge"}

\* Router::reachable.
Reachable(d) == next_hops[d] # NoChan \/ relays # {}

(***************************************************************************)
(* Connections                                                             *)
(***************************************************************************)
\* Router::register for the node itself, once per process.
RegisterLocal(c) ==
  /\ ~Registered
  /\ Register(Me, c)
  /\ UNCHANGED nvars

\* serve_listener and handle_inbound up to the allow list.
Accept(c) ==
  /\ program = "server" /\ c \notin Dialed
  /\ phase[c] = "none"
  /\ Registered
  /\ LET permitted == Remote[c] \in Allowed IN
     /\ phase' = [phase EXCEPT ![c] = IF permitted THEN "authed" ELSE "done"]
     /\ sock' = [sock EXCEPT ![c] = IF permitted THEN "up" ELSE "down"]
  /\ UNCHANGED <<rvars, reader, writer, wmsg, hand, fate, latest>>

\* Mutant: the edge dials before it registers.
DialBeforeRegister(c) ==
  /\ program # "server" /\ c \in Dialed
  /\ phase[c] = "none"
  /\ \/ \A k \in Dialed : phase[k] = "none"
     \/ /\ program = "shell" /\ Registered /\ stage = "idle"
        /\ \E m \in AppMessages : ~Reachable(m.recipient)
  /\ phase' = [phase EXCEPT ![c] = "dialing"]
  /\ UNCHANGED <<rvars, sock, reader, writer, wmsg, hand, fate, latest>>

\* A dial starts when the program does; the shell, whose inbox is there by
\* then, starts another one when it has waited in vain for a route to a peer.
Dial(c) ==
  /\ program # "server" /\ c \in Dialed
  /\ phase[c] = "none"
  /\ RegistersFirst => Registered
  /\ \/ \A k \in Dialed : phase[k] = "none"
     \/ /\ program = "shell" /\ Registered /\ stage = "idle"
        /\ \E m \in AppMessages : ~Reachable(m.recipient)
  /\ phase' = [phase EXCEPT ![c] = "dialing"]
  /\ UNCHANGED <<rvars, sock, reader, writer, wmsg, hand, fate, latest>>

\* The dial connects and authenticates the pinned core, or fails.
DialEnds(c) ==
  /\ phase[c] = "dialing"
  /\ \/ /\ phase' = [phase EXCEPT ![c] = "authed"]
        /\ sock' = [sock EXCEPT ![c] = "up"]
     \/ /\ phase' = [phase EXCEPT ![c] = "done"]
        /\ UNCHANGED sock
  /\ UNCHANGED <<rvars, reader, writer, wmsg, hand, fate, latest>>

StartPump(c) ==
  /\ phase' = [phase EXCEPT ![c] = "pumping"]
  /\ reader' = [reader EXCEPT ![c] = "on"]
  /\ writer' = [writer EXCEPT ![c] = "idle"]

\* Mutant: the route is installed without the mutex.
InstallHopUnlocked(c) ==
  /\ phase[c] = "authed"
  /\ rx' = [rx EXCEPT ![c] = "open"]
  /\ next_hops' = [next_hops EXCEPT ![Remote[c]] = c]
  /\ latest' = [latest EXCEPT ![Remote[c]] = c]
  /\ StartPump(c)
  /\ UNCHANGED <<peers, relays, offline, buf, walk, history>>
  /\ UNCHANGED <<sock, wmsg, hand, fate>>

\* pump_connection takes the mutex once for set_next_hop ...
InstallHop(c) ==
  /\ phase[c] = "authed"
  /\ SetNextHop(Remote[c], c)
  /\ latest' = [latest EXCEPT ![Remote[c]] = c]
  /\ \/ c \notin Dialed /\ StartPump(c)
     \/ /\ c \in Dialed
        /\ phase' = [phase EXCEPT ![c] = "routed"]
        /\ UNCHANGED <<reader, writer>>
  /\ UNCHANGED <<sock, wmsg, hand, fate>>

\* ... and again for set_relay, on a connection it dialed.
InstallRelay(c) ==
  /\ phase[c] = "routed"
  /\ SetRelay(Remote[c])
  /\ StartPump(c)
  /\ UNCHANGED <<sock, wmsg, hand, fate, latest>>

PeerCloses(c) ==
  /\ c \in Closes
  /\ sock[c] \in {"up", "stalled"}
  /\ sock' = [sock EXCEPT ![c] = "down"]
  /\ UNCHANGED <<rvars, phase, reader, writer, wmsg, hand, fate, latest>>

PeerStalls(c) ==
  /\ c \in Stalls
  /\ sock[c] = "up"
  /\ sock' = [sock EXCEPT ![c] = "stalled"]
  /\ UNCHANGED <<rvars, phase, reader, writer, wmsg, hand, fate, latest>>

(***************************************************************************)
(* The reader and writer tasks of a connection                             *)
(***************************************************************************)
\* Mutant: any sender is believed.
AttributedAlways(c, m) == TRUE

\* On a connection the node accepted, only the authenticated remote may be
\* the sender; a relay may forward other devices' messages.
Attributed(c, m) == c \in Dialed \/ m.sender = Remote[c]

ReadFrame(c, m) ==
  /\ reader[c] = "on"
  /\ hand[c] = NoMsg
  /\ m \in Arrives[c]
  /\ fate[m] = "none"
  /\ \/ /\ Attributed(c, m)
        /\ fate' = [fate EXCEPT ![m] = "read"]
        /\ hand' = [hand EXCEPT ![c] = m]
     \/ /\ ~Attributed(c, m)
        /\ fate' = [fate EXCEPT ![m] = "spoofed"]
        /\ UNCHANGED hand
  /\ UNCHANGED <<rvars, phase, sock, reader, writer, wmsg, latest>>

ReaderEof(c) ==
  /\ reader[c] = "on"
  /\ hand[c] = NoMsg
  /\ sock[c] = "down"
  /\ reader' = [reader EXCEPT ![c] = "ended"]
  /\ UNCHANGED <<rvars, phase, sock, writer, wmsg, hand, fate, latest>>

WriterRecv(c) ==
  /\ writer[c] = "idle"
  /\ Recv(c)
  /\ writer' = [writer EXCEPT ![c] = "writing"]
  /\ wmsg' = [wmsg EXCEPT ![c] = Head(buf[c])]
  /\ UNCHANGED <<phase, sock, reader, hand, fate, latest>>

Encodable(m) == m.size + FrameTag <= MaxMessageSize

\* encode fails (the message is skipped), or the frame is written; a write to
\* a socket the remote has left may still succeed.
WriterWrites(c) ==
  /\ writer[c] = "writing"
  /\ Encodable(wmsg[c]) => sock[c] # "stalled"
  /\ fate' = [fate EXCEPT ![wmsg[c]] =
                CASE ~Encodable(wmsg[c]) -> "unencodable"
                  [] Encodable(wmsg[c]) /\ sock[c] = "up" -> "written"
                  [] OTHER -> "vanished"]
  /\ writer' = [writer EXCEPT ![c] = "idle"]
  /\ wmsg' = [wmsg EXCEPT ![c] = NoMsg]
  /\ UNCHANGED <<rvars, phase, sock, reader, hand, latest>>

\* write_frame fails: the task ends and drops its receiver.
WriterFails(c) ==
  /\ writer[c] = "writing"
  /\ Encodable(wmsg[c])
  /\ sock[c] = "down"
  /\ DropRx(c)
  /\ fate' = [fate EXCEPT ![wmsg[c]] = "vanished"]
  /\ writer' = [writer EXCEPT ![c] = "ended"]
  /\ wmsg' = [wmsg EXCEPT ![c] = NoMsg]
  /\ UNCHANGED <<phase, sock, reader, hand, latest>>

\* After tokio::join!(reader, writer).
Teardown(c) ==
  /\ phase[c] = "pumping"
  /\ reader[c] = "ended"
  /\ writer[c] = "ended"
  /\ RemoveRoute(Remote[c], c, c \in Dialed)
  /\ phase' = [phase EXCEPT ![c] = "done"]
  /\ UNCHANGED <<sock, reader, writer, wmsg, hand, fate, latest>>

(***************************************************************************)
(* The tasks that pass messages to the router                              *)
(***************************************************************************)
\* The inbox loop of run_server, run_edge and Client: one message at a time,
\* and its handler's reply before the next.  The one of run_edge may end
\* instead, see EdgeExits.
Dispatch(c) ==
  /\ c \in Inboxes
  /\ hand[Dispatcher] = NoMsg
  /\ Recv(c)
  /\ fate' = [fate EXCEPT ![Head(buf[c])] = "handled"]
  /\ hand' = [hand EXCEPT ![Dispatcher] = ReplyTo[Head(buf[c])]]
  /\ UNCHANGED <<phase, sock, reader, writer, wmsg, latest>>

\* await_any_next_hop finds the recipient reachable; the send comes later.
AwaitRoute(m) ==
  /\ m \in AppMessages
  /\ fate[m] = "none"
  /\ hand[App] = NoMsg
  /\ stage = "idle"
  /\ Reachable(m.recipient)
  /\ fate' = [fate EXCEPT ![m] = "read"]
  /\ hand' = [hand EXCEPT ![App] = m]
  /\ UNCHANGED <<rvars, phase, sock, reader, writer, wmsg, latest>>

\* A task gets the mutex and calls Router::send.
TaskSend(t) ==
  /\ hand[t] # NoMsg
  /\ SendStart(hand[t])
  /\ hand' = [hand EXCEPT ![t] = IF stage' = "idle" THEN NoMsg ELSE @]
  /\ UNCHANGED <<phase, sock, reader, writer, wmsg, fate, latest>>

\* The task that holds the mutex advances; when send returns it is free.
SendContinues ==
  /\ SendStep
  /\ hand' = [t \in Tasks |-> IF stage' = "idle" /\ hand[t] = sending
                              THEN NoMsg ELSE hand[t]]
  /\ UNCHANGED <<phase, sock, reader, writer, wmsg, fate, latest>>

\* The other arm of run_edge's select!: its dial failed, or the connection
\* has ended.  Between two messages the loop is left and the process ends,
\* with every task and with the mail that is still in the inbox.
EdgeExits ==
  /\ program = "edge" /\ Registered
  /\ \E c \in Dialed : phase[c] = "done"
  /\ hand[Dispatcher] = NoMsg
  /\ program' = "exited"
  /\ UNCHANGED <<rvars, nvars>>

\* A step of a task of the running process, or of a remote.
NodeStep ==
  \/ \E c \in Inboxes : RegisterLocal(c) \/ Dispatch(c)
  \/ \E c \in Links :
       \/ Accept(c) \/ Dial(c) \/ DialEnds(c)
       \/ InstallHop(c) \/ InstallRelay(c)
       \/ PeerCloses(c) \/ PeerStalls(c)
       \/ \E m \in Messages : ReadFrame(c, m)
       \/ ReaderEof(c)
       \/ WriterRecv(c) \/ WriterWrites(c) \/ WriterFails(c)
       \/ Teardown(c)
  \/ \E m \in AppMessages : AwaitRoute(m)
  \/ \E t \in Tasks : TaskSend(t)
  \/ SendContinues

Running == program # "exited" /\ UNCHANGED program

NodeNext == (Running /\ NodeStep) \/ EdgeExits

NodeSpec == NodeInit /\ [][NodeNext]_vars

\* tokio runs every task that is ready, and its mutex serves waiters in
\* order: what needs the mutex is strongly fair, the rest weakly.  Nothing
\* makes peers connect, send, stall or close.
NodeFairness ==
  /\ WF_vars(Running /\ SendContinues)
  /\ \A t \in Tasks : SF_vars(Running /\ TaskSend(t))
  /\ \A c \in Inboxes : WF_vars(Running /\ Dispatch(c))
  /\ \A c \in Links :
       /\ SF_vars(Running /\ InstallHop(c)) /\ SF_vars(Running /\ InstallRelay(c))
       /\ SF_vars(Running /\ Teardown(c))
       /\ WF_vars(Running /\ ReaderEof(c))
       /\ WF_vars(Running /\ WriterRecv(c))
       /\ WF_vars(Running /\ (WriterWrites(c) \/ WriterFails(c)))

FairNodeSpec == NodeSpec /\ NodeFairness

(***************************************************************************)
(* Properties                                                              *)
(***************************************************************************)
NodeTypeOK ==
  /\ phase \in [Links -> Phases]
  /\ sock \in [Links -> Socks]
  /\ reader \in [Links -> Readers]
  /\ writer \in [Links -> Writers]
  /\ wmsg \in [Links -> Messages \cup {NoMsg}]
  /\ hand \in [Tasks -> Messages \cup {NoMsg}]
  /\ fate \in [Messages -> Fates]
  /\ latest \in [Ids -> Links \cup {NoChan}]

\* "tearing down a dying connection must not clobber a live replacement": as
\* long as the writer of the connection last installed for an identity runs,
\* the next hop of that identity is that connection, whatever the teardown of
\* its predecessors and the failed sends of the router did meanwhile.
LiveReplacementKept ==
  \A c \in Links :
    latest[Remote[c]] = c /\ phase[c] \in {"routed", "pumping"}
        /\ writer[c] # "ended"
      => next_hops[Remote[c]] = c

\* The tables never outlive the connections: a next hop is a connection to
\* that very identity that is not torn down, and a relay is the remote of
\* some dialed connection that still pumps.
RoutesHaveConnections ==
  /\ \A i \in Ids : next_hops[i] # NoChan =>
       /\ Remote[next_hops[i]] = i
       /\ phase[next_hops[i]] \in {"routed", "pumping"}
  /\ \A q \in relays : \E c \in Dialed : Remote[c] = q /\ phase[c] = "pumping"

\* What reaches the router under another device's name came over a
\* connection the node dialed (a pinned relay), or over one authenticated as
\* that device and permitted by the allow list.
SenderAttribution ==
  \A m \in Messages : place[m] # "new" /\ m.sender # Me =>
    \E c \in Links :
      /\ m \in Arrives[c]
      /\ c \in Dialed \/ (Remote[c] = m.sender /\ m.sender \in Allowed)

\* A node that registers before it listens or dials never sends a message
\* addressed to itself away over a connection.
OwnMailStaysLocal ==
  RegistersFirst => \A m \in Messages : m.recipient = Me => via[m] \notin Links

(***************************************************************************)
(* The inductive invariant behind the safety properties                    *)
(***************************************************************************)
\* How the phases of a connection, its tasks and its channel go together.
ConnectionsOK ==
  \A c \in Links :
    /\ rx[c] = "closed" <=> writer[c] = "ended"
    /\ phase[c] \notin {"pumping", "done"} => writer[c] = "off"
    /\ reader[c] = "on" => phase[c] = "pumping"
    /\ phase[c] \in {"dialing", "routed"} => c \in Dialed
    /\ writer[c] = "writing" => wmsg[c] \in Messages
    /\ phase[c] \in {"authed", "pumping"} /\ c \notin Dialed
         => Remote[c] \in Allowed

\* Whose messages the tasks have in hand.
HandsOK ==
  /\ \A c \in Links : hand[c] # NoMsg =>
       /\ hand[c] \in Arrives[c]
       /\ c \in Dialed \/ (hand[c].sender = Remote[c] /\ Remote[c] \in Allowed)
  /\ \A t \in {Dispatcher, App} : hand[t] # NoMsg => hand[t].sender = Me

NodeInv ==
  /\ NodeTypeOK
  /\ ConnectionsOK
  /\ HandsOK
  /\ LiveReplacementKept
  /\ RoutesHaveConnections
  /\ SenderAttribution

(***************************************************************************)
(* Statements of the comments and documents that the code does not meet    *)
(***************************************************************************)
\* "Connected recipients are delivered immediately": what a reader accepted
\* for this node is handled by its dispatcher.
MailHandled ==
  \A m \in Messages :
    m.recipient = Me /\ fate[m] = "read" ~> fate[m] = "handled"

\* "delivered FIFO on reconnect": queued messages leave the queue once their
\* recipient is connected.
QueuedDeliveredOnReconnect ==
  \A m \in Messages :
    place[m] = "queue" /\ next_hops[m.recipient] # NoChan
      ~> place[m] # "queue"
=============================================================================
