------------------------------- MODULE Lobby --------------------------------
(***************************************************************************)
(* A lobby (src/src/app/lobby.rs, src/src/lobby.rs and the commands of     *)
(* src/src/main.rs).  A host keeps the key and the members of its lobby in *)
(* memory and relays every post to them; a member keeps a roster entry and *)
(* a log on disk.  The lobby has one name; several devices may host it.    *)
(*                                                                         *)
(* At the host, one task handles frames in turn while `host` may start the *)
(* lobby over.  At a member, the pump of each process takes the frames     *)
(* that arrive while the command that made a call acts on its answer.  A   *)
(* post stands for its place in the log of its host; it can be read with   *)
(* the key it was encrypted with.                                          *)
(*                                                                         *)
(* A member is a home directory.  A shell and a one-shot command of the    *)
(* home are two processes of one identity: each has its connections and    *)
(* its pump, both write one log and one roster.  A shell that redials      *)
(* while its old connection is still there has two connections.  A path is *)
(* the chain of connections from a host to a process of a member; a        *)
(* connection that is replaced makes another path.  Frames keep their      *)
(* order on a path only.                                                   *)
(***************************************************************************)
EXTENDS Naturals, Sequences, FiniteSets

CONSTANTS Hosts, Members, NoHost,
          Sessions, Home,               \* the processes, and whose they are
          Paths, Session, NoPath,       \* the paths, and where they lead to
          Caps,                         \* the seats a host may ask for
          MaxKeys, MaxPosts, MaxCalls   \* bounds

ASSUME LobbyAssumption ==
  /\ Hosts \cap Members = {} /\ NoHost \notin Hosts
  /\ Home \in [Sessions -> Members]
  /\ Session \in [Paths -> Sessions] /\ NoPath \notin Paths
  /\ Caps \subseteq Nat /\ {MaxKeys, MaxPosts, MaxCalls} \subseteq Nat

VARIABLES
  keys,       \* number of lobby keys made so far
  key,        \* host -> the key of its lobby, 0 when it hosts none
  cap,        \* host -> --max-members
  members,    \* host -> its members
  task,       \* host -> the Post it handles
  said,       \* host -> the keys of the posts in its log
  requests,   \* frames under way to the hosts; one that is lost stays here
  frames,     \* host -> path -> frames under way, in order
  on,         \* the sessions that run
  calls, call,\* number of calls; session -> its call
  roster,     \* member -> its roster entry, key 0 when there is none
  heard,      \* member -> its log, with the path of each post as a history
  admitted,   \* history: <<member, key>> the host let in
  relayed,    \* history: member -> <<host, pos>> of the relays sent to it
  missed      \* history: ... of those that were lost, or that came when the
              \* roster had no entry for them

hosting == <<keys, key, cap, members, task, said>>
wire == <<requests, frames>>
joining == <<on, calls, call, roster, heard>>
history == <<admitted, relayed, missed>>
vars == <<hosting, wire, joining, history>>

Keys == 1 .. MaxKeys
NoTask == [pc |-> "idle", from |-> NoHost, call |-> 0, key |-> 0, pos |-> 0,
           todo |-> {}, member |-> FALSE]
NoCall == [status |-> "idle", n |-> 0, host |-> NoHost, key |-> 0, pos |-> 0,
           member |-> FALSE, path |-> NoPath]

Entry(h, k) == [host |-> h, key |-> k]
Post(h, pos, p) == [host |-> h, pos |-> pos, path |-> p]

Request(m, kind, n, h, k) ==
  [from |-> m, kind |-> kind, call |-> n, host |-> h, key |-> k]
Answer(kind, n) ==
  [kind |-> kind, call |-> n, key |-> 0, pos |-> 0, member |-> FALSE]
Posted(t) == [kind |-> "posted", call |-> t.call, key |-> 0, pos |-> t.pos,
              member |-> t.member]
Relay(k, pos) == [kind |-> "relay", call |-> 0, key |-> k, pos |-> pos,
                  member |-> FALSE]

\* The member whose frames a path carries.
To(p) == Home[Session[p]]

\* Mutant: a frame goes ahead of those that wait.
SentFirst(h, p, f) == [frames EXCEPT ![h][p] = <<f>> \o @]

\* The channel, the writer and the reader of each connection keep the order.
Sent(h, p, f) == [frames EXCEPT ![h][p] = Append(@, f)]

\* A router sends to the connection it installed last for the member, which
\* may be any; what an older one carries stays there and still arrives.
Send(h, m, f) == \E p \in Paths : To(p) = m /\ frames' = Sent(h, p, f)

LobbyInit ==
  /\ keys = 0
  /\ key = [h \in Hosts |-> 0]
  /\ cap = [h \in Hosts |-> 0]
  /\ members = [h \in Hosts |-> {}]
  /\ task = [h \in Hosts |-> NoTask]
  /\ said = [h \in Hosts |-> <<>>]
  /\ requests = {}
  /\ frames = [h \in Hosts |-> [p \in Paths |-> <<>>]]
  /\ on = {}
  /\ calls = 0
  /\ call = [s \in Sessions |-> NoCall]
  /\ roster = [m \in Members |-> Entry(NoHost, 0)]
  /\ heard = [m \in Members |-> <<>>]
  /\ admitted = {}
  /\ relayed = [m \in Members |-> {}]
  /\ missed = [m \in Members |-> {}]

(***************************************************************************)
(* The host                                                                *)
(***************************************************************************)
\* Mutant: the members of the lobby that ran before stay.
KeepMembers(h) == members[h]

NewMembers(h) == {}

\* `host`, again or for the first time: a fresh key and nobody in the lobby.
register_host(h, c) ==
  /\ keys < MaxKeys
  /\ keys' = keys + 1
  /\ key' = [key EXCEPT ![h] = keys']
  /\ cap' = [cap EXCEPT ![h] = c]
  /\ members' = [members EXCEPT ![h] = NewMembers(h)]
  /\ UNCHANGED <<task, said, wire, joining, history>>

\* The hosting process ends: the lobby was in its memory only.
HostStop(h) ==
  /\ key[h] # 0
  /\ key' = [key EXCEPT ![h] = 0]
  /\ members' = [members EXCEPT ![h] = {}]
  /\ task' = [task EXCEPT ![h] = NoTask]
  /\ cap' = [cap EXCEPT ![h] = 0]
  /\ UNCHANGED <<keys, said, wire, joining, history>>

\* Mutant: whoever asks has a seat.
FullNever(h) == FALSE

\* The cap counts the members, whoever asks.
Full(h) == Cardinality(members[h]) >= cap[h]

HandleJoin(h, r) ==
  /\ r \in requests /\ r.host = h /\ r.kind = "join" /\ task[h].pc = "idle"
  /\ requests' = requests \ {r}
  /\ \/ /\ key[h] = r.key /\ ~Full(h)
        /\ members' = [members EXCEPT ![h] = @ \cup {r.from}]
        /\ admitted' = admitted \cup {<<r.from, r.key>>}
        /\ Send(h, r.from, Answer("joined", r.call))
     \/ /\ key[h] # r.key \/ Full(h)
        /\ Send(h, r.from, Answer("refused", r.call))
        /\ UNCHANGED <<members, admitted>>
  /\ UNCHANGED <<keys, key, cap, task, said, joining, relayed, missed>>

HandleLeave(h, r) ==
  /\ r \in requests /\ r.host = h /\ r.kind = "leave" /\ task[h].pc = "idle"
  /\ requests' = requests \ {r}
  /\ members' = [members EXCEPT ![h] = @ \ {r.from}]
  /\ Send(h, r.from, Answer("left", r.call))
  /\ UNCHANGED <<keys, key, cap, task, said, joining, history>>

\* A request that reaches another process of the host's home: it hosts
\* nothing, and waits for no task.
HandleElsewhere(h, r) ==
  /\ r \in requests /\ r.host = h
  /\ requests' = requests \ {r}
  /\ Send(h, r.from, Answer(IF r.kind = "leave" THEN "left" ELSE "refused", r.call))
  /\ UNCHANGED <<hosting, joining, history>>

KeyOk(h, r) == key[h] = r.key

\* Post: the key is checked under one lock.  Whether the sender is a member
\* is not.
CheckPost(h, r) ==
  /\ r \in requests /\ r.host = h /\ r.kind = "post" /\ task[h].pc = "idle"
  /\ requests' = requests \ {r}
  /\ \/ /\ KeyOk(h, r)
        /\ task' = [task EXCEPT ![h] = [NoTask EXCEPT !.pc = "checked",
              !.from = r.from, !.call = r.call, !.key = r.key]]
        /\ UNCHANGED frames
     \/ /\ ~KeyOk(h, r)
        /\ Send(h, r.from, Answer("refused", r.call))
        /\ UNCHANGED task
  /\ UNCHANGED <<keys, key, cap, members, said, joining, history>>

\* The members are read under another, and the post is logged.
LogPost(h) ==
  /\ task[h].pc = "checked"
  /\ Len(said[h]) < MaxPosts
  /\ said' = [said EXCEPT ![h] = Append(@, task[h].key)]
  /\ task' = [task EXCEPT ![h].pc = "relaying", ![h].todo = members[h],
        ![h].pos = Len(said[h]) + 1, ![h].member = task[h].from \in members[h]]
  /\ UNCHANGED <<keys, key, cap, members, wire, joining, history>>

RelayTo(h, m) ==
  /\ task[h].pc = "relaying" /\ m \in task[h].todo
  /\ Send(h, m, Relay(task[h].key, task[h].pos))
  /\ task' = [task EXCEPT ![h].todo = @ \ {m}]
  /\ relayed' = [relayed EXCEPT ![m] = @ \cup {<<h, task[h].pos>>}]
  /\ UNCHANGED <<keys, key, cap, members, said, requests, joining, admitted, missed>>

\* Mutant: the answer does not wait for the relays.
RelayedSome(h) == task[h].pc = "relaying"

Relayed(h) == task[h].pc = "relaying" /\ task[h].todo = {}

ReplyPosted(h) ==
  /\ Relayed(h)
  /\ Send(h, task[h].from, Posted(task[h]))
  /\ task' = [task EXCEPT ![h] = NoTask]
  /\ UNCHANGED <<keys, key, cap, members, said, requests, joining, history>>

(***************************************************************************)
(* A member: its sessions, the command that calls, and the pump            *)
(***************************************************************************)
Open(s) ==
  /\ s \notin on
  /\ on' = on \cup {s}
  /\ UNCHANGED <<hosting, wire, calls, call, roster, heard, history>>

\* The shell or the one-shot command ends, in the middle of a call or not.
Close(s) ==
  /\ s \in on
  /\ on' = on \ {s}
  /\ call' = [call EXCEPT ![s] = NoCall]
  /\ UNCHANGED <<hosting, wire, calls, roster, heard, history>>

Without(s, i) == [j \in 1 .. Len(s) - 1 |-> IF j < i THEN s[j] ELSE s[j + 1]]

\* A frame goes down with a connection of its path: the channel's receiver is
\* dropped, the write fails, the bytes are not read, or the send finds no route
\* and puts it in a queue that nobody drains.  The session may stay on.
LoseFrame(h, p, i) ==
  /\ i \in DOMAIN frames[h][p]
  /\ frames' = [frames EXCEPT ![h][p] = Without(@, i)]
  /\ missed' = [missed EXCEPT ![To(p)] = @ \cup
        {<<h, f.pos>> : f \in {g \in {frames[h][p][i]} : g.kind = "relay"}}]
  /\ UNCHANGED <<hosting, requests, joining, admitted, relayed>>

StartCall(s, kind, h, k) ==
  /\ s \in on /\ call[s].status = "idle"
  /\ calls < MaxCalls
  /\ calls' = calls + 1
  /\ call' = [call EXCEPT ![s] =
        [NoCall EXCEPT !.status = "waiting", !.n = calls', !.host = h, !.key = k]]
  /\ requests' = requests \cup {Request(Home[s], kind, calls', h, k)}
  /\ UNCHANGED <<hosting, frames, on, roster, heard, history>>

Join(s, h, k) == StartCall(s, "join", h, k)

\* A post goes to the host of the roster entry, under the key noted there.
Use(s, kind) ==
  /\ roster[Home[s]].key # 0
  /\ StartCall(s, kind, roster[Home[s]].host, roster[Home[s]].key)

Say(s) == Use(s, "post")

Leave(s) == Use(s, "leave")

\* Mutant: a relay that comes while a call waits is dropped.
ReadableIdle(h, p, f) ==
  roster[To(p)] = Entry(h, f.key) /\ call[Session[p]].status = "idle"

Readable(h, p, f) == roster[To(p)] = Entry(h, f.key)

Awaited(s, f) == call[s].status = "waiting" /\ call[s].n = f.call

\* The pump: an awaited answer goes to its call, a relay to the log if the
\* roster entry names its host and has its key, anything else nowhere.
Pump(h, p) ==
  /\ Session[p] \in on /\ frames[h][p] # <<>>
  /\ frames' = [frames EXCEPT ![h][p] = Tail(@)]
  /\ LET f == Head(frames[h][p])
         s == Session[p]
         m == To(p) IN
     \/ /\ f.kind = "relay"
        /\ heard' = [heard EXCEPT ![m] =
              IF Readable(h, p, f) THEN Append(@, Post(h, f.pos, p)) ELSE @]
        /\ missed' = [missed EXCEPT ![m] =
              IF roster[m] # Entry(h, f.key) THEN @ \cup {<<h, f.pos>>} ELSE @]
        /\ UNCHANGED call
     \/ /\ f.kind # "relay"
        /\ call' = [call EXCEPT ![s] =
              IF Awaited(s, f)
                THEN [@ EXCEPT !.status = f.kind, !.pos = f.pos, !.member = f.member,
                               !.path = p]
                ELSE @]
        /\ UNCHANGED <<heard, missed>>
  /\ UNCHANGED <<hosting, requests, on, calls, roster, admitted, relayed>>

\* add_to_roster replaces the entry of the name.  Leaving keeps it.
EntryAfter(s) ==
  IF call[s].status = "joined" THEN Entry(call[s].host, call[s].key)
                               ELSE roster[Home[s]]

Finish(s) ==
  /\ call[s].status \in {"joined", "refused", "left", "posted"}
  /\ roster' = [roster EXCEPT ![Home[s]] = EntryAfter(s)]
  /\ call' = [call EXCEPT ![s] = NoCall]
  /\ UNCHANGED <<hosting, wire, on, calls, heard, history>>

-----------------------------------------------------------------------------
Next ==
  \/ \E h \in Hosts :
       \/ \E c \in Caps : register_host(h, c)
       \/ HostStop(h)
       \/ \E r \in requests :
            \/ HandleJoin(h, r) \/ HandleLeave(h, r) \/ CheckPost(h, r)
            \/ HandleElsewhere(h, r)
       \/ LogPost(h) \/ ReplyPosted(h)
       \/ \E m \in Members : RelayTo(h, m)
       \/ \E p \in Paths :
            \/ Pump(h, p)
            \/ \E i \in DOMAIN frames[h][p] : LoseFrame(h, p, i)
  \/ \E s \in Sessions :
       \/ Open(s) \/ Close(s) \/ Finish(s)
       \/ \E h \in Hosts, k \in 1 .. keys : Join(s, h, k)
       \/ Say(s) \/ Leave(s)

LobbySpec == LobbyInit /\ [][Next]_vars

-----------------------------------------------------------------------------
(* Properties *)

\* Types, and no more members than seats.
LobbyTypeOK ==
  /\ keys \in 0 .. MaxKeys
  /\ key \in [Hosts -> 0 .. keys]
  /\ cap \in [Hosts -> Caps \cup {0}]
  /\ members \in [Hosts -> SUBSET Members]
  /\ \A h \in Hosts : Cardinality(members[h]) <= cap[h]
  /\ said \in [Hosts -> Seq(1 .. keys)]
  /\ \A r \in requests :
       r \in [from : Members, kind : {"join", "post", "leave"},
              call : 1 .. calls, host : Hosts, key : 1 .. keys]
  /\ on \subseteq Sessions
  /\ calls \in 0 .. MaxCalls
  /\ roster \in [Members -> [host : Hosts \cup {NoHost}, key : 0 .. keys]]
  /\ admitted \subseteq Members \X (1 .. keys)

KeyOf(p) == said[p.host][p.pos]

\* Only those that a host let in with the key of a post log it, or are sent
\* it, although the key and the members are looked up apart, the host may
\* start the lobby over in between, and Leave and Post ask for no membership.
OnlyAdmittedHear ==
  /\ \A m \in Members : \A i \in DOMAIN heard[m] : <<m, KeyOf(heard[m][i])>> \in admitted
  /\ \A h \in Hosts, p \in Paths : \A i \in DOMAIN frames[h][p] :
       LET f == frames[h][p][i] IN
       f.kind = "relay" => <<To(p), f.key>> \in admitted

Heard(m, h, pos) ==
  \E i \in DOMAIN heard[m] : heard[m][i].host = h /\ heard[m][i].pos = pos

InFlight(h, p, pos) ==
  \E i \in DOMAIN frames[h][p] :
    frames[h][p][i].kind = "relay" /\ frames[h][p][i].pos = pos

\* "relayed to N members (including the sender, whose log gets its own
\* post)": when a call returns Posted, a poster the host counts among the
\* members has the post in its log already, unless the relay was lost with a
\* connection, found no roster entry, or is on another path than the answer.
PostedIsHeard ==
  \A s \in Sessions :
    LET c == call[s]
        m == Home[s] IN
    c.status = "posted" /\ c.member =>
      \/ Heard(m, c.host, c.pos)
      \/ <<c.host, c.pos>> \in missed[m]
      \/ \E p \in Paths : To(p) = m /\ p # c.path /\ InFlight(c.host, p, c.pos)

\* The lobby implements a room: posts are heard at most once, and what came
\* over one path in the order of the host's log, across stops, rejoins, lost
\* frames, replaced connections, new keys and several processes of a home.
room == INSTANCE Room WITH said <- [h \in Hosts |-> Len(said[h])]
RoomSpec == room!RoomSpec

\* What the host counts in "relayed to N members" is in the log of the member
\* or under way to it, unless it went down with a connection, or the roster had
\* no entry for it when it arrived: the one of a member that was let in is
\* written after the answer, and a relay that comes first is dropped.  A pump
\* whose command waits for an answer, or whose call was answered, or that of
\* another process of the home, drops no relay.
RelaysConserved ==
  \A m \in Members : \A x \in relayed[m] :
    \/ Heard(m, x[1], x[2])
    \/ x \in missed[m]
    \/ \E p \in Paths : To(p) = m /\ InFlight(x[1], p, x[2])
=============================================================================
