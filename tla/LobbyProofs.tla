---------------------------- MODULE LobbyProofs -----------------------------
(***************************************************************************)
(* Proofs about Lobby, for any number of hosts, members, processes of a    *)
(* home, paths, keys and posts: only those a host let in with the key of a *)
(* post hear it, no relay is dropped that is neither lost nor unreadable,  *)
(* a poster has its own post before its call returns, and a lobby          *)
(* implements the room of module Room.                                     *)
(***************************************************************************)
EXTENDS Lobby, FiniteSetTheorems, SequenceTheorems, TLAPS

FrameType ==
  [kind : {"joined", "refused", "left", "posted", "relay"}, call : Nat, key : Nat,
   pos : Nat, member : BOOLEAN]
TaskType ==
  [pc : {"idle", "checked", "relaying"}, from : Members \cup {NoHost}, call : Nat,
   key : Nat, pos : Nat, todo : SUBSET Members, member : BOOLEAN]
CallType ==
  [status : {"idle", "waiting", "joined", "refused", "left", "posted"}, n : Nat,
   host : Hosts \cup {NoHost}, key : Nat, pos : Nat, member : BOOLEAN,
   path : Paths \cup {NoPath}]
LogType == [host : Hosts, pos : Nat, path : Paths]

\* What the type invariant of the runs leaves out.
ShapeOK ==
  /\ frames \in [Hosts -> [Paths -> Seq(FrameType)]]
  /\ task \in [Hosts -> TaskType]
  /\ call \in [Sessions -> CallType]
  /\ heard \in [Members -> Seq(LogType)]
  /\ \A h \in Hosts : IsFiniteSet(members[h])
  /\ \A h \in Hosts : task[h].pc # "idle" =>
       task[h].from \in Members /\ task[h].key \in 1 .. keys
  /\ \A s \in Sessions : call[s].status # "idle" =>
       call[s].host \in Hosts /\ call[s].key \in 1 .. keys
  /\ \A m \in Members : roster[m].key # 0 => roster[m].host \in Hosts

(***************************************************************************)
(* Who hears a post: a relay under way, and an entry of a log, name a post *)
(* of the host and a member that was let in with its key.                  *)
(***************************************************************************)
Backed(q, h, m) ==
  \A i \in DOMAIN q : q[i].kind = "relay" =>
    /\ q[i].pos \in DOMAIN said[h] /\ said[h][q[i].pos] = q[i].key
    /\ <<m, q[i].key>> \in admitted

Logged(l, m) ==
  \A k \in DOMAIN l :
    l[k].pos \in DOMAIN said[l[k].host] /\ <<m, KeyOf(l[k])>> \in admitted

\* Between the check of the key and the log, the lobby still has the key of
\* the post or it has nobody: a frame that lets a member in waits for the task.
TaskOK(h) ==
  /\ task[h].pc = "checked" => members[h] = {} \/ key[h] = task[h].key
  /\ task[h].pc = "relaying" =>
       /\ task[h].pos \in DOMAIN said[h] /\ said[h][task[h].pos] = task[h].key
       /\ \A m \in task[h].todo : <<m, task[h].key>> \in admitted

AdmitOK ==
  /\ \A h \in Hosts : TaskOK(h)
  /\ \A h \in Hosts : \A m \in members[h] : <<m, key[h]>> \in admitted
  /\ \A h \in Hosts, p \in Paths : Backed(frames[h][p], h, To(p))
  /\ \A m \in Members : Logged(heard[m], m)

(***************************************************************************)
(* In which order, and how often: the log of a member, the relays on their *)
(* way to it over each path, and the post its host is relaying.            *)
(***************************************************************************)
Ordered(q) ==
  \A i, j \in DOMAIN q :
    i < j /\ q[i].kind = "relay" /\ q[j].kind = "relay" => q[i].pos < q[j].pos

\* What is under way over path p is not in the log, nor behind what it brought.
After(q, l, h, p) ==
  \A i \in DOMAIN q, k \in DOMAIN l : q[i].kind = "relay" /\ l[k].host = h =>
    l[k].pos # q[i].pos /\ (l[k].path = p => l[k].pos < q[i].pos)

Before(q, l, h, pos) ==
  /\ \A i \in DOMAIN q : q[i].kind = "relay" => q[i].pos < pos
  /\ \A k \in DOMAIN l : l[k].host = h => l[k].pos < pos

Apart(q, r) ==
  \A i \in DOMAIN q, j \in DOMAIN r :
    q[i].kind = "relay" /\ r[j].kind = "relay" => q[i].pos # r[j].pos

OrderOK ==
  /\ \A h \in Hosts, p \in Paths :
       /\ Ordered(frames[h][p]) /\ After(frames[h][p], heard[To(p)], h, p)
       /\ task[h].pc = "relaying" /\ To(p) \in task[h].todo =>
            Before(frames[h][p], heard[To(p)], h, task[h].pos)
  /\ \A h \in Hosts : \A p, r \in Paths : p # r /\ To(p) = To(r) =>
       Apart(frames[h][p], frames[h][r])

LobbyInv == LobbyTypeOK /\ ShapeOK /\ AdmitOK /\ OrderOK

LEMMA PathsLead ==
  ASSUME LobbyAssumption, NEW p \in Paths
  PROVE  Session[p] \in Sessions /\ To(p) \in Members /\ To(p) = Home[Session[p]]
  BY DEF LobbyAssumption, To

LEMMA LobbyInitInv ==
  ASSUME LobbyAssumption, LobbyInit PROVE LobbyInv
<1> USE DEF LobbyInit
<1>1. LobbyTypeOK
  <2>1. \A h \in Hosts : Cardinality(members[h]) = 0
    BY FS_EmptySet
  <2> QED
    BY <2>1 DEF LobbyTypeOK, LobbyAssumption, Entry
<1>2. ShapeOK
  BY FS_EmptySet DEF ShapeOK, TaskType, CallType, NoTask, NoCall, Entry
<1>3. \A h \in Hosts, p \in Paths : DOMAIN frames[h][p] = {}
  OBVIOUS
<1>4. AdmitOK
  BY <1>3 DEF AdmitOK, TaskOK, Backed, Logged, NoTask
<1>5. OrderOK
  BY <1>3 DEF OrderOK, Ordered, After, Apart, NoTask
<1> QED
  BY <1>1, <1>2, <1>4, <1>5 DEF LobbyInv

(***************************************************************************)
(* Queues                                                                  *)
(***************************************************************************)
\* A frame joins the queue of one path.
LEMMA SentFrame ==
  ASSUME ShapeOK, NEW h \in Hosts, NEW p \in Paths, NEW f \in FrameType,
         frames' = Sent(h, p, f)
  PROVE  /\ frames' \in [Hosts -> [Paths -> Seq(FrameType)]]
         /\ frames[h][p] \in Seq(FrameType)
         /\ frames'[h][p] = Append(frames[h][p], f)
         /\ \A g \in Hosts, r \in Paths :
              g # h \/ r # p => frames'[g][r] = frames[g][r]
  BY DEF ShapeOK, Sent

\* An answer says nothing about posts.
LEMMA AnswerKeeps ==
  ASSUME NEW q \in Seq(FrameType), NEW f \in FrameType, f.kind # "relay"
  PROVE  /\ \A h, m : Backed(q, h, m) => Backed(Append(q, f), h, m)
         /\ Ordered(q) => Ordered(Append(q, f))
         /\ \A l, h, p : After(q, l, h, p) => After(Append(q, f), l, h, p)
         /\ \A l, h, pos : Before(q, l, h, pos) => Before(Append(q, f), l, h, pos)
         /\ \A r : Apart(q, r) => Apart(Append(q, f), r)
<1>1. /\ DOMAIN q = 1 .. Len(q) /\ Len(q) \in Nat
      /\ DOMAIN Append(q, f) = 1 .. Len(q) + 1
      /\ \A i \in 1 .. Len(q) : Append(q, f)[i] = q[i]
      /\ Append(q, f)[Len(q) + 1] = f
  OBVIOUS
<1>2. \A i \in DOMAIN Append(q, f) :
        Append(q, f)[i].kind = "relay" => i \in DOMAIN q /\ Append(q, f)[i] = q[i]
  BY <1>1
<1>3. \A h, m : Backed(q, h, m) => Backed(Append(q, f), h, m)
  BY <1>2 DEF Backed
<1>4. Ordered(q) => Ordered(Append(q, f))
  BY <1>2 DEF Ordered
<1>5. \A l, h, p : After(q, l, h, p) => After(Append(q, f), l, h, p)
  BY <1>2 DEF After
<1>6. \A l, h, pos : Before(q, l, h, pos) => Before(Append(q, f), l, h, pos)
  BY <1>2 DEF Before
<1>7. \A r : Apart(q, r) => Apart(Append(q, f), r)
  BY <1>2 DEF Apart
<1> QED
  BY <1>3, <1>4, <1>5, <1>6, <1>7


\* A frame leaves a queue.
LEMMA WithoutFrame ==
  ASSUME NEW S, NEW q \in Seq(S), NEW i \in DOMAIN q
  PROVE  /\ Without(q, i) \in Seq(S)
         /\ DOMAIN Without(q, i) = 1 .. Len(q) - 1
         /\ Len(Without(q, i)) = Len(q) - 1
         /\ \A j \in 1 .. Len(q) - 1 :
              Without(q, i)[j] = IF j < i THEN q[j] ELSE q[j + 1]
<1>1. Len(q) \in Nat /\ DOMAIN q = 1 .. Len(q) /\ Len(q) - 1 \in Nat
  OBVIOUS
<1>2. \A j \in 1 .. Len(q) - 1 : (IF j < i THEN q[j] ELSE q[j + 1]) \in S
  BY <1>1
<1> QED
  BY <1>1, <1>2 DEF Without

LEMMA TailFrame ==
  ASSUME NEW S, NEW q \in Seq(S), q # <<>>
  PROVE  1 \in DOMAIN q /\ Head(q) = q[1] /\ Tail(q) = Without(q, 1)
<1>1. Len(q) \in Nat /\ DOMAIN q = 1 .. Len(q) /\ 1 \in DOMAIN q /\ Head(q) = q[1]
  OBVIOUS
<1>2. /\ Tail(q) \in Seq(S) /\ Len(Tail(q)) = Len(q) - 1
      /\ \A j \in 1 .. Len(q) - 1 : Tail(q)[j] = q[j + 1]
  BY HeadTailProperties
<1>3. /\ Without(q, 1) \in Seq(S) /\ Len(Without(q, 1)) = Len(q) - 1
      /\ \A j \in 1 .. Len(q) - 1 : Without(q, 1)[j] = q[j + 1]
  <2>1. /\ Without(q, 1) \in Seq(S) /\ Len(Without(q, 1)) = Len(q) - 1
        /\ \A j \in 1 .. Len(q) - 1 :
             Without(q, 1)[j] = IF j < 1 THEN q[j] ELSE q[j + 1]
    BY <1>1, WithoutFrame
  <2>2. \A j \in 1 .. Len(q) - 1 : ~(j < 1)
    BY <1>1
  <2> QED
    BY <2>1, <2>2
<1>4. Tail(q) = Without(q, 1)
  BY <1>2, <1>3, SeqEqual
<1> QED
  BY <1>1, <1>4

LEMMA WithoutKeeps ==
  ASSUME NEW q \in Seq(FrameType), NEW i \in DOMAIN q
  PROVE  /\ \A h, m : Backed(q, h, m) => Backed(Without(q, i), h, m)
         /\ Ordered(q) => Ordered(Without(q, i))
         /\ \A l, h, p : After(q, l, h, p) => After(Without(q, i), l, h, p)
         /\ \A l, h, pos : Before(q, l, h, pos) => Before(Without(q, i), l, h, pos)
         /\ \A r : Apart(q, r) => Apart(Without(q, i), r)
<1> DEFINE at(j) == IF j < i THEN j ELSE j + 1
<1>1. Len(q) \in Nat /\ DOMAIN q = 1 .. Len(q)
  OBVIOUS
<1>2. /\ DOMAIN Without(q, i) = 1 .. Len(q) - 1
      /\ \A j \in 1 .. Len(q) - 1 :
           Without(q, i)[j] = IF j < i THEN q[j] ELSE q[j + 1]
  BY WithoutFrame
<1>3. \A j \in DOMAIN Without(q, i) : at(j) \in DOMAIN q /\ Without(q, i)[j] = q[at(j)]
  BY <1>1, <1>2
<1>4. \A j, k \in DOMAIN Without(q, i) : j < k => at(j) < at(k)
  BY <1>1, <1>2
<1> HIDE DEF at
<1>5. \A h, m : Backed(q, h, m) => Backed(Without(q, i), h, m)
  BY <1>3 DEF Backed
<1>6. Ordered(q) => Ordered(Without(q, i))
  BY <1>3, <1>4 DEF Ordered
<1>7. \A l, h, p : After(q, l, h, p) => After(Without(q, i), l, h, p)
  BY <1>3 DEF After
<1>8. \A l, h, pos : Before(q, l, h, pos) => Before(Without(q, i), l, h, pos)
  BY <1>3 DEF Before
<1>9. \A r : Apart(q, r) => Apart(Without(q, i), r)
  BY <1>3 DEF Apart
<1> QED
  BY <1>5, <1>6, <1>7, <1>8, <1>9

\* Apart is symmetric.
LEMMA ApartBoth ==
  ASSUME NEW q, NEW r, Apart(q, r) PROVE Apart(r, q)
  BY DEF Apart

(***************************************************************************)
(* A frame joins or leaves one queue, and the rest stays                   *)
(***************************************************************************)
\* OrderOK of some queues q, tasks t and logs l.
OrderOf(q, t, l) ==
  /\ \A h \in Hosts, p \in Paths :
       /\ Ordered(q[h][p]) /\ After(q[h][p], l[To(p)], h, p)
       /\ t[h].pc = "relaying" /\ To(p) \in t[h].todo =>
            Before(q[h][p], l[To(p)], h, t[h].pos)
  /\ \A h \in Hosts : \A p, r \in Paths : p # r /\ To(p) = To(r) =>
       Apart(q[h][p], q[h][r])

LEMMA OrderOfIsOK ==
  /\ OrderOf(frames, task, heard) <=> OrderOK
  /\ OrderOf(frames', task', heard') => OrderOK'
<1>1. OrderOf(frames, task, heard) <=> OrderOK
  BY DEF OrderOf, OrderOK
<1>2. ASSUME OrderOf(frames', task', heard') PROVE OrderOK'
  <2>1. \A h \in Hosts, p \in Paths :
          /\ Ordered(frames[h][p])' /\ After(frames[h][p], heard[To(p)], h, p)'
          /\ task'[h].pc = "relaying" /\ To(p) \in task'[h].todo =>
               Before(frames[h][p], heard[To(p)], h, task[h].pos)'
    BY <1>2 DEF OrderOf, Ordered, After, Before, To
  <2>2. \A h \in Hosts : \A p, r \in Paths : p # r /\ To(p) = To(r) =>
          Apart(frames[h][p], frames[h][r])'
    BY <1>2 DEF OrderOf, Apart, To
  <2> QED
    BY <2>1, <2>2 DEF OrderOK, To
<1> QED
  BY <1>1, <1>2

\* The queue of path p changes in a way that keeps what OrderOK says of it.
LEMMA OneQueue ==
  ASSUME OrderOK, NEW h \in Hosts, NEW p \in Paths,
         \A g \in Hosts, r \in Paths : g # h \/ r # p => frames'[g][r] = frames[g][r],
         Ordered(frames'[h][p]), After(frames'[h][p], heard[To(p)], h, p),
         \A m : Before(frames[h][p], heard[To(p)], h, m) =>
                  Before(frames'[h][p], heard[To(p)], h, m),
         \A r : Apart(frames[h][p], r) => Apart(frames'[h][p], r),
         \A g \in Hosts : task'[g] = task[g] \/ task'[g].pc # "relaying"
  PROVE  OrderOf(frames', task', heard) /\ (UNCHANGED heard => OrderOK')
<1>1. ASSUME NEW g \in Hosts, NEW r \in Paths
      PROVE  /\ Ordered(frames'[g][r]) /\ After(frames'[g][r], heard[To(r)], g, r)
             /\ task'[g].pc = "relaying" /\ To(r) \in task'[g].todo =>
                  Before(frames'[g][r], heard[To(r)], g, task'[g].pos)
  <2>1. CASE g # h \/ r # p
    <3>1. frames'[g][r] = frames[g][r]
      BY <2>1
    <3> QED
      BY <3>1 DEF OrderOK
  <2>2. CASE g = h /\ r = p
    BY <2>2 DEF OrderOK
  <2> QED
    BY <2>1, <2>2
<1>2. ASSUME NEW g \in Hosts, NEW r \in Paths, NEW t \in Paths, r # t, To(r) = To(t)
      PROVE  Apart(frames'[g][r], frames'[g][t])
  <2>1. Apart(frames[g][r], frames[g][t]) /\ Apart(frames[g][t], frames[g][r])
    BY <1>2 DEF OrderOK
  <2>2. CASE g = h /\ r = p
    <3>1. frames'[g][t] = frames[g][t]
      BY <1>2, <2>2
    <3> QED
      BY <2>1, <2>2, <3>1
  <2>3. CASE g = h /\ t = p
    <3>1. frames'[g][r] = frames[g][r]
      BY <1>2, <2>3
    <3>2. Apart(frames'[g][t], frames[g][r])
      BY <2>1, <2>3
    <3> QED
      BY <3>1, <3>2, ApartBoth
  <2>4. CASE g # h \/ (r # p /\ t # p)
    <3>1. frames'[g][r] = frames[g][r] /\ frames'[g][t] = frames[g][t]
      BY <2>4
    <3> QED
      BY <2>1, <3>1
  <2> QED
    BY <2>2, <2>3, <2>4
<1>3. OrderOf(frames', task', heard)
  BY <1>1, <1>2 DEF OrderOf
<1> QED
  BY <1>3, OrderOfIsOK

(***************************************************************************)
(* Steps that neither log nor send nor hear                                *)
(***************************************************************************)
LEMMA SilentKeeps ==
  ASSUME LobbyInv, UNCHANGED <<frames, heard, said, admitted>>,
         \A h \in Hosts : task'[h] = task[h] \/ task'[h].pc = "idle",
         \A h \in Hosts : members'[h] = {} \/
                          (members'[h] = members[h] /\ key'[h] = key[h])
  PROVE  AdmitOK' /\ OrderOK'
<1>1. AdmitOK /\ OrderOK
  BY DEF LobbyInv
<1>2. \A h \in Hosts : TaskOK(h)'
  BY <1>1 DEF AdmitOK, TaskOK
<1>3. \A h \in Hosts, p \in Paths : Backed(frames[h][p], h, To(p))'
  BY <1>1 DEF AdmitOK, Backed, To
<1>4. \A m \in Members : Logged(heard[m], m)'
  BY <1>1 DEF AdmitOK, Logged, KeyOf
<1>5. \A h \in Hosts : \A m \in members'[h] : <<m, key'[h]>> \in admitted'
  BY <1>1 DEF AdmitOK
<1>6. OrderOK'
  BY <1>1 DEF OrderOK, Ordered, After, Before, Apart, To
<1> QED
  BY <1>2, <1>3, <1>4, <1>5, <1>6 DEF AdmitOK

LEMMA HostInv ==
  ASSUME LobbyAssumption, LobbyInv, NEW h \in Hosts,
         (\E c \in Caps : register_host(h, c)) \/ HostStop(h)
  PROVE  LobbyInv'
<1> USE DEF hosting, wire, joining, history
<1>1. LobbyTypeOK /\ ShapeOK
  BY DEF LobbyInv
<1>2. ASSUME NEW c \in Caps, register_host(h, c) PROVE LobbyInv'
  <2>1. /\ keys' = keys + 1 /\ keys \in Nat /\ keys' \in 0 .. MaxKeys
        /\ key' = [key EXCEPT ![h] = keys']
        /\ cap' = [cap EXCEPT ![h] = c] /\ c \in Nat
        /\ members' = [members EXCEPT ![h] = {}]
        /\ UNCHANGED <<task, said, frames, requests, on, calls, call, roster, heard,
                       admitted>>
    BY <1>1, <1>2 DEF register_host, NewMembers, LobbyTypeOK, LobbyAssumption
  <2>2. \A g \in Hosts : Cardinality(members'[g]) <= cap'[g] /\ IsFiniteSet(members'[g])
    BY <1>1, <2>1, FS_EmptySet DEF LobbyTypeOK, ShapeOK
  <2>3. said' \in [Hosts -> Seq(1 .. keys')]
    <3>1. 1 .. keys \subseteq 1 .. keys'
      BY <2>1
    <3>2. \A g \in Hosts : said[g] \in Seq(1 .. keys')
      BY <1>1, <3>1, SeqMonotonic DEF LobbyTypeOK
    <3> QED
      BY <1>1, <2>1, <3>2 DEF LobbyTypeOK
  <2>4. LobbyTypeOK'
    BY <1>1, <2>1, <2>2, <2>3 DEF LobbyTypeOK
  <2>5. ShapeOK'
    <3>1. \A k \in 1 .. keys : k \in 1 .. keys'
      BY <2>1
    <3>2. \A g \in Hosts : task'[g].pc # "idle" =>
            task'[g].from \in Members /\ task'[g].key \in 1 .. keys'
      BY <1>1, <2>1, <3>1 DEF ShapeOK
    <3>3. /\ \A s \in Sessions : call'[s].status # "idle" =>
               call'[s].host \in Hosts /\ call'[s].key \in 1 .. keys'
          /\ \A m \in Members : roster'[m].key # 0 => roster'[m].host \in Hosts
      BY <1>1, <2>1, <3>1 DEF ShapeOK
    <3> QED
      BY <1>1, <2>1, <2>2, <3>2, <3>3 DEF ShapeOK
  <2>6. AdmitOK' /\ OrderOK'
    <3>1. \A g \in Hosts : members'[g] = {} \/
                           (members'[g] = members[g] /\ key'[g] = key[g])
      BY <1>1, <2>1 DEF LobbyTypeOK
    <3> QED
      BY <2>1, <3>1, SilentKeeps
  <2> QED
    BY <2>4, <2>5, <2>6 DEF LobbyInv
<1>3. CASE HostStop(h)
  <2>1. /\ key' = [key EXCEPT ![h] = 0] /\ members' = [members EXCEPT ![h] = {}]
        /\ task' = [task EXCEPT ![h] = NoTask] /\ cap' = [cap EXCEPT ![h] = 0]
        /\ UNCHANGED <<keys, said, requests, frames, on, calls, call, roster, heard, admitted>>
    BY <1>3 DEF HostStop
  <2>2. \A g \in Hosts : Cardinality(members'[g]) <= cap'[g] /\ IsFiniteSet(members'[g])
    BY <1>1, <2>1, FS_EmptySet DEF LobbyTypeOK, ShapeOK
  <2>3. LobbyTypeOK'
    <3>1. /\ key' \in [Hosts -> 0 .. keys'] /\ cap' \in [Hosts -> Caps \cup {0}]
          /\ members' \in [Hosts -> SUBSET Members]
      BY <1>1, <2>1 DEF LobbyTypeOK, LobbyAssumption
    <3>2. \A r \in requests' :
            r \in [from : Members, kind : {"join", "post", "leave"},
                  call : 1 .. calls', host : Hosts, key : 1 .. keys']
      BY <1>1, <2>1 DEF LobbyTypeOK
    <3> QED
      BY <1>1, <2>1, <2>2, <3>1, <3>2 DEF LobbyTypeOK
  <2>4. NoTask \in TaskType /\ NoTask.pc = "idle"
    BY DEF NoTask, TaskType
  <2>5. ShapeOK'
    BY <1>1, <2>1, <2>2, <2>4 DEF ShapeOK
  <2>6. AdmitOK' /\ OrderOK'
    <3>1. \A g \in Hosts : task'[g] = task[g] \/ task'[g].pc = "idle"
      BY <1>1, <2>1, <2>4 DEF ShapeOK
    <3>2. \A g \in Hosts : members'[g] = {} \/
                           (members'[g] = members[g] /\ key'[g] = key[g])
      BY <1>1, <2>1 DEF LobbyTypeOK
    <3> QED
      BY <2>1, <3>1, <3>2, SilentKeeps
  <2> QED
    BY <2>3, <2>5, <2>6 DEF LobbyInv
<1> QED
  BY <1>2, <1>3

LEMMA StartCallInv ==
  ASSUME LobbyAssumption, LobbyInv, NEW s \in Sessions,
         NEW kind \in {"join", "post", "leave"}, NEW h \in Hosts, NEW k \in 1 .. keys,
         StartCall(s, kind, h, k)
  PROVE  LobbyInv'
<1> USE DEF hosting, history
<1> DEFINE c == [NoCall EXCEPT !.status = "waiting", !.n = calls', !.host = h, !.key = k]
<1>1. /\ LobbyTypeOK /\ ShapeOK /\ calls' = calls + 1 /\ calls' \in 0 .. MaxCalls
      /\ keys \in Nat /\ calls \in Nat /\ k \in Nat
      /\ call' = [call EXCEPT ![s] = c]
      /\ requests' = requests \cup {Request(Home[s], kind, calls', h, k)}
      /\ UNCHANGED <<keys, key, cap, members, task, said, frames, on, roster, heard,
                     admitted>>
  <2>1. calls < MaxCalls /\ calls' = calls + 1
    BY DEF StartCall
  <2>2. LobbyTypeOK /\ ShapeOK /\ keys \in 0 .. MaxKeys /\ calls \in 0 .. MaxCalls
    BY DEF LobbyInv, LobbyTypeOK
  <2>3. MaxKeys \in Nat /\ MaxCalls \in Nat
    BY DEF LobbyAssumption
  <2>4. keys \in Nat /\ calls \in Nat /\ k \in Nat /\ calls' \in 0 .. MaxCalls
    BY <2>1, <2>2, <2>3
  <2>5. /\ call' = [call EXCEPT ![s] = c]
        /\ requests' = requests \cup {Request(Home[s], kind, calls', h, k)}
        /\ UNCHANGED <<hosting, frames, on, roster, heard, history>>
    BY DEF StartCall
  <2>6. UNCHANGED <<keys, key, cap, members, task, said, frames, on, roster, heard,
                    admitted>>
    BY <2>5
  <2> QED
    BY <2>1, <2>2, <2>4, <2>5, <2>6
<1>2. c \in CallType /\ c.host = h /\ c.key = k
  <2>1. NoCall \in CallType
    BY DEF NoCall, CallType
  <2>2. calls' \in Nat
    BY <1>1
  <2> QED
    BY <1>1, <2>1, <2>2 DEF CallType
<1> HIDE DEF c
<1>3. Request(Home[s], kind, calls', h, k) \in
        [from : Members, kind : {"join", "post", "leave"}, call : 1 .. calls',
         host : Hosts, key : 1 .. keys]
  BY <1>1 DEF Request, LobbyAssumption
<1>4. LobbyTypeOK'
  <2>1. \A n \in 1 .. calls : n \in 1 .. calls'
    BY <1>1
  <2>2. ASSUME NEW r \in requests'
        PROVE  r \in [from : Members, kind : {"join", "post", "leave"},
                     call : 1 .. calls', host : Hosts, key : 1 .. keys]
    <3>1. CASE r \in requests
      <4>1. r \in [from : Members, kind : {"join", "post", "leave"},
                  call : 1 .. calls, host : Hosts, key : 1 .. keys]
        BY <1>1, <3>1 DEF LobbyTypeOK
      <4> QED
        BY <2>1, <4>1
    <3> QED
      BY <1>1, <1>3, <2>2, <3>1
  <2> QED
    BY <1>1, <2>2 DEF LobbyTypeOK
<1>5. ShapeOK'
  <2>1. call' \in [Sessions -> CallType] /\ call'[s] = c
        /\ \A n \in Sessions : n # s => call'[n] = call[n]
    BY <1>1, <1>2 DEF ShapeOK
  <2> QED
    BY <1>1, <1>2, <2>1 DEF ShapeOK
<1>6. AdmitOK' /\ OrderOK'
  BY <1>1, SilentKeeps
<1> QED
  BY <1>4, <1>5, <1>6 DEF LobbyInv

LEMMA SessionInv ==
  ASSUME LobbyAssumption, LobbyInv, NEW s \in Sessions, Open(s) \/ Close(s) \/ Finish(s)
  PROVE  LobbyInv'
<1> USE DEF hosting, wire, history
<1>1. /\ LobbyTypeOK /\ ShapeOK /\ Home[s] \in Members
      /\ UNCHANGED <<keys, key, cap, members, task, said, requests, frames, calls, heard,
                     admitted>>
  BY DEF LobbyInv, Open, Close, Finish, LobbyAssumption
<1>2. NoCall \in CallType /\ NoCall.status = "idle"
  BY DEF NoCall, CallType
<1>3. /\ call' \in [Sessions -> CallType]
      /\ \A n \in Sessions : call'[n] = call[n] \/ call'[n].status = "idle"
  <2>1. call' = call \/ call' = [call EXCEPT ![s] = NoCall]
    BY DEF Open, Close, Finish
  <2>2. call \in [Sessions -> CallType]
    BY <1>1 DEF ShapeOK
  <2> QED
    BY <1>2, <2>1, <2>2
<1>4. /\ roster' \in [Members -> [host : Hosts \cup {NoHost}, key : 0 .. keys]]
      /\ \A n \in Members : roster'[n].key # 0 => roster'[n].host \in Hosts
  <2>1. CASE UNCHANGED roster
    BY <1>1, <2>1 DEF LobbyTypeOK, ShapeOK
  <2>2. CASE Finish(s)
    <3>1. /\ EntryAfter(s) \in [host : Hosts \cup {NoHost}, key : 0 .. keys]
          /\ EntryAfter(s).key # 0 => EntryAfter(s).host \in Hosts
      <4>1. CASE call[s].status = "joined"
        <5>1. call[s].host \in Hosts /\ call[s].key \in 1 .. keys
          BY <1>1, <4>1 DEF ShapeOK
        <5>2. EntryAfter(s) = [host |-> call[s].host, key |-> call[s].key]
          BY <4>1 DEF EntryAfter, Entry
        <5>3. keys \in Nat
          BY <1>1 DEF LobbyTypeOK, LobbyAssumption
        <5> QED
          BY <5>1, <5>2, <5>3
      <4>2. CASE call[s].status # "joined"
        <5>1. EntryAfter(s) = roster[Home[s]]
          BY <4>2 DEF EntryAfter
        <5> QED
          BY <1>1, <5>1 DEF LobbyTypeOK, ShapeOK
      <4> QED
        BY <4>1, <4>2
    <3> QED
      BY <1>1, <2>2, <3>1 DEF Finish, LobbyTypeOK, ShapeOK
  <2> QED
    BY <2>1, <2>2 DEF Open, Close
<1>5. on' \subseteq Sessions
  BY <1>1 DEF Open, Close, Finish, LobbyTypeOK
<1>6. LobbyTypeOK'
  BY <1>1, <1>4, <1>5 DEF LobbyTypeOK
<1>7. ShapeOK'
  BY <1>1, <1>3, <1>4 DEF ShapeOK
<1>8. AdmitOK' /\ OrderOK'
  BY <1>1, SilentKeeps
<1> QED
  BY <1>6, <1>7, <1>8 DEF LobbyInv

(***************************************************************************)
(* A host answers                                                          *)
(***************************************************************************)
LEMMA AnswerInv ==
  ASSUME LobbyAssumption, LobbyInv, NEW h \in Hosts, NEW p \in Paths,
         NEW f \in FrameType,
         f.kind # "relay", frames' = Sent(h, p, f), UNCHANGED <<heard, said>>,
         admitted \subseteq admitted',
         \A g \in Hosts : TaskOK(g)' /\ (task'[g] = task[g] \/ task'[g].pc # "relaying"),
         \A g \in Hosts : \A n \in members'[g] : <<n, key'[g]>> \in admitted'
  PROVE  AdmitOK' /\ OrderOK'
<1>1. ShapeOK /\ AdmitOK /\ OrderOK /\ To(p) \in Members
  BY PathsLead DEF LobbyInv
<1>2. /\ frames'[h][p] = Append(frames[h][p], f) /\ frames[h][p] \in Seq(FrameType)
      /\ \A g \in Hosts, r \in Paths :
           g # h \/ r # p => frames'[g][r] = frames[g][r]
  BY <1>1, SentFrame
<1>3. /\ Backed(frames[h][p], h, To(p)) => Backed(frames'[h][p], h, To(p))
      /\ Ordered(frames[h][p]) => Ordered(frames'[h][p])
      /\ After(frames[h][p], heard[To(p)], h, p) => After(frames'[h][p], heard[To(p)], h, p)
      /\ \A m : Before(frames[h][p], heard[To(p)], h, m) =>
                 Before(frames'[h][p], heard[To(p)], h, m)
      /\ \A r : Apart(frames[h][p], r) => Apart(frames'[h][p], r)
  <2> DEFINE q == frames[h][p]
  <2>1. q \in Seq(FrameType) /\ frames'[h][p] = Append(q, f)
    BY <1>2
  <2> HIDE DEF q
  <2>2. /\ \A g, m : Backed(q, g, m) => Backed(Append(q, f), g, m)
        /\ Ordered(q) => Ordered(Append(q, f))
        /\ \A l, g, r : After(q, l, g, r) => After(Append(q, f), l, g, r)
        /\ \A l, g, m : Before(q, l, g, m) => Before(Append(q, f), l, g, m)
        /\ \A r : Apart(q, r) => Apart(Append(q, f), r)
    BY <2>1, AnswerKeeps
  <2> QED
    BY <2>1, <2>2 DEF q
<1>4. \A g \in Hosts, r \in Paths : Backed(frames'[g][r], g, To(r))
  BY <1>1, <1>2, <1>3 DEF AdmitOK
<1>5. \A g \in Hosts, r \in Paths : Backed(frames[g][r], g, To(r))'
  BY <1>4, SMTT(30) DEF Backed, To
<1>6. \A n \in Members : Logged(heard[n], n)'
  BY <1>1 DEF AdmitOK, Logged, KeyOf
<1>7. OrderOK'
  <2>1. Ordered(frames'[h][p]) /\ After(frames'[h][p], heard[To(p)], h, p)
    BY <1>1, <1>3 DEF OrderOK
  <2> QED
    BY <1>1, <1>2, <1>3, <2>1, OneQueue, ZenonT(60)
<1> QED
  BY <1>5, <1>6, <1>7 DEF AdmitOK

\* The members of a lobby, and its seats, are numbers.
LEMMA Seats ==
  ASSUME LobbyAssumption, LobbyTypeOK, ShapeOK, NEW h \in Hosts
  PROVE  /\ IsFiniteSet(members[h]) /\ Cardinality(members[h]) \in Nat
         /\ cap[h] \in Nat /\ Cardinality(members[h]) <= cap[h]
<1>1. cap[h] \in Caps \cup {0} /\ Caps \subseteq Nat
  BY DEF LobbyTypeOK, LobbyAssumption
<1>2. IsFiniteSet(members[h]) /\ Cardinality(members[h]) <= cap[h]
  BY DEF LobbyTypeOK, ShapeOK
<1>3. Cardinality(members[h]) \in Nat
  BY <1>2, FS_CardinalityType
<1>4. cap[h] \in Nat
  <2>1. 0 \in Nat
    OBVIOUS
  <2> QED
    BY <1>1, <2>1, Zenon
<1> QED
  BY <1>2, <1>3, <1>4

LEMMA HandleInv ==
  ASSUME LobbyAssumption, LobbyInv, NEW h \in Hosts, NEW r \in requests,
         \/ HandleJoin(h, r) \/ HandleLeave(h, r) \/ CheckPost(h, r)
         \/ HandleElsewhere(h, r)
  PROVE  LobbyInv'
<1> USE DEF hosting, joining, history
<1>1. /\ LobbyTypeOK /\ ShapeOK /\ AdmitOK /\ requests' \subseteq requests
      /\ r.from \in Members /\ r.call \in Nat /\ r.key \in 1 .. keys /\ keys \in Nat
      /\ UNCHANGED <<keys, key, cap, said, on, calls, call, roster, heard>>
  BY DEF LobbyInv, HandleJoin, HandleLeave, CheckPost, HandleElsewhere, LobbyTypeOK, LobbyAssumption
<1>2. \A kind \in {"joined", "refused", "left"} :
        Answer(kind, r.call) \in FrameType /\ Answer(kind, r.call).kind = kind
  BY <1>1 DEF Answer, FrameType
<1>3. ASSUME NEW f \in FrameType, f.kind # "relay", Send(h, r.from, f),
             UNCHANGED task, admitted \subseteq admitted', admitted' \subseteq Members \X (1 .. keys),
             members' \in [Hosts -> SUBSET Members],
             \A g \in Hosts : IsFiniteSet(members'[g]) /\ Cardinality(members'[g]) <= cap[g],
             \A g \in Hosts : \A n \in members'[g] : <<n, key[g]>> \in admitted',
             \A g \in Hosts : task[g].pc = "checked" => members'[g] \subseteq members[g]
      PROVE  LobbyInv'
  <2> PICK p \in Paths : To(p) = r.from /\ frames' = Sent(h, p, f)
    BY <1>3 DEF Send
  <2>1. frames' \in [Hosts -> [Paths -> Seq(FrameType)]]
    BY <1>1, <1>3, SentFrame
  <2>2. LobbyTypeOK'
    BY <1>1, <1>3 DEF LobbyTypeOK
  <2>3. ShapeOK'
    BY <1>1, <1>3, <2>1 DEF ShapeOK
  <2>4. \A g \in Hosts : TaskOK(g)'
    BY <1>1, <1>3 DEF AdmitOK, TaskOK
  <2>5. AdmitOK' /\ OrderOK'
    BY <1>1, <1>3, <2>4, AnswerInv
  <2> QED
    BY <2>2, <2>3, <2>5 DEF LobbyInv
<1>4. CASE HandleJoin(h, r)
  <2>1. /\ task[h].pc = "idle" /\ UNCHANGED task
        /\ \E kind \in {"joined", "refused"} : Send(h, r.from, Answer(kind, r.call))
    BY <1>4 DEF HandleJoin
  <2>2. /\ admitted \subseteq admitted' /\ admitted' \subseteq Members \X (1 .. keys)
        /\ members' \in [Hosts -> SUBSET Members]
        /\ \A g \in Hosts : g # h => members'[g] = members[g]
        /\ \A n \in members'[h] : <<n, key[h]>> \in admitted'
    <3>1. CASE UNCHANGED <<members, admitted>>
      BY <1>1, <3>1 DEF LobbyTypeOK, AdmitOK
    <3>2. CASE /\ key[h] = r.key /\ members' = [members EXCEPT ![h] = @ \cup {r.from}]
               /\ admitted' = admitted \cup {<<r.from, r.key>>}
      <4>1. members' \in [Hosts -> SUBSET Members] /\ members'[h] = members[h] \cup {r.from}
            /\ \A g \in Hosts : g # h => members'[g] = members[g]
        BY <1>1, <3>2 DEF LobbyTypeOK
      <4> QED
        BY <1>1, <3>2, <4>1 DEF LobbyTypeOK, AdmitOK
    <3> QED
      BY <1>4, <3>1, <3>2 DEF HandleJoin
  <2>3. IsFiniteSet(members'[h]) /\ Cardinality(members'[h]) <= cap[h]
    <3>1. /\ IsFiniteSet(members[h]) /\ Cardinality(members[h]) <= cap[h]
          /\ Cardinality(members[h]) \in Nat /\ cap[h] \in Nat
      BY <1>1, Seats
    <3>2. CASE members'[h] = members[h]
      BY <3>1, <3>2
    <3>3. CASE ~Full(h) /\ members'[h] = members[h] \cup {r.from}
      <4>1. /\ IsFiniteSet(members'[h])
            /\ \/ Cardinality(members'[h]) = Cardinality(members[h])
               \/ Cardinality(members'[h]) = Cardinality(members[h]) + 1
        <5> DEFINE S == members[h]
        <5>1. members'[h] = S \cup {r.from} /\ IsFiniteSet(S) /\ Cardinality(S) \in Nat
          BY <3>1, <3>3
        <5> HIDE DEF S
        <5>2. /\ IsFiniteSet(S \cup {r.from})
              /\ \/ Cardinality(S \cup {r.from}) = Cardinality(S)
                 \/ Cardinality(S \cup {r.from}) = Cardinality(S) + 1
          BY <5>1, FS_AddElement
        <5> QED
          BY <5>1, <5>2 DEF S
      <4>2. Cardinality(members[h]) < cap[h]
        BY <3>1, <3>3 DEF Full
      <4> QED
        BY <3>1, <4>1, <4>2
    <3> QED
      BY <1>1, <1>4, <3>2, <3>3 DEF HandleJoin, LobbyTypeOK
  <2>4. \A g \in Hosts : IsFiniteSet(members'[g]) /\ Cardinality(members'[g]) <= cap[g]
    BY <1>1, <2>2, <2>3 DEF ShapeOK, LobbyTypeOK
  <2>5. \A g \in Hosts : \A n \in members'[g] : <<n, key[g]>> \in admitted'
    BY <1>1, <2>2 DEF AdmitOK
  <2> QED
    BY <1>2, <1>3, <2>1, <2>2, <2>4, <2>5
<1>5. CASE HandleLeave(h, r)
  <2>1. /\ members' = [members EXCEPT ![h] = @ \ {r.from}]
        /\ Send(h, r.from, Answer("left", r.call))
        /\ UNCHANGED <<task, admitted>>
    BY <1>5 DEF HandleLeave
  <2>2. \A g \in Hosts : members'[g] \subseteq members[g]
    BY <1>1, <2>1 DEF LobbyTypeOK
  <2>3. \A g \in Hosts : IsFiniteSet(members'[g]) /\ Cardinality(members'[g]) <= cap[g]
    <3>1. ASSUME NEW g \in Hosts
          PROVE  IsFiniteSet(members'[g]) /\ Cardinality(members'[g]) <= Cardinality(members[g])
      BY <1>1, <2>2, FS_Subset DEF ShapeOK
    <3>2. ASSUME NEW g \in Hosts
          PROVE  Cardinality(members'[g]) \in Nat /\ Cardinality(members[g]) \in Nat
                 /\ cap[g] \in Nat /\ Cardinality(members[g]) <= cap[g]
      BY <1>1, <3>1, Seats, FS_CardinalityType
    <3> QED
      BY <3>1, <3>2
  <2> QED
    BY <1>1, <1>2, <1>3, <2>1, <2>2, <2>3 DEF LobbyTypeOK, AdmitOK
<1>6. CASE CheckPost(h, r)
  <2>1. UNCHANGED <<members, admitted>> /\ task[h].pc = "idle"
    BY <1>6 DEF CheckPost
  <2>2. CASE UNCHANGED task /\ Send(h, r.from, Answer("refused", r.call))
    BY <1>1, <1>2, <1>3, <2>1, <2>2 DEF LobbyTypeOK, ShapeOK, AdmitOK
  <2>3. CASE /\ KeyOk(h, r) /\ UNCHANGED frames
             /\ task' = [task EXCEPT ![h] = [NoTask EXCEPT !.pc = "checked",
                           !.from = r.from, !.call = r.call, !.key = r.key]]
    <3> DEFINE t == [NoTask EXCEPT !.pc = "checked", !.from = r.from, !.call = r.call,
                                   !.key = r.key]
    <3>1. t \in TaskType /\ t.pc = "checked" /\ t.from = r.from /\ t.key = r.key
      <4>1. NoTask \in TaskType
        BY DEF NoTask, TaskType
      <4>2. r.key \in Nat
        BY <1>1
      <4> QED
        BY <1>1, <4>1, <4>2 DEF TaskType
    <3> HIDE DEF t
    <3>2. /\ task' \in [Hosts -> TaskType] /\ task'[h] = t
          /\ \A g \in Hosts : g # h => task'[g] = task[g]
      BY <1>1, <2>3, <3>1 DEF ShapeOK, t
    <3>3. LobbyTypeOK'
      BY <1>1, <2>1 DEF LobbyTypeOK
    <3>4. ShapeOK'
      BY <1>1, <2>1, <2>3, <3>1, <3>2 DEF ShapeOK
    <3>5. \A g \in Hosts : TaskOK(g)'
      BY <1>1, <2>1, <2>3, <3>1, <3>2 DEF AdmitOK, TaskOK, KeyOk
    <3>6. AdmitOK'
      <4>1. UNCHANGED <<said, admitted, frames, heard, members, key>>
        BY <1>1, <2>1, <2>3
      <4>2. \A g \in Hosts, p \in Paths : Backed(frames[g][p], g, To(p))'
        BY <1>1, <4>1 DEF AdmitOK, Backed, To
      <4>3. \A n \in Members : Logged(heard[n], n)'
        BY <1>1, <4>1 DEF AdmitOK, Logged, KeyOf
      <4> QED
        BY <1>1, <3>5, <4>1, <4>2, <4>3 DEF AdmitOK
    <3>7. OrderOK'
      BY <1>1, <2>3, <3>1, <3>2 DEF LobbyInv, OrderOK, Ordered, After, Before, Apart, To
    <3> QED
      BY <3>3, <3>4, <3>6, <3>7 DEF LobbyInv
  <2> QED
    BY <1>6, <2>2, <2>3 DEF CheckPost
<1>7. CASE HandleElsewhere(h, r)
  <2>1. UNCHANGED <<task, members, admitted>>
    BY <1>7 DEF HandleElsewhere
  <2>2. \E kind \in {"refused", "left"} : Send(h, r.from, Answer(kind, r.call))
    <3>1. CASE r.kind = "leave"
      BY <1>7, <3>1 DEF HandleElsewhere
    <3>2. CASE r.kind # "leave"
      BY <1>7, <3>2 DEF HandleElsewhere
    <3> QED
      BY <3>1, <3>2
  <2> QED
    BY <1>1, <1>2, <1>3, <2>1, <2>2 DEF LobbyTypeOK, ShapeOK, AdmitOK
<1> QED
  BY <1>4, <1>5, <1>6, <1>7

(***************************************************************************)
(* The task of a Post                                                      *)
(***************************************************************************)
LEMMA LogPostInv ==
  ASSUME LobbyAssumption, LobbyInv, NEW h \in Hosts, LogPost(h) PROVE LobbyInv'
<1> USE DEF wire, joining, history
<1> DEFINE n == Len(said[h])
<1>1. /\ LobbyTypeOK /\ ShapeOK /\ AdmitOK /\ OrderOK /\ task[h].pc = "checked"
      /\ UNCHANGED <<keys, key, cap, members, requests, frames, on, calls, call, roster,
                     heard, admitted>>
  BY DEF LobbyInv, LogPost
<1>2. /\ said[h] \in Seq(1 .. keys) /\ n \in Nat /\ DOMAIN said[h] = 1 .. n
      /\ task[h] \in TaskType /\ task[h].key \in 1 .. keys /\ task[h].from \in Members
      /\ members[h] \subseteq Members
  BY <1>1 DEF LobbyTypeOK, ShapeOK
<1>3. /\ said' = [said EXCEPT ![h] = Append(@, task[h].key)]
      /\ said'[h] = Append(said[h], task[h].key)
      /\ said' \in [Hosts -> Seq(1 .. keys)]
      /\ \A g \in Hosts : g # h => said'[g] = said[g]
  BY <1>1, <1>2 DEF LogPost, LobbyTypeOK
<1>4. /\ DOMAIN said'[h] = 1 .. n + 1 /\ said'[h][n + 1] = task[h].key
      /\ \A k \in 1 .. n : said'[h][k] = said[h][k]
  BY <1>2, <1>3
<1>5. \A g \in Hosts : \A k \in DOMAIN said[g] :
        k \in DOMAIN said'[g] /\ said'[g][k] = said[g][k]
  BY <1>2, <1>3, <1>4
<1> HIDE DEF n
<1>6. PICK b \in BOOLEAN : task' = [task EXCEPT ![h] = [task[h] EXCEPT
        !.pc = "relaying", !.todo = members[h], !.pos = n + 1, !.member = b]]
  <2>1. CASE task[h].from \in members[h]
    <3>1. task' = [task EXCEPT ![h] = [task[h] EXCEPT
            !.pc = "relaying", !.todo = members[h], !.pos = n + 1, !.member = TRUE]]
      BY <2>1 DEF LogPost, n
    <3> QED
      BY <3>1
  <2>2. CASE task[h].from \notin members[h]
    <3>1. task' = [task EXCEPT ![h] = [task[h] EXCEPT
            !.pc = "relaying", !.todo = members[h], !.pos = n + 1, !.member = FALSE]]
      <4>1. (task[h].from \in members[h]) = FALSE
        BY <2>2
      <4> QED
        BY <4>1, Zenon DEF LogPost, n
    <3> QED
      BY <3>1
  <2> QED
    BY <2>1, <2>2
<1> DEFINE t == [task[h] EXCEPT !.pc = "relaying", !.todo = members[h], !.pos = n + 1,
                                !.member = b]
<1>7. /\ t \in TaskType /\ t.pc = "relaying" /\ t.todo = members[h] /\ t.pos = n + 1
      /\ t.from = task[h].from /\ t.key = task[h].key
  <2>1. n + 1 \in Nat
    BY <1>2
  <2>2. t \in TaskType
    BY <1>2, <2>1 DEF TaskType
  <2>3. /\ t.pc = "relaying" /\ t.todo = members[h] /\ t.pos = n + 1
        /\ t.from = task[h].from /\ t.key = task[h].key
    BY <1>2 DEF TaskType
  <2> QED
    BY <2>2, <2>3
<1> HIDE DEF t
<1>8. /\ task' \in [Hosts -> TaskType] /\ task'[h] = t
      /\ \A g \in Hosts : g # h => task'[g] = task[g]
  BY <1>1, <1>6, <1>7 DEF ShapeOK, t
<1>9. LobbyTypeOK'
  BY <1>1, <1>3 DEF LobbyTypeOK
<1>10. ShapeOK'
  BY <1>1, <1>2, <1>7, <1>8 DEF ShapeOK
<1>11. \A g \in Hosts : TaskOK(g)'
  <2>1. \A m \in members[h] : <<m, task[h].key>> \in admitted
    BY <1>1 DEF AdmitOK, TaskOK
  <2>2. TaskOK(h)'
    BY <1>1, <1>2, <1>4, <1>7, <1>8, <2>1 DEF TaskOK
  <2>3. ASSUME NEW g \in Hosts, g # h PROVE TaskOK(g)'
    BY <1>1, <1>3, <1>8, <2>3 DEF AdmitOK, TaskOK
  <2> QED
    BY <2>2, <2>3
<1>12. \A g \in Hosts, p \in Paths : Backed(frames[g][p], g, To(p))'
  BY <1>1, <1>5 DEF AdmitOK, Backed, To
<1>13. \A m \in Members : Logged(heard[m], m)'
  <2>1. ASSUME NEW m \in Members, NEW k \in DOMAIN heard[m] PROVE heard[m][k].host \in Hosts
    <3>1. heard[m] \in Seq(LogType)
      BY <1>1 DEF ShapeOK
    <3>2. k \in 1 .. Len(heard[m])
      BY <3>1, LenProperties
    <3>3. heard[m][k] \in LogType
      BY <3>1, <3>2, ElementOfSeq
    <3> QED
      BY <3>3 DEF LogType
  <2>2. ASSUME NEW m \in Members, NEW k \in DOMAIN heard[m]
        PROVE  /\ heard[m][k].pos \in DOMAIN said'[heard[m][k].host]
               /\ <<m, said'[heard[m][k].host][heard[m][k].pos]>> \in admitted
    <3>1. /\ heard[m][k].pos \in DOMAIN said[heard[m][k].host]
          /\ <<m, said[heard[m][k].host][heard[m][k].pos]>> \in admitted
      BY <1>1, <2>2 DEF AdmitOK, Logged, KeyOf
    <3> QED
      BY <1>5, <2>1, <3>1
  <2> QED
    BY <1>1, <2>2 DEF Logged, KeyOf
<1>14. AdmitOK'
  BY <1>1, <1>11, <1>12, <1>13 DEF AdmitOK
<1>15. OrderOK'
  <2>1. \A p \in Paths : Before(frames[h][p], heard[To(p)], h, n + 1)
    <3>1. \A k \in DOMAIN said[h] : k < n + 1
      BY <1>2
    <3>2. ASSUME NEW p \in Paths
          PROVE  \A i \in DOMAIN frames[h][p] : frames[h][p][i].kind = "relay" =>
                   frames[h][p][i].pos < n + 1
      BY <1>1, <3>1 DEF AdmitOK, Backed
    <3>3. ASSUME NEW m \in Members
          PROVE  \A k \in DOMAIN heard[m] : heard[m][k].host = h =>
                   heard[m][k].pos < n + 1
      BY <1>1, <3>1 DEF AdmitOK, Logged
    <3> QED
      BY <3>2, <3>3, PathsLead DEF Before
  <2>2. ASSUME NEW g \in Hosts, NEW p \in Paths, task'[g].pc = "relaying",
               To(p) \in task'[g].todo
        PROVE  Before(frames[g][p], heard[To(p)], g, task'[g].pos)
    BY <1>1, <1>7, <1>8, <2>1, <2>2 DEF OrderOK
  <2>3. /\ \A g \in Hosts, p \in Paths :
             Ordered(frames[g][p]) /\ After(frames[g][p], heard[To(p)], g, p)
        /\ \A g \in Hosts : \A p, r \in Paths : p # r /\ To(p) = To(r) =>
             Apart(frames[g][p], frames[g][r])
    BY <1>1 DEF OrderOK
  <2> QED
    BY <1>1, <2>2, <2>3 DEF OrderOK, Ordered, After, Before, Apart, To
<1> QED
  BY <1>9, <1>10, <1>14, <1>15 DEF LobbyInv

LEMMA ReplyPostedInv ==
  ASSUME LobbyAssumption, LobbyInv, NEW h \in Hosts, ReplyPosted(h) PROVE LobbyInv'
<1> USE DEF wire, joining, history
<1>1. /\ LobbyTypeOK /\ ShapeOK /\ AdmitOK /\ task[h].pc = "relaying"
      /\ task[h].from \in Members /\ task[h] \in TaskType
      /\ task' = [task EXCEPT ![h] = NoTask]
      /\ Send(h, task[h].from, Posted(task[h]))
      /\ UNCHANGED <<keys, key, cap, members, said, requests, on, calls, call, roster,
                     heard, admitted>>
  BY DEF LobbyInv, ReplyPosted, Relayed, ShapeOK
<1> PICK p \in Paths : To(p) = task[h].from /\ frames' = Sent(h, p, Posted(task[h]))
  BY <1>1 DEF Send
<1>2. Posted(task[h]) \in FrameType /\ Posted(task[h]).kind # "relay"
  BY <1>1 DEF Posted, FrameType, TaskType
<1>3. NoTask \in TaskType /\ NoTask.pc = "idle"
  BY DEF NoTask, TaskType
<1>4. LobbyTypeOK'
  BY <1>1 DEF LobbyTypeOK
<1>5. frames' \in [Hosts -> [Paths -> Seq(FrameType)]]
  BY <1>1, <1>2, SentFrame
<1>6. /\ task' \in [Hosts -> TaskType]
      /\ \A g \in Hosts : task'[g] = task[g] \/ task'[g].pc = "idle"
  BY <1>1, <1>3 DEF ShapeOK
<1>7. ShapeOK'
  BY <1>1, <1>5, <1>6 DEF ShapeOK
<1>8. \A g \in Hosts : TaskOK(g)'
  BY <1>1, <1>6 DEF AdmitOK, TaskOK
<1>9. AdmitOK' /\ OrderOK'
  <2>1. \A g \in Hosts : task'[g] = task[g] \/ task'[g].pc # "relaying"
    BY <1>6
  <2>2. \A g \in Hosts : \A n \in members'[g] : <<n, key'[g]>> \in admitted'
    BY <1>1 DEF AdmitOK
  <2> QED
    BY <1>1, <1>2, <1>8, <2>1, <2>2, AnswerInv
<1> QED
  BY <1>4, <1>7, <1>9 DEF LobbyInv

LEMMA RelayToInv ==
  ASSUME LobbyAssumption, LobbyInv, NEW h \in Hosts, NEW m \in Members, RelayTo(h, m)
  PROVE  LobbyInv'
<1> USE DEF joining
<1>0. PICK p \in Paths : To(p) = m /\ frames' = Sent(h, p, Relay(task[h].key, task[h].pos))
  BY DEF RelayTo, Send
<1> DEFINE f == Relay(task[h].key, task[h].pos)
<1> DEFINE q == frames[h][p]
<1>1. /\ LobbyTypeOK /\ ShapeOK /\ AdmitOK /\ OrderOK
      /\ task[h].pc = "relaying" /\ m \in task[h].todo /\ task[h] \in TaskType
      /\ task' = [task EXCEPT ![h].todo = @ \ {m}] /\ frames' = Sent(h, p, f)
      /\ q \in Seq(FrameType)
      /\ UNCHANGED <<keys, key, cap, members, said, requests, on, calls, call, roster,
                     heard, admitted>>
  BY <1>0 DEF LobbyInv, RelayTo, ShapeOK
<1>2. f \in FrameType /\ f.kind = "relay" /\ f.pos = task[h].pos /\ f.key = task[h].key
  BY <1>1 DEF Relay, FrameType, TaskType
<1> HIDE DEF f, q
<1>3. /\ frames' \in [Hosts -> [Paths -> Seq(FrameType)]]
      /\ frames'[h][p] = Append(q, f)
      /\ \A g \in Hosts, n \in Paths : g # h \/ n # p => frames'[g][n] = frames[g][n]
  BY <1>1, <1>2, SentFrame DEF q
<1>4. /\ DOMAIN q = 1 .. Len(q) /\ Len(q) \in Nat
      /\ DOMAIN Append(q, f) = 1 .. Len(q) + 1 /\ Append(q, f)[Len(q) + 1] = f
      /\ \A i \in DOMAIN Append(q, f) :
           i = Len(q) + 1 \/ (i \in DOMAIN q /\ Append(q, f)[i] = q[i])
  BY <1>1, <1>2
<1>5. [task[h] EXCEPT !.todo = @ \ {m}] \in TaskType
  BY <1>1 DEF TaskType
<1>6. /\ task' \in [Hosts -> TaskType]
      /\ task'[h].pc = task[h].pc /\ task'[h].pos = task[h].pos
      /\ task'[h].key = task[h].key /\ task'[h].from = task[h].from
      /\ task'[h].todo = task[h].todo \ {m}
      /\ \A g \in Hosts : g # h => task'[g] = task[g]
  BY <1>1, <1>5 DEF ShapeOK, TaskType
<1>7. LobbyTypeOK'
  BY <1>1 DEF LobbyTypeOK
<1>8. ShapeOK'
  <2>1. \A g \in Hosts : task'[g].pc # "idle" =>
          task'[g].from \in Members /\ task'[g].key \in 1 .. keys
    BY <1>1, <1>6 DEF ShapeOK
  <2> QED
    BY <1>1, <1>3, <1>6, <2>1 DEF ShapeOK
<1>9. \A g \in Hosts : TaskOK(g)'
  <2>1. TaskOK(h)'
    BY <1>1, <1>6 DEF AdmitOK, TaskOK
  <2>2. ASSUME NEW g \in Hosts, g # h PROVE TaskOK(g)'
    BY <1>1, <1>6, <2>2 DEF AdmitOK, TaskOK
  <2> QED
    BY <2>1, <2>2
<1>10. \A g \in Hosts, n \in Paths : Backed(frames[g][n], g, To(n))'
  <2>1. /\ f.pos \in DOMAIN said[h] /\ said[h][f.pos] = f.key
        /\ <<m, f.key>> \in admitted
    BY <1>1, <1>2 DEF AdmitOK, TaskOK
  <2>2. Backed(Append(q, f), h, m)
    <3>1. Backed(q, h, m)
      BY <1>0, <1>1 DEF AdmitOK, q
    <3> QED
      BY <1>4, <2>1, <3>1 DEF Backed
  <2>3. \A g \in Hosts, n \in Paths : Backed(frames'[g][n], g, To(n))
    BY <1>0, <1>1, <1>3, <2>2 DEF AdmitOK
  <2>4. UNCHANGED <<said, admitted>>
    BY <1>1
  <2> QED
    BY <2>3, <2>4 DEF Backed, To
<1>11. AdmitOK'
  BY <1>1, <1>9, <1>10 DEF AdmitOK, Logged, KeyOf
<1>12. Ordered(Append(q, f)) /\ After(Append(q, f), heard[m], h, p)
  <2>1. Before(q, heard[m], h, f.pos) /\ Ordered(q) /\ After(q, heard[m], h, p)
    BY <1>0, <1>1, <1>2 DEF OrderOK, q
  <2>2. Ordered(Append(q, f))
    BY <1>4, <2>1 DEF Ordered, Before
  <2>3. /\ \A k \in DOMAIN heard[m] : heard[m][k].host = h => heard[m][k].pos < f.pos
        /\ \A k \in DOMAIN heard[m] : heard[m][k].pos \in Nat
        /\ f.pos \in Nat
    <3>1. heard[m] \in Seq(LogType)
      BY <1>1 DEF ShapeOK
    <3>2. \A k \in DOMAIN heard[m] : heard[m][k] \in LogType
      BY <3>1
    <3> QED
      BY <1>2, <2>1, <3>2 DEF Before, LogType, FrameType
  <2>4. \A k \in DOMAIN heard[m] : heard[m][k].host = h =>
          heard[m][k].pos # f.pos /\ heard[m][k].pos < f.pos
    BY <2>3
  <2>5. After(Append(q, f), heard[m], h, p)
    BY <1>4, <2>1, <2>4 DEF After
  <2> QED
    BY <2>2, <2>5
<1>13. ASSUME NEW r \in Paths, r # p, To(r) = m
       PROVE  Apart(Append(q, f), frames[h][r])
  <2>1. Before(frames[h][r], heard[m], h, f.pos) /\ Apart(q, frames[h][r])
    BY <1>0, <1>1, <1>2, <1>13 DEF OrderOK, q
  <2>2. /\ \A i \in DOMAIN frames[h][r] : frames[h][r][i].pos \in Nat
        /\ f.pos \in Nat
    <3>1. frames[h][r] \in Seq(FrameType)
      BY <1>1 DEF ShapeOK
    <3>2. \A i \in DOMAIN frames[h][r] : frames[h][r][i] \in FrameType
      BY <3>1
    <3> QED
      BY <1>2, <3>2 DEF FrameType
  <2>3. \A i \in DOMAIN frames[h][r] : frames[h][r][i].kind = "relay" =>
          f.pos # frames[h][r][i].pos
    BY <2>1, <2>2 DEF Before
  <2> QED
    BY <1>4, <2>1, <2>3 DEF Apart
<1>14. ASSUME NEW g \in Hosts, NEW n \in Paths
       PROVE  /\ Ordered(frames'[g][n]) /\ After(frames'[g][n], heard[To(n)], g, n)
              /\ task'[g].pc = "relaying" /\ To(n) \in task'[g].todo =>
                   Before(frames'[g][n], heard[To(n)], g, task'[g].pos)
  <2>1. CASE g = h /\ n = p
    BY <1>0, <1>3, <1>6, <1>12, <2>1
  <2>2. CASE g # h \/ n # p
    <3>1. frames'[g][n] = frames[g][n]
      BY <1>3, <2>2
    <3>2. /\ task'[g].pc = task[g].pc /\ task'[g].pos = task[g].pos
          /\ task'[g].todo \subseteq task[g].todo
      BY <1>6
    <3> QED
      BY <1>1, <3>1, <3>2 DEF OrderOK
  <2> QED
    BY <2>1, <2>2
<1>15. ASSUME NEW g \in Hosts, NEW r \in Paths, NEW n \in Paths, r # n, To(r) = To(n)
       PROVE  Apart(frames'[g][r], frames'[g][n])
  <2>1. CASE g = h /\ r = p
    BY <1>0, <1>3, <1>13, <1>15, <2>1
  <2>2. CASE g = h /\ n = p
    <3>1. Apart(frames'[g][n], frames'[g][r])
      BY <1>0, <1>3, <1>13, <1>15, <2>2
    <3> QED
      BY <3>1, ApartBoth
  <2>3. CASE g # h \/ (r # p /\ n # p)
    BY <1>1, <1>3, <1>15, <2>3 DEF OrderOK
  <2> QED
    BY <2>1, <2>2, <2>3
<1>16. OrderOK'
  <2>1. UNCHANGED heard
    BY <1>1
  <2>2. \A g \in Hosts, n \in Paths :
          /\ Ordered(frames[g][n])' /\ After(frames[g][n], heard[To(n)], g, n)'
          /\ task'[g].pc = "relaying" /\ To(n) \in task'[g].todo =>
               Before(frames[g][n], heard[To(n)], g, task[g].pos)'
    BY <1>14, <2>1 DEF Ordered, After, Before, To
  <2>3. \A g \in Hosts : \A r, n \in Paths : r # n /\ To(r) = To(n) =>
          Apart(frames[g][r], frames[g][n])'
    BY <1>15 DEF Apart, To
  <2> QED
    BY <2>2, <2>3 DEF OrderOK, To
<1> QED
  BY <1>7, <1>8, <1>11, <1>16 DEF LobbyInv

(***************************************************************************)
(* A frame leaves its queue                                                *)
(***************************************************************************)
\* A queue that loses a frame.
LEMMA OneQueueLess ==
  ASSUME OrderOK, NEW h \in Hosts, NEW p \in Paths, NEW i \in DOMAIN frames[h][p],
         frames[h][p] \in Seq(FrameType), frames'[h][p] = Without(frames[h][p], i),
         \A g \in Hosts, r \in Paths : g # h \/ r # p => frames'[g][r] = frames[g][r],
         UNCHANGED task
  PROVE  /\ \A g, m : Backed(frames[h][p], g, m) => Backed(frames'[h][p], g, m)
         /\ OrderOf(frames', task', heard)
<1> DEFINE q == frames[h][p]
<1>1. q \in Seq(FrameType) /\ frames'[h][p] = Without(q, i) /\ i \in DOMAIN q
  OBVIOUS
<1> HIDE DEF q
<1>2. /\ \A g, m : Backed(q, g, m) => Backed(Without(q, i), g, m)
      /\ Ordered(q) => Ordered(Without(q, i))
      /\ \A l, g, r : After(q, l, g, r) => After(Without(q, i), l, g, r)
      /\ \A l, g, m : Before(q, l, g, m) => Before(Without(q, i), l, g, m)
      /\ \A r : Apart(q, r) => Apart(Without(q, i), r)
  BY <1>1, WithoutKeeps
<1>3. Ordered(frames'[h][p]) /\ After(frames'[h][p], heard[To(p)], h, p)
  BY <1>1, <1>2 DEF OrderOK, q
<1>4. \A m : Before(frames[h][p], heard[To(p)], h, m) =>
             Before(frames'[h][p], heard[To(p)], h, m)
  BY <1>1, <1>2 DEF q
<1>5. \A r : Apart(frames[h][p], r) => Apart(frames'[h][p], r)
  BY <1>1, <1>2 DEF q
<1>6. \A g \in Hosts : task'[g] = task[g] \/ task'[g].pc # "relaying"
  OBVIOUS
<1>7. OrderOf(frames', task', heard)
  BY <1>3, <1>4, <1>5, <1>6, OneQueue
<1> QED
  BY <1>1, <1>2, <1>7 DEF q

\* Whatever one queue loses, the rest of the invariant stays.
LEMMA DroppedInv ==
  ASSUME LobbyAssumption, LobbyInv, NEW h \in Hosts, NEW p \in Paths,
         NEW i \in DOMAIN frames[h][p],
         frames' = [frames EXCEPT ![h][p] = Without(@, i)], UNCHANGED task
  PROVE  /\ frames' \in [Hosts -> [Paths -> Seq(FrameType)]]
         /\ frames'[h][p] = Without(frames[h][p], i)
         /\ \A g \in Hosts, r \in Paths : g # h \/ r # p => frames'[g][r] = frames[g][r]
         /\ \A g \in Hosts, r \in Paths : Backed(frames'[g][r], g, To(r))
         /\ OrderOf(frames', task', heard)
         /\ UNCHANGED heard => OrderOK'
<1>1. ShapeOK /\ AdmitOK /\ OrderOK /\ frames[h][p] \in Seq(FrameType)
  BY DEF LobbyInv, ShapeOK
<1>2. Without(frames[h][p], i) \in Seq(FrameType)
  BY <1>1, WithoutFrame
<1>3. /\ frames' \in [Hosts -> [Paths -> Seq(FrameType)]]
      /\ frames'[h][p] = Without(frames[h][p], i)
      /\ \A g \in Hosts, r \in Paths : g # h \/ r # p => frames'[g][r] = frames[g][r]
  BY <1>1, <1>2 DEF ShapeOK
<1>4. /\ \A g, m : Backed(frames[h][p], g, m) => Backed(frames'[h][p], g, m)
      /\ OrderOf(frames', task', heard) /\ (UNCHANGED heard => OrderOK')
  <2>1. /\ \A g, m : Backed(frames[h][p], g, m) => Backed(frames'[h][p], g, m)
        /\ OrderOf(frames', task', heard)
    BY <1>1, <1>3, OneQueueLess, ZenonT(60)
  <2>2. UNCHANGED heard => OrderOf(frames', task', heard')
    BY <2>1
  <2> QED
    BY <2>1, <2>2, OrderOfIsOK
<1>5. \A g \in Hosts, r \in Paths : Backed(frames'[g][r], g, To(r))
  BY <1>1, <1>3, <1>4 DEF AdmitOK
<1> QED
  BY <1>3, <1>4, <1>5

LEMMA LoseFrameInv ==
  ASSUME LobbyAssumption, LobbyInv, NEW h \in Hosts, NEW p \in Paths,
         NEW i \in DOMAIN frames[h][p], LoseFrame(h, p, i)
  PROVE  LobbyInv'
<1> USE DEF hosting, joining
<1>1. /\ LobbyTypeOK /\ ShapeOK /\ AdmitOK
      /\ frames' = [frames EXCEPT ![h][p] = Without(@, i)]
      /\ UNCHANGED <<keys, key, cap, members, task, said, requests, on, calls, call,
                     roster, heard, admitted>>
  BY DEF LobbyInv, LoseFrame
<1>2. /\ frames' \in [Hosts -> [Paths -> Seq(FrameType)]]
      /\ \A g \in Hosts, r \in Paths : Backed(frames'[g][r], g, To(r))
      /\ OrderOK'
  BY <1>1, DroppedInv
<1>3. LobbyTypeOK' /\ ShapeOK'
  BY <1>1, <1>2 DEF LobbyTypeOK, ShapeOK
<1>4. AdmitOK'
  <2>1. \A g \in Hosts : TaskOK(g)'
    BY <1>1 DEF AdmitOK, TaskOK
  <2>2. \A g \in Hosts : \A n \in members'[g] : <<n, key'[g]>> \in admitted'
    BY <1>1 DEF AdmitOK
  <2>3. \A g \in Hosts, r \in Paths : Backed(frames[g][r], g, To(r))'
    <3>1. UNCHANGED <<said, admitted>>
      BY <1>1
    <3> QED
      BY <1>2, <3>1 DEF Backed, To
  <2>4. \A n \in Members : Logged(heard[n], n)'
    BY <1>1 DEF AdmitOK, Logged, KeyOf
  <2> QED
    BY <2>1, <2>2, <2>3, <2>4 DEF AdmitOK
<1> QED
  BY <1>2, <1>3, <1>4 DEF LobbyInv

\* A relay that is logged is the next of its path, and on no other.
LEMMA PumpInv ==
  ASSUME LobbyAssumption, LobbyInv, NEW h \in Hosts, NEW p \in Paths, Pump(h, p)
  PROVE  LobbyInv'
<1> USE DEF hosting
<1> DEFINE q == frames[h][p]
<1> DEFINE f == Head(q)
<1> DEFINE s == Session[p]
<1> DEFINE m == To(p)
<1>1. /\ LobbyTypeOK /\ ShapeOK /\ AdmitOK /\ OrderOK /\ q # <<>>
      /\ frames' = [frames EXCEPT ![h][p] = Tail(@)] /\ q \in Seq(FrameType)
      /\ s \in Sessions /\ m \in Members
      /\ UNCHANGED <<keys, key, cap, members, task, said, requests, on, calls, roster,
                     admitted>>
  BY PathsLead DEF LobbyInv, Pump, ShapeOK
<1>2. 1 \in DOMAIN q /\ f = q[1] /\ Tail(q) = Without(q, 1) /\ f \in FrameType
  BY <1>1, TailFrame, HeadTailProperties
<1>3. frames' = [frames EXCEPT ![h][p] = Without(@, 1)]
  <2>1. frames' = [frames EXCEPT ![h] = [@ EXCEPT ![p] = Tail(q)]]
    BY <1>1
  <2> QED
    BY <1>2, <2>1
<1>4. /\ frames' \in [Hosts -> [Paths -> Seq(FrameType)]]
      /\ frames'[h][p] = Without(q, 1)
      /\ \A g \in Hosts, r \in Paths : g # h \/ r # p => frames'[g][r] = frames[g][r]
      /\ \A g \in Hosts, r \in Paths : Backed(frames'[g][r], g, To(r))
      /\ OrderOf(frames', task', heard)
      /\ UNCHANGED heard => OrderOK'
  <2>1. 1 \in DOMAIN frames[h][p] /\ UNCHANGED task
    BY <1>1, <1>2
  <2> HIDE DEF q, f, s, m
  <2>2. /\ frames' \in [Hosts -> [Paths -> Seq(FrameType)]]
        /\ frames'[h][p] = Without(frames[h][p], 1)
        /\ \A g \in Hosts, r \in Paths : g # h \/ r # p => frames'[g][r] = frames[g][r]
        /\ \A g \in Hosts, r \in Paths : Backed(frames'[g][r], g, To(r))
        /\ OrderOf(frames', task', heard)
        /\ UNCHANGED heard => OrderOK'
    BY <1>3, <2>1, DroppedInv
  <2> QED
    BY <2>1, <2>2 DEF q
<1>5. /\ call' \in [Sessions -> CallType]
      /\ \A n \in Sessions : call'[n].status # "idle" =>
           call'[n].host \in Hosts /\ call'[n].key \in 1 .. keys
  <2>1. CASE UNCHANGED call
    BY <1>1, <2>1 DEF ShapeOK
  <2>2. CASE /\ Awaited(s, f) /\ f.kind # "relay"
             /\ call' = [call EXCEPT ![s] =
                  [@ EXCEPT !.status = f.kind, !.pos = f.pos, !.member = f.member,
                            !.path = p]]
    <3> HIDE DEF f, s
    <3> DEFINE c == [call[s] EXCEPT !.status = f.kind, !.pos = f.pos, !.member = f.member,
                                    !.path = p]
    <3>1. call[s] \in CallType /\ call[s].status = "waiting"
      BY <1>1, <2>2 DEF ShapeOK, Awaited
    <3>2. c \in CallType /\ c.host = call[s].host /\ c.key = call[s].key
      BY <1>2, <2>2, <3>1 DEF CallType, FrameType
    <3> HIDE DEF c
    <3>3. call' \in [Sessions -> CallType] /\ call'[s] = c
          /\ \A n \in Sessions : n # s => call'[n] = call[n]
      BY <1>1, <2>2, <3>2 DEF ShapeOK, c
    <3> QED
      BY <1>1, <3>1, <3>2, <3>3 DEF ShapeOK
  <2>3. CASE f.kind # "relay" /\ ~Awaited(s, f) /\ call' = [call EXCEPT ![s] = call[s]]
    BY <1>1, <2>3 DEF ShapeOK
  <2> QED
    BY <2>1, <2>2, <2>3 DEF Pump
<1> HIDE DEF f, q, s
<1>6. LobbyTypeOK'
  BY <1>1 DEF LobbyTypeOK
<1>7. /\ Backed(q, h, m) /\ Ordered(q) /\ After(q, heard[m], h, p)
      /\ task[h].pc = "relaying" /\ m \in task[h].todo => Before(q, heard[m], h, task[h].pos)
      /\ \A r \in Paths : r # p /\ To(r) = m => Apart(q, frames[h][r])
  BY <1>1 DEF AdmitOK, OrderOK, q
<1> HIDE DEF m
<1>8. UNCHANGED <<task, members, key, said, admitted>>
  BY <1>1
<1>9. /\ \A g \in Hosts : TaskOK(g)'
      /\ \A g \in Hosts : \A n \in members'[g] : <<n, key'[g]>> \in admitted'
      /\ \A g \in Hosts, r \in Paths : Backed(frames[g][r], g, To(r))'
  <2>1. \A g \in Hosts : TaskOK(g)'
    BY <1>1, <1>8 DEF AdmitOK, TaskOK
  <2>2. \A g \in Hosts : \A n \in members'[g] : <<n, key'[g]>> \in admitted'
    BY <1>1, <1>8 DEF AdmitOK
  <2>3. \A g \in Hosts, r \in Paths : Backed(frames[g][r], g, To(r))'
    BY <1>4, <1>8 DEF Backed, To
  <2> QED
    BY <2>1, <2>2, <2>3
<1>10. CASE UNCHANGED heard
  <2>1. ShapeOK'
    BY <1>1, <1>4, <1>5, <1>10 DEF ShapeOK
  <2>2. \A n \in Members : Logged(heard[n], n)'
    BY <1>1, <1>8, <1>10 DEF AdmitOK, Logged, KeyOf
  <2>3. AdmitOK'
    BY <1>9, <2>2 DEF AdmitOK
  <2> QED
    BY <1>4, <1>6, <1>10, <2>1, <2>3 DEF LobbyInv
<1>11. CASE f.kind = "relay" /\ heard' = [heard EXCEPT ![m] = Append(@, Post(h, f.pos, p))]
  <2> DEFINE l == heard[m]
  <2> DEFINE e == Post(h, f.pos, p)
  <2>1. e \in LogType /\ e.host = h /\ e.pos = f.pos /\ e.path = p /\ f.pos \in Nat
    BY <1>2 DEF Post, FrameType, LogType
  <2>2. l \in Seq(LogType)
    BY <1>1 DEF ShapeOK
  <2> HIDE DEF e, l
  <2>3. /\ DOMAIN l = 1 .. Len(l) /\ Len(l) \in Nat
        /\ DOMAIN Append(l, e) = 1 .. Len(l) + 1 /\ Append(l, e)[Len(l) + 1] = e
        /\ \A k \in DOMAIN Append(l, e) :
             Append(l, e)[k] = e \/ (k \in DOMAIN l /\ Append(l, e)[k] = l[k])
    BY <2>1, <2>2
  <2>4. /\ heard' \in [Members -> Seq(LogType)]
        /\ heard'[m] = Append(l, e)
        /\ \A n \in Members : n # m => heard'[n] = heard[n]
    BY <1>1, <1>11, <2>1, <2>2 DEF ShapeOK, l, e
  <2>5. ShapeOK'
    BY <1>1, <1>4, <1>5, <2>4 DEF ShapeOK
  <2>6. /\ e.pos \in DOMAIN said[e.host] /\ <<m, KeyOf(e)>> \in admitted
    BY <1>2, <1>7, <1>11, <2>1 DEF Backed, KeyOf
  <2>7. \A n \in Members : Logged(heard'[n], n)
    <3>1. Logged(l, m)
      BY <1>1 DEF AdmitOK, l
    <3>2. Logged(Append(l, e), m)
      BY <2>3, <2>6, <3>1 DEF Logged
    <3> QED
      BY <1>1, <2>4, <3>2 DEF AdmitOK
  <2>8. AdmitOK'
    <3>1. \A n \in Members : Logged(heard[n], n)'
      BY <1>8, <2>7 DEF Logged, KeyOf
    <3> QED
      BY <1>9, <3>1 DEF AdmitOK
  <2>9. ASSUME NEW r \in Paths, To(r) = m
        PROVE  \A i \in DOMAIN frames'[h][r] : frames'[h][r][i].kind = "relay" =>
                 frames'[h][r][i].pos # e.pos /\ (r = p => e.pos < frames'[h][r][i].pos)
    <3>1. CASE r = p
      <4>1. /\ DOMAIN Without(q, 1) = 1 .. Len(q) - 1
            /\ \A j \in 1 .. Len(q) - 1 :
                 Without(q, 1)[j] = IF j < 1 THEN q[j] ELSE q[j + 1]
        BY <1>1, <1>2, WithoutFrame, SMTT(30) DEF q
      <4>2. Len(q) \in Nat /\ DOMAIN q = 1 .. Len(q) /\ \A j \in DOMAIN q : q[j] \in FrameType
        BY <1>1 DEF q
      <4>3. \A j \in DOMAIN Without(q, 1) :
              /\ Without(q, 1)[j] = q[j + 1] /\ j + 1 \in DOMAIN q /\ 1 < j + 1
        BY <4>1, <4>2
      <4>4. \A j \in DOMAIN Without(q, 1) : Without(q, 1)[j].kind = "relay" =>
              f.pos < Without(q, 1)[j].pos /\ Without(q, 1)[j].pos \in Nat
        BY <1>2, <1>7, <1>11, <4>2, <4>3 DEF Ordered, FrameType
      <4>5. \A j \in DOMAIN Without(q, 1) : Without(q, 1)[j].kind = "relay" =>
              Without(q, 1)[j].pos # f.pos
        BY <2>1, <4>4
      <4> QED
        BY <1>4, <2>1, <3>1, <4>4, <4>5
    <3>2. CASE r # p
      <4>1. frames'[h][r] = frames[h][r] /\ Apart(q, frames[h][r])
        BY <1>4, <1>7, <2>9, <3>2
      <4> QED
        BY <1>2, <1>11, <2>1, <3>2, <4>1 DEF Apart
    <3> QED
      BY <3>1, <3>2
  <2>10. task[h].pc = "relaying" /\ m \in task[h].todo => e.pos < task[h].pos
    BY <1>2, <1>7, <1>11, <2>1 DEF Before
  <2>11. ASSUME NEW g \in Hosts, NEW r \in Paths
         PROVE  /\ After(frames'[g][r], heard'[To(r)], g, r)
                /\ task[g].pc = "relaying" /\ To(r) \in task[g].todo =>
                     Before(frames'[g][r], heard'[To(r)], g, task[g].pos)
    <3>1. /\ After(frames'[g][r], heard[To(r)], g, r)
          /\ task[g].pc = "relaying" /\ To(r) \in task[g].todo =>
               Before(frames'[g][r], heard[To(r)], g, task[g].pos)
          /\ To(r) \in Members
      BY <1>4, <1>8, PathsLead DEF OrderOf
    <3>2. CASE To(r) # m
      BY <2>4, <3>1, <3>2
    <3>3. CASE To(r) = m /\ g # h
      <4>1. After(frames'[g][r], Append(l, e), g, r)
        BY <2>1, <2>3, <3>1, <3>3 DEF After, l
      <4>2. task[g].pc = "relaying" /\ m \in task[g].todo =>
              Before(frames'[g][r], Append(l, e), g, task[g].pos)
        BY <2>1, <2>3, <3>1, <3>3 DEF Before, l
      <4> QED
        BY <2>4, <3>3, <4>1, <4>2
    <3>4. CASE To(r) = m /\ g = h
      <4>1. After(frames'[h][r], Append(l, e), h, r)
        <5>1. After(frames'[h][r], l, h, r)
          BY <3>1, <3>4 DEF l
        <5>2. \A i \in DOMAIN frames'[h][r] : frames'[h][r][i].kind = "relay" =>
                e.pos # frames'[h][r][i].pos /\
                (e.path = r => e.pos < frames'[h][r][i].pos)
          BY <2>1, <2>9, <3>4
        <5> QED
          BY <2>3, <5>1, <5>2 DEF After
      <4>2. task[h].pc = "relaying" /\ m \in task[h].todo =>
              Before(frames'[h][r], Append(l, e), h, task[h].pos)
        BY <2>3, <2>10, <3>1, <3>4 DEF Before, l
      <4> QED
        BY <2>4, <3>4, <4>1, <4>2
    <3> QED
      BY <3>2, <3>3, <3>4
  <2>12. OrderOK'
    <3>1. OrderOf(frames', task', heard')
      BY <1>4, <1>8, <2>11 DEF OrderOf
    <3> QED
      BY <3>1, OrderOfIsOK
  <2> QED
    BY <1>6, <2>5, <2>8, <2>12 DEF LobbyInv
<1>12. CASE heard' = [heard EXCEPT ![m] = heard[m]]
  <2>1. UNCHANGED heard
    BY <1>1, <1>12 DEF ShapeOK
  <2> QED
    BY <1>10, <2>1
<1> QED
  BY <1>10, <1>11, <1>12 DEF Pump, f, q, s, m

(***************************************************************************)
(* Where a relay is: in the log of the member, under way, or missed; and a *)
(* poster hears its own post before the answer                             *)
(***************************************************************************)
\* Host h was asked call n, if any command waits for the answer to it.
Asked(h, n) ==
  /\ n <= calls
  /\ \A s \in Sessions : call[s].status = "waiting" /\ call[s].n = n => call[s].host = h

AnswersOK ==
  /\ \A s \in Sessions : call[s].status = "waiting" => call[s].n <= calls
  /\ \A r \in requests : Asked(r.host, r.call)
  /\ \A h \in Hosts : task[h].pc # "idle" => Asked(h, task[h].call)
  /\ \A h \in Hosts, p \in Paths : \A i \in DOMAIN frames[h][p] :
       frames[h][p][i].kind # "relay" => Asked(h, frames[h][p][i].call)

\* A post is relayed to a member once, and to its poster before the answer.
RelayedOK ==
  /\ {relayed, missed} \subseteq [Members -> SUBSET (Hosts \X Nat)]
  /\ \A m \in Members : \A x \in relayed[m] : x[2] \in DOMAIN said[x[1]]
  /\ \A h \in Hosts : task[h].pc = "relaying" =>
       /\ \A m \in task[h].todo : <<h, task[h].pos>> \notin relayed[m]
       /\ task[h].member => \/ task[h].from \in task[h].todo
                            \/ <<h, task[h].pos>> \in relayed[task[h].from]

\* The answer "posted" is sent when the relay was, and overtakes it on no path.
Answered(q, h, m) ==
  \A j \in DOMAIN q : q[j].kind = "posted" /\ q[j].member =>
    /\ <<h, q[j].pos>> \in relayed[m]
    /\ \A i \in DOMAIN q : q[i].kind = "relay" /\ q[i].pos = q[j].pos => i < j

PostsAnswered == \A h \in Hosts, p \in Paths : Answered(frames[h][p], h, To(p))

Returned(s) ==
  call[s].status = "posted" /\ call[s].member =>
    /\ <<call[s].host, call[s].pos>> \in relayed[Home[s]]
    /\ call[s].path \in Paths /\ To(call[s].path) = Home[s]
    /\ ~InFlight(call[s].host, call[s].path, call[s].pos)

HeardInv ==
  /\ AnswersOK /\ RelayedOK /\ PostsAnswered
  /\ \A s \in Sessions : Returned(s)
  /\ RelaysConserved

LEMMA HeardInit ==
  ASSUME LobbyAssumption, LobbyInit PROVE HeardInv
<1> USE DEF LobbyInit
<1>1. \A h \in Hosts, p \in Paths : DOMAIN frames[h][p] = {}
  OBVIOUS
<1>2. AnswersOK /\ RelayedOK
  BY <1>1 DEF AnswersOK, RelayedOK, NoTask, NoCall
<1>3. PostsAnswered /\ RelaysConserved
  BY <1>1 DEF PostsAnswered, Answered, RelaysConserved
<1>4. \A s \in Sessions : Returned(s)
  BY DEF Returned, NoCall
<1> QED
  BY <1>2, <1>3, <1>4 DEF HeardInv

\* Nothing is asked of another host by a step that starts no call.
LEMMA AskedStays ==
  ASSUME UNCHANGED calls,
         \A s \in Sessions : call'[s] = call[s] \/ call'[s].status # "waiting",
         NEW h, NEW n, Asked(h, n)
  PROVE  Asked(h, n)'
  BY DEF Asked

\* Steps that leave frames, logs and relays alone.
LEMMA HeardQuiet ==
  ASSUME LobbyInv, HeardInv, UNCHANGED <<frames, heard, said, relayed, missed>>,
         \A h \in Hosts :
           \/ task'[h] = task[h] \/ task'[h].pc = "idle"
           \/ task'[h].pc = "checked" /\ Asked(h, task[h].call)',
         \A h : \A n \in Nat : Asked(h, n) => Asked(h, n)',
         \A r \in requests' : r \in requests \/ Asked(r.host, r.call)',
         \A s \in Sessions : call'[s] = call[s] \/ call'[s].status # "posted",
         \A s \in Sessions : call'[s].status = "waiting" => call'[s].n <= calls'
  PROVE  HeardInv'
<1>1. AnswersOK'
  <2>1. AnswersOK /\ ShapeOK /\ LobbyTypeOK
    BY DEF HeardInv, LobbyInv
  <2>2. ASSUME NEW r \in requests' PROVE Asked(r.host, r.call)'
    <3>1. CASE r \in requests
      <4>1. Asked(r.host, r.call) /\ r.call \in Nat
        BY <2>1, <3>1 DEF AnswersOK, LobbyTypeOK
      <4> QED
        BY <4>1
    <3> QED
      BY <2>2, <3>1
  <2>3. ASSUME NEW h \in Hosts, task'[h].pc # "idle" PROVE Asked(h, task[h].call)'
    <3>1. CASE task'[h] = task[h]
      <4>1. Asked(h, task[h].call) /\ task[h].call \in Nat
        BY <2>1, <2>3, <3>1 DEF AnswersOK, ShapeOK, TaskType
      <4>2. PICK n \in Nat : n = task[h].call /\ n = task'[h].call
        BY <3>1, <4>1
      <4>3. Asked(h, n)'
        BY <4>1, <4>2
      <4> QED
        BY <4>2, <4>3 DEF Asked
    <3>2. CASE task'[h].pc = "checked" /\ Asked(h, task[h].call)'
      BY <3>2 DEF Asked
    <3> QED
      BY <2>3, <3>1, <3>2
  <2>4. ASSUME NEW h \in Hosts, NEW p \in Paths, NEW i \in DOMAIN frames[h][p],
               frames[h][p][i].kind # "relay"
        PROVE  Asked(h, frames[h][p][i].call)'
    <3>1. frames[h][p] \in Seq(FrameType)
      BY <2>1 DEF ShapeOK
    <3>2. frames[h][p][i] \in FrameType
      BY <3>1
    <3>3. Asked(h, frames[h][p][i].call) /\ frames[h][p][i].call \in Nat
      BY <2>1, <2>4, <3>2 DEF AnswersOK, FrameType
    <3>4. PICK n \in Nat : n = frames[h][p][i].call /\ n = frames'[h][p][i].call
      BY <3>3
    <3>5. Asked(h, n)'
      BY <3>3, <3>4
    <3> QED
      BY <3>4, <3>5 DEF Asked
  <2> QED
    BY <2>2, <2>3, <2>4 DEF AnswersOK
<1>2. RelayedOK'
  BY DEF HeardInv, RelayedOK
<1>3. PostsAnswered' /\ RelaysConserved'
  BY DEF HeardInv, PostsAnswered, Answered, RelaysConserved, Heard, InFlight, To
<1>4. \A s \in Sessions : Returned(s)'
  BY DEF HeardInv, Returned, InFlight, To
<1> QED
  BY <1>1, <1>2, <1>3, <1>4 DEF HeardInv

LEMMA HostHeard ==
  ASSUME LobbyInv, HeardInv, NEW h \in Hosts,
         (\E c \in Caps : register_host(h, c)) \/ HostStop(h)
  PROVE  HeardInv'
<1> USE DEF wire, joining, history
<1>1. /\ UNCHANGED <<frames, heard, said, relayed, missed, requests, calls, call>>
      /\ task' = task \/ task' = [task EXCEPT ![h] = NoTask]
  BY DEF register_host, HostStop
<1>2. \A g \in Hosts : task'[g] = task[g] \/ task'[g].pc = "idle"
  BY <1>1 DEF LobbyInv, ShapeOK, NoTask
<1>3. \A g : \A n \in Nat : Asked(g, n) => Asked(g, n)'
  BY <1>1, AskedStays
<1>4. \A n \in Sessions : call'[n].status = "waiting" => call'[n].n <= calls'
  BY <1>1 DEF HeardInv, AnswersOK
<1> QED
  BY <1>1, <1>2, <1>3, <1>4, HeardQuiet

LEMMA SessionHeard ==
  ASSUME LobbyInv, HeardInv, NEW s \in Sessions, Open(s) \/ Close(s) \/ Finish(s)
  PROVE  HeardInv'
<1> USE DEF hosting, wire, history
<1>1. /\ UNCHANGED <<frames, heard, said, relayed, missed, task, requests, calls>>
      /\ call' = call \/ call' = [call EXCEPT ![s] = NoCall]
  BY DEF Open, Close, Finish
<1>2. \A n \in Sessions : call'[n] = call[n] \/ call'[n].status = "idle"
  BY <1>1 DEF LobbyInv, ShapeOK, NoCall
<1>3. \A g : \A n \in Nat : Asked(g, n) => Asked(g, n)'
  <2>1. \A n \in Sessions : call'[n] = call[n] \/ call'[n].status # "waiting"
    BY <1>2
  <2> QED
    BY <1>1, <2>1, AskedStays
<1>4. \A n \in Sessions : call'[n] = call[n] \/ call'[n].status # "posted"
  BY <1>2
<1>5. \A n \in Sessions : call'[n].status = "waiting" => call'[n].n <= calls'
  BY <1>1, <1>2 DEF HeardInv, AnswersOK
<1> QED
  BY <1>1, <1>3, <1>4, <1>5, HeardQuiet

LEMMA StartCallHeard ==
  ASSUME LobbyAssumption, LobbyInv, HeardInv, NEW s \in Sessions, NEW kind,
         NEW h \in Hosts, NEW k, StartCall(s, kind, h, k)
  PROVE  HeardInv'
<1> USE DEF hosting, history
<1> DEFINE c == [NoCall EXCEPT !.status = "waiting", !.n = calls', !.host = h, !.key = k]
<1>1. /\ UNCHANGED <<frames, heard, said, relayed, missed, task>>
      /\ calls' = calls + 1 /\ calls \in Nat
      /\ call' = [call EXCEPT ![s] = c] /\ call \in [Sessions -> CallType]
      /\ requests' = requests \cup {Request(Home[s], kind, calls', h, k)}
  BY DEF LobbyInv, ShapeOK, StartCall, LobbyTypeOK, LobbyAssumption
<1>2. c.status = "waiting" /\ c.host = h /\ c.n = calls + 1
  BY <1>1 DEF NoCall
<1> HIDE DEF c
<1>3. call'[s] = c /\ \A n \in Sessions : n # s => call'[n] = call[n]
  BY <1>1
<1>4. \A t \in Sessions : call[t].status = "waiting" => call[t].n \in Nat
  BY <1>1 DEF CallType
<1>5. ASSUME NEW g, NEW n \in Nat, Asked(g, n) PROVE Asked(g, n)'
  BY <1>1, <1>2, <1>3, <1>5 DEF Asked
<1>6. ASSUME NEW r \in requests', r \notin requests PROVE Asked(r.host, r.call)'
  <2>1. r.host = h /\ r.call = calls + 1 /\ calls' = calls + 1
    BY <1>1, <1>6 DEF Request
  <2>2. \A t \in Sessions : call'[t].status = "waiting" /\ call'[t].n = calls + 1 =>
          call'[t].host = h
    <3>1. ASSUME NEW t \in Sessions, t # s, call[t].status = "waiting"
          PROVE  call[t].n # calls + 1
      BY <1>1, <1>4, <3>1 DEF HeardInv, AnswersOK
    <3> QED
      BY <1>2, <1>3, <3>1
  <2> QED
    BY <1>1, <2>1, <2>2 DEF Asked
<1>7. \A n \in Sessions : call'[n] = call[n] \/ call'[n].status # "posted"
  BY <1>2, <1>3
<1>8. \A n \in Sessions : call'[n].status = "waiting" => call'[n].n <= calls'
  BY <1>1, <1>2, <1>3, <1>4 DEF HeardInv, AnswersOK
<1> QED
  BY <1>1, <1>5, <1>6, <1>7, <1>8, HeardQuiet

\* A host answers one call; "posted" only when the poster was relayed to.
LEMMA HeardSent ==
  ASSUME LobbyInv, HeardInv, NEW h \in Hosts, NEW p \in Paths, NEW f \in FrameType,
         f.kind # "relay", frames' = Sent(h, p, f), Asked(h, f.call),
         f.kind = "posted" /\ f.member => <<h, f.pos>> \in relayed[To(p)],
         UNCHANGED <<heard, said, relayed, missed, call, calls>>,
         requests' \subseteq requests,
         \A g \in Hosts : task'[g] = task[g] \/ task'[g].pc = "idle"
  PROVE  HeardInv'
<1> DEFINE q == frames[h][p]
<1>1. /\ q \in Seq(FrameType) /\ frames'[h][p] = Append(q, f)
      /\ \A g \in Hosts, r \in Paths : g # h \/ r # p => frames'[g][r] = frames[g][r]
  BY SentFrame DEF LobbyInv
<1> HIDE DEF q
<1>2. /\ DOMAIN q = 1 .. Len(q) /\ Len(q) \in Nat
      /\ DOMAIN Append(q, f) = 1 .. Len(q) + 1 /\ Append(q, f)[Len(q) + 1] = f
      /\ \A i \in 1 .. Len(q) : Append(q, f)[i] = q[i]
  BY <1>1
<1>3. \A g, n : Asked(g, n) => Asked(g, n)'
  BY DEF Asked
<1>4. AnswersOK'
  <2>1. \A s \in Sessions : call'[s].status = "waiting" => call'[s].n <= calls'
    BY DEF HeardInv, AnswersOK
  <2>2. \A r \in requests' : Asked(r.host, r.call)'
    BY <1>3 DEF HeardInv, AnswersOK
  <2>3. \A g \in Hosts : task'[g].pc # "idle" => Asked(g, task[g].call)'
    BY DEF HeardInv, AnswersOK, Asked
  <2>4. ASSUME NEW g \in Hosts, NEW r \in Paths, NEW i \in DOMAIN frames'[g][r],
               frames'[g][r][i].kind # "relay"
        PROVE  Asked(g, frames[g][r][i].call)'
    <3>1. Asked(g, frames'[g][r][i].call)
      <4>1. CASE g # h \/ r # p
        BY <1>1, <2>4, <4>1 DEF HeardInv, AnswersOK
      <4>2. CASE g = h /\ r = p /\ i = Len(q) + 1
        BY <1>1, <1>2, <4>2
      <4>3. CASE g = h /\ r = p /\ i \in 1 .. Len(q)
        BY <1>1, <1>2, <2>4, <4>3 DEF HeardInv, AnswersOK, q
      <4> QED
        BY <1>1, <1>2, <4>1, <4>2, <4>3
    <3> QED
      BY <3>1 DEF Asked
  <2> QED
    BY <2>1, <2>2, <2>3, <2>4 DEF AnswersOK
<1>5. RelayedOK'
  BY DEF HeardInv, RelayedOK
<1>6. PostsAnswered'
  <2>1. Answered(Append(q, f), h, To(p))
    <3>1. Answered(q, h, To(p))
      BY DEF HeardInv, PostsAnswered, q
    <3>2. ASSUME NEW j \in DOMAIN Append(q, f), Append(q, f)[j].kind = "posted",
                 Append(q, f)[j].member
          PROVE  /\ <<h, Append(q, f)[j].pos>> \in relayed[To(p)]
                 /\ \A i \in DOMAIN Append(q, f) : Append(q, f)[i].kind = "relay" /\
                      Append(q, f)[i].pos = Append(q, f)[j].pos => i < j
      <4>1. CASE j = Len(q) + 1
        BY <1>2, <3>2, <4>1
      <4>2. CASE j \in 1 .. Len(q)
        <5>1. j \in DOMAIN q /\ Append(q, f)[j] = q[j]
          BY <1>2, <4>2
        <5>2. \A i \in DOMAIN Append(q, f) : Append(q, f)[i].kind = "relay" =>
                i \in DOMAIN q /\ Append(q, f)[i] = q[i]
          BY <1>2
        <5> QED
          BY <3>1, <3>2, <5>1, <5>2 DEF Answered
      <4> QED
        BY <1>2, <4>1, <4>2
    <3> QED
      BY <3>2 DEF Answered
  <2>2. \A g \in Hosts, r \in Paths : Answered(frames'[g][r], g, To(r))
    BY <1>1, <2>1 DEF HeardInv, PostsAnswered
  <2> QED
    BY <2>2 DEF PostsAnswered, Answered, To
<1>7. \A g \in Hosts, r \in Paths : \A pos : InFlight(g, r, pos)' <=> InFlight(g, r, pos)
  <2>1. ASSUME NEW g \in Hosts, NEW r \in Paths, NEW pos
        PROVE  InFlight(g, r, pos)' <=> InFlight(g, r, pos)
    <3>1. CASE g # h \/ r # p
      BY <1>1, <3>1 DEF InFlight
    <3>2. CASE g = h /\ r = p
      <4>1. (\E i \in DOMAIN Append(q, f) :
               Append(q, f)[i].kind = "relay" /\ Append(q, f)[i].pos = pos)
            <=> (\E i \in DOMAIN q : q[i].kind = "relay" /\ q[i].pos = pos)
        BY <1>2
      <4>2. InFlight(g, r, pos)' <=> \E i \in DOMAIN Append(q, f) :
              Append(q, f)[i].kind = "relay" /\ Append(q, f)[i].pos = pos
        BY <1>1, <3>2 DEF InFlight
      <4>3. InFlight(g, r, pos) <=> \E i \in DOMAIN q : q[i].kind = "relay" /\ q[i].pos = pos
        BY <3>2 DEF InFlight, q
      <4> QED
        BY <4>1, <4>2, <4>3
    <3> QED
      BY <3>1, <3>2
  <2> QED
    BY <2>1
<1>8. RelaysConserved'
  <2>1. ASSUME NEW m \in Members, NEW x \in relayed[m]
        PROVE  \/ Heard(m, x[1], x[2])' \/ x \in missed'[m]
               \/ \E r \in Paths : To(r) = m /\ InFlight(x[1], r, x[2])'
    <3>1. x[1] \in Hosts
      BY DEF HeardInv, RelayedOK
    <3>2. Heard(m, x[1], x[2]) => Heard(m, x[1], x[2])'
      BY DEF Heard
    <3> QED
      BY <1>7, <3>1, <3>2 DEF HeardInv, RelaysConserved
  <2> QED
    BY <2>1 DEF RelaysConserved, To
<1>9. ASSUME NEW s \in Sessions PROVE Returned(s)'
  <2>1. Returned(s) /\ (call[s].status # "idle" => call[s].host \in Hosts)
    BY DEF HeardInv, LobbyInv, ShapeOK
  <2>2. PICK g, r, pos : /\ g = call[s].host /\ r = call[s].path /\ pos = call[s].pos
                         /\ g = call'[s].host /\ r = call'[s].path /\ pos = call'[s].pos
    OBVIOUS
  <2>3. call[s].status = "posted" /\ call[s].member =>
          g \in Hosts /\ r \in Paths /\ ~InFlight(g, r, pos)'
    BY <1>7, <2>1, <2>2 DEF Returned
  <2>4. call[s].status = "posted" /\ call[s].member =>
          ~InFlight(call[s].host, call[s].path, call[s].pos)'
    BY <2>2, <2>3, ZenonT(60) DEF InFlight
  <2>5. call'[s] = call[s] /\ relayed' = relayed
    OBVIOUS
  <2> QED
    BY <2>1, <2>4, <2>5 DEF Returned, To
<1> QED
  BY <1>4, <1>5, <1>6, <1>8, <1>9 DEF HeardInv

LEMMA HandleHeard ==
  ASSUME LobbyAssumption, LobbyInv, HeardInv, NEW h \in Hosts, NEW r \in requests,
         \/ HandleJoin(h, r) \/ HandleLeave(h, r) \/ CheckPost(h, r)
         \/ HandleElsewhere(h, r)
  PROVE  HeardInv'
<1> USE DEF hosting, joining, history
<1>1. /\ UNCHANGED <<heard, said, relayed, missed, call, calls>>
      /\ requests' \subseteq requests /\ r.host = h
      /\ r.call \in Nat /\ r.from \in Members
  BY DEF HandleJoin, HandleLeave, CheckPost, HandleElsewhere, LobbyInv, LobbyTypeOK
<1>2. Asked(h, r.call)
  BY <1>1 DEF HeardInv, AnswersOK
<1>3. ASSUME NEW kind \in {"joined", "refused", "left"}, UNCHANGED task,
             Send(h, r.from, Answer(kind, r.call))
      PROVE  HeardInv'
  <2>1. PICK p \in Paths : frames' = Sent(h, p, Answer(kind, r.call))
    BY <1>3 DEF Send
  <2>2. /\ Answer(kind, r.call) \in FrameType /\ Answer(kind, r.call).kind = kind
        /\ Answer(kind, r.call).call = r.call
    BY <1>1 DEF Answer, FrameType
  <2> QED
    BY <1>1, <1>2, <1>3, <2>1, <2>2, HeardSent
<1>4. CASE HandleJoin(h, r)
  BY <1>3, <1>4 DEF HandleJoin
<1>5. CASE HandleLeave(h, r)
  BY <1>3, <1>5 DEF HandleLeave
<1>6. CASE HandleElsewhere(h, r)
  <2>1. UNCHANGED task
    BY <1>6 DEF HandleElsewhere
  <2>2. CASE r.kind = "leave"
    BY <1>3, <1>6, <2>1, <2>2 DEF HandleElsewhere
  <2>3. CASE r.kind # "leave"
    BY <1>3, <1>6, <2>1, <2>3 DEF HandleElsewhere
  <2> QED
    BY <2>2, <2>3
<1>7. CASE CheckPost(h, r)
  <2>1. CASE UNCHANGED task /\ Send(h, r.from, Answer("refused", r.call))
    BY <1>3, <2>1
  <2>2. CASE /\ UNCHANGED frames
             /\ task' = [task EXCEPT ![h] = [NoTask EXCEPT !.pc = "checked",
                           !.from = r.from, !.call = r.call, !.key = r.key]]
    <3>1. /\ task'[h].pc = "checked" /\ task'[h].call = r.call
          /\ \A g \in Hosts : g # h => task'[g] = task[g]
      BY <2>2 DEF LobbyInv, ShapeOK, NoTask
    <3>2. \A g : \A n \in Nat : Asked(g, n) => Asked(g, n)'
      BY <1>1, AskedStays
    <3>3. Asked(h, task[h].call)'
      BY <1>1, <1>2, <3>1 DEF Asked
    <3>4. \A s \in Sessions : call'[s].status = "waiting" => call'[s].n <= calls'
      BY <1>1 DEF HeardInv, AnswersOK
    <3>5. \A g \in Hosts :
            \/ task'[g] = task[g] \/ task'[g].pc = "idle"
            \/ task'[g].pc = "checked" /\ Asked(g, task[g].call)'
      BY <3>1, <3>3
    <3> QED
      BY <1>1, <2>2, <3>2, <3>4, <3>5, HeardQuiet
  <2> QED
    BY <1>7, <2>1, <2>2 DEF CheckPost
<1> QED
  BY <1>4, <1>5, <1>6, <1>7

LEMMA ReplyHeard ==
  ASSUME LobbyAssumption, LobbyInv, HeardInv, NEW h \in Hosts, ReplyPosted(h)
  PROVE  HeardInv'
<1> USE DEF wire, joining, history
<1>1. /\ task[h].pc = "relaying" /\ task[h].todo = {} /\ task[h] \in TaskType
      /\ task' = [task EXCEPT ![h] = NoTask] /\ Send(h, task[h].from, Posted(task[h]))
      /\ UNCHANGED <<said, requests, calls, call, heard, relayed, missed>>
  BY DEF ReplyPosted, Relayed, LobbyInv, ShapeOK
<1> DEFINE f == Posted(task[h])
<1>2. PICK p \in Paths : To(p) = task[h].from /\ frames' = Sent(h, p, f)
  BY <1>1 DEF Send
<1>3. /\ f \in FrameType /\ f.kind = "posted" /\ f.call = task[h].call
      /\ f.pos = task[h].pos /\ f.member = task[h].member
  BY <1>1 DEF Posted, FrameType, TaskType
<1> HIDE DEF f
<1>4. Asked(h, f.call)
  BY <1>1, <1>3 DEF HeardInv, AnswersOK
<1>5. f.member => <<h, f.pos>> \in relayed[To(p)]
  BY <1>1, <1>2, <1>3 DEF HeardInv, RelayedOK
<1>6. \A g \in Hosts : task'[g] = task[g] \/ task'[g].pc = "idle"
  BY <1>1 DEF LobbyInv, ShapeOK, NoTask
<1> QED
  BY <1>1, <1>2, <1>3, <1>4, <1>5, <1>6, HeardSent

LEMMA LogPostHeard ==
  ASSUME LobbyAssumption, LobbyInv, HeardInv, NEW h \in Hosts, LogPost(h)
  PROVE  HeardInv'
<1> USE DEF wire, joining, history
<1> DEFINE n == Len(said[h])
<1>1. /\ task[h].pc = "checked" /\ task[h] \in TaskType /\ task \in [Hosts -> TaskType]
      /\ said' = [said EXCEPT ![h] = Append(@, task[h].key)]
      /\ said[h] \in Seq(1 .. keys) /\ task[h].key \in 1 .. keys
      /\ said \in [Hosts -> Seq(1 .. keys)] /\ members[h] \subseteq Members
      /\ UNCHANGED <<frames, requests, calls, call, heard, relayed, missed>>
  BY DEF LogPost, LobbyInv, LobbyTypeOK, ShapeOK
<1>2. PICK b \in BOOLEAN :
        /\ b => task[h].from \in members[h]
        /\ task' = [task EXCEPT ![h] = [task[h] EXCEPT
             !.pc = "relaying", !.todo = members[h], !.pos = n + 1, !.member = b]]
  <2>1. CASE task[h].from \in members[h]
    <3>1. task' = [task EXCEPT ![h] = [task[h] EXCEPT
            !.pc = "relaying", !.todo = members[h], !.pos = n + 1, !.member = TRUE]]
      BY <2>1 DEF LogPost
    <3> QED
      BY <2>1, <3>1
  <2>2. CASE task[h].from \notin members[h]
    <3>1. task' = [task EXCEPT ![h] = [task[h] EXCEPT
            !.pc = "relaying", !.todo = members[h], !.pos = n + 1, !.member = FALSE]]
      <4>1. (task[h].from \in members[h]) = FALSE
        BY <2>2
      <4> QED
        BY <4>1, Zenon DEF LogPost
    <3> QED
      BY <3>1
  <2> QED
    BY <2>1, <2>2
<1>3. /\ n \in Nat /\ DOMAIN said[h] = 1 .. n /\ DOMAIN said'[h] = 1 .. n + 1
      /\ \A g \in Hosts : g # h => said'[g] = said[g]
  BY <1>1
<1>4. /\ task'[h].pc = "relaying" /\ task'[h].todo = members[h] /\ task'[h].pos = n + 1
      /\ task'[h].from = task[h].from /\ task'[h].call = task[h].call
      /\ task'[h].member => task[h].from \in members[h]
      /\ \A g \in Hosts : g # h => task'[g] = task[g]
  BY <1>1, <1>2 DEF TaskType
<1> HIDE DEF n
<1>5. \A g \in Hosts : \A k \in DOMAIN said[g] : k \in DOMAIN said'[g]
  BY <1>3
<1>6. AnswersOK'
  <2>1. \A g \in Hosts : task'[g].pc # "idle" => task[g].pc # "idle"
    BY <1>1, <1>4
  <2>2. \A g \in Hosts : task'[g].call = task[g].call
    BY <1>4
  <2> QED
    BY <1>1, <2>1, <2>2, SMTT(30) DEF HeardInv, AnswersOK, Asked
<1>7. RelayedOK'
  <2>1. \A m \in Members : \A x \in relayed[m] : x[2] \in DOMAIN said[x[1]] /\ x[1] \in Hosts
    BY DEF HeardInv, RelayedOK
  <2>2. \A m \in Members : <<h, n + 1>> \notin relayed[m]
    <3>1. n + 1 \notin DOMAIN said[h]
      BY <1>3
    <3> QED
      BY <2>1, <3>1
  <2>3. \A m \in Members : \A x \in relayed[m] : x[2] \in DOMAIN said'[x[1]]
    BY <1>5, <2>1
  <2>4. ASSUME NEW g \in Hosts, task'[g].pc = "relaying"
        PROVE  /\ \A m \in task'[g].todo : <<g, task'[g].pos>> \notin relayed[m]
               /\ task'[g].member => \/ task'[g].from \in task'[g].todo
                                     \/ <<g, task'[g].pos>> \in relayed[task'[g].from]
    <3>1. CASE g = h
      BY <1>1, <1>4, <2>2, <3>1
    <3>2. CASE g # h
      BY <1>4, <2>4, <3>2 DEF HeardInv, RelayedOK
    <3> QED
      BY <3>1, <3>2
  <2> QED
    BY <1>1, <2>3, <2>4 DEF HeardInv, RelayedOK
<1>8. PostsAnswered' /\ RelaysConserved'
  <2>1. PostsAnswered'
    BY <1>1 DEF HeardInv, PostsAnswered, Answered, To
  <2>2. \A g, k : /\ \A m : Heard(m, g, k) => Heard(m, g, k)'
                  /\ \A p : InFlight(g, p, k) => InFlight(g, p, k)'
    BY <1>1 DEF Heard, InFlight
  <2>3. RelaysConserved'
    BY <1>1, <2>2 DEF HeardInv, RelaysConserved, To
  <2> QED
    BY <2>1, <2>3
<1>9. \A s \in Sessions : Returned(s)'
  BY <1>1 DEF HeardInv, Returned, InFlight, To
<1> QED
  BY <1>6, <1>7, <1>8, <1>9 DEF HeardInv

LEMMA RelayToHeard ==
  ASSUME LobbyAssumption, LobbyInv, HeardInv, NEW h \in Hosts, NEW m \in Members,
         RelayTo(h, m)
  PROVE  HeardInv'
<1> USE DEF joining
<1>0. PICK pos : pos = task[h].pos
  OBVIOUS
<1> DEFINE f == Relay(task[h].key, pos)
<1>1. PICK p \in Paths : To(p) = m /\ frames' = Sent(h, p, f)
  BY <1>0 DEF RelayTo, Send
<1> DEFINE q == frames[h][p]
<1>2. /\ task[h].pc = "relaying" /\ m \in task[h].todo /\ task[h] \in TaskType
      /\ task \in [Hosts -> TaskType] /\ task' = [task EXCEPT ![h].todo = @ \ {m}]
      /\ relayed' = [relayed EXCEPT ![m] = @ \cup {<<h, pos>>}]
      /\ relayed \in [Members -> SUBSET (Hosts \X Nat)]
      /\ pos \in DOMAIN said[h] /\ pos \in Nat /\ <<h, pos>> \notin relayed[m]
      /\ UNCHANGED <<said, requests, calls, call, heard, missed>>
  BY <1>0 DEF RelayTo, LobbyInv, ShapeOK, AdmitOK, TaskOK, HeardInv, RelayedOK, TaskType
<1>3. f \in FrameType /\ f.kind = "relay" /\ f.pos = pos
  BY <1>2 DEF Relay, FrameType, TaskType
<1>4. /\ task'[h].pc = task[h].pc /\ task'[h].pos = pos /\ task'[h].from = task[h].from
      /\ task'[h].call = task[h].call /\ task'[h].member = task[h].member
      /\ task'[h].todo = task[h].todo \ {m}
      /\ \A g \in Hosts : g # h => task'[g] = task[g]
  BY <1>0, <1>2 DEF TaskType
<1> HIDE DEF f
<1>5. /\ q \in Seq(FrameType) /\ frames'[h][p] = Append(q, f)
      /\ \A g \in Hosts, r \in Paths : g # h \/ r # p => frames'[g][r] = frames[g][r]
  BY <1>1, <1>3, SentFrame DEF LobbyInv
<1> HIDE DEF q
<1>6. /\ DOMAIN q = 1 .. Len(q) /\ Len(q) \in Nat
      /\ DOMAIN Append(q, f) = 1 .. Len(q) + 1 /\ Append(q, f)[Len(q) + 1] = f
      /\ \A i \in 1 .. Len(q) : Append(q, f)[i] = q[i]
  BY <1>5
<1>7. /\ relayed' \in [Members -> SUBSET (Hosts \X Nat)]
      /\ relayed'[m] = relayed[m] \cup {<<h, pos>>}
      /\ \A n \in Members : n # m => relayed'[n] = relayed[n]
      /\ \A n \in Members : relayed[n] \subseteq relayed'[n]
  BY <1>2
<1>8. AnswersOK'
  <2>1. ASSUME NEW g \in Hosts, NEW r \in Paths, NEW i \in DOMAIN frames'[g][r],
               frames'[g][r][i].kind # "relay"
        PROVE  Asked(g, frames[g][r][i].call)'
    <3>1. Asked(g, frames'[g][r][i].call)
      <4>1. CASE g # h \/ r # p
        <5>1. frames'[g][r] = frames[g][r]
          BY <1>5, <4>1
        <5> QED
          BY <2>1, <5>1 DEF HeardInv, AnswersOK
      <4>2. CASE g = h /\ r = p /\ i \in 1 .. Len(q)
        <5>1. \A k \in DOMAIN q : q[k].kind # "relay" => Asked(h, q[k].call)
          BY DEF HeardInv, AnswersOK, q
        <5>2. i \in DOMAIN q /\ frames'[g][r][i] = q[i]
          BY <1>5, <1>6, <4>2
        <5> QED
          BY <2>1, <4>2, <5>1, <5>2
      <4> QED
        BY <1>3, <1>5, <1>6, <2>1, <4>1, <4>2
    <3> QED
      BY <1>2, <3>1 DEF Asked
  <2>2. \A g \in Hosts : task'[g].pc = task[g].pc /\ task'[g].call = task[g].call
    BY <1>4
  <2> QED
    BY <1>2, <2>1, <2>2 DEF HeardInv, AnswersOK, Asked
<1>9. RelayedOK'
  <2>1. \A n \in Members : \A x \in relayed'[n] : x[2] \in DOMAIN said[x[1]]
    <3>1. \A x \in relayed'[m] : x \in relayed[m] \/ x = <<h, pos>>
      BY <1>7
    <3> QED
      BY <1>2, <1>7, <3>1 DEF HeardInv, RelayedOK
  <2>2. ASSUME NEW g \in Hosts, task'[g].pc = "relaying"
        PROVE  /\ \A n \in task'[g].todo : <<g, task'[g].pos>> \notin relayed'[n]
               /\ task'[g].member => \/ task'[g].from \in task'[g].todo
                                     \/ <<g, task'[g].pos>> \in relayed'[task'[g].from]
    <3>0. task[g].todo \subseteq Members /\ task[g].from \in Members
      BY <1>4, <2>2 DEF LobbyInv, ShapeOK, TaskType
    <3>1. CASE g = h
      <4>1. /\ \A n \in task[h].todo : <<h, pos>> \notin relayed[n]
            /\ task[h].member => \/ task[h].from \in task[h].todo
                                 \/ <<h, pos>> \in relayed[task[h].from]
        BY <1>0, <1>2 DEF HeardInv, RelayedOK
      <4> QED
        BY <1>4, <1>7, <3>0, <3>1, <4>1
    <3>2. CASE g # h
      <4>1. /\ task'[g] = task[g]
            /\ \A n \in task[g].todo : <<g, task[g].pos>> \notin relayed[n]
            /\ task[g].member => \/ task[g].from \in task[g].todo
                                 \/ <<g, task[g].pos>> \in relayed[task[g].from]
        BY <1>4, <2>2, <3>2 DEF HeardInv, RelayedOK
      <4>2. \A k : <<g, k>> # <<h, pos>>
        BY <3>2
      <4> QED
        BY <1>7, <3>0, <4>1, <4>2
    <3> QED
      BY <3>1, <3>2
  <2> QED
    BY <1>2, <1>7, <2>1, <2>2 DEF HeardInv, RelayedOK
<1>10. PostsAnswered'
  <2>1. ASSUME NEW g \in Hosts, NEW r \in Paths, NEW j \in DOMAIN frames'[g][r],
               frames'[g][r][j].kind = "posted", frames'[g][r][j].member
        PROVE  /\ <<g, frames'[g][r][j].pos>> \in relayed'[To(r)]
               /\ \A i \in DOMAIN frames'[g][r] : frames'[g][r][i].kind = "relay" /\
                    frames'[g][r][i].pos = frames'[g][r][j].pos => i < j
    <3>0. To(r) \in Members
      BY PathsLead
    <3>1. CASE g # h \/ r # p
      <4>1. frames'[g][r] = frames[g][r] /\ Answered(frames[g][r], g, To(r))
        BY <1>5, <3>1 DEF HeardInv, PostsAnswered
      <4> QED
        BY <1>7, <2>1, <3>0, <4>1 DEF Answered
    <3>2. CASE g = h /\ r = p
      <4>1. Answered(q, h, m)
        BY <1>1 DEF HeardInv, PostsAnswered, q
      <4>2. j \in 1 .. Len(q) /\ Append(q, f)[j] = q[j]
        BY <1>3, <1>5, <1>6, <2>1, <3>2
      <4>3. <<h, q[j].pos>> \in relayed[m]
        BY <1>5, <1>6, <2>1, <3>2, <4>1, <4>2 DEF Answered
      <4>4. q[j].pos # pos
        BY <1>2, <4>3
      <4>5. ASSUME NEW i \in DOMAIN Append(q, f), Append(q, f)[i].kind = "relay",
                   Append(q, f)[i].pos = q[j].pos
            PROVE  i < j
        <5>1. i \in DOMAIN q /\ Append(q, f)[i] = q[i]
          BY <1>3, <1>6, <4>4, <4>5
        <5> QED
          BY <1>5, <1>6, <2>1, <3>2, <4>1, <4>2, <4>5, <5>1 DEF Answered
      <4> QED
        BY <1>1, <1>5, <1>7, <3>2, <4>2, <4>3, <4>5, ZenonT(60)
    <3> QED
      BY <3>1, <3>2
  <2> QED
    BY <2>1 DEF PostsAnswered, Answered, To
<1>11. ASSUME NEW g \in Hosts, NEW r \in Paths, NEW k
       PROVE  /\ InFlight(g, r, k) => InFlight(g, r, k)'
              /\ InFlight(g, r, k)' => InFlight(g, r, k) \/ (g = h /\ r = p /\ k = pos)
              /\ g = h /\ r = p /\ k = pos => InFlight(g, r, k)'
  <2>1. CASE g # h \/ r # p
    <3>1. frames'[g][r] = frames[g][r]
      BY <1>5, <2>1
    <3> QED
      BY <2>1, <3>1 DEF InFlight
  <2>2. CASE g = h /\ r = p
    <3>1. InFlight(g, r, k)' <=> \E i \in DOMAIN Append(q, f) :
            Append(q, f)[i].kind = "relay" /\ Append(q, f)[i].pos = k
      BY <1>5, <2>2 DEF InFlight
    <3>2. InFlight(g, r, k) <=> \E i \in DOMAIN q : q[i].kind = "relay" /\ q[i].pos = k
      BY <2>2 DEF InFlight, q
    <3>3. (\E i \in DOMAIN Append(q, f) :
             Append(q, f)[i].kind = "relay" /\ Append(q, f)[i].pos = k)
          <=> \/ \E i \in DOMAIN q : q[i].kind = "relay" /\ q[i].pos = k
              \/ k = pos
      <4>1. Len(q) + 1 \in DOMAIN Append(q, f)
        BY <1>6
      <4> QED
        BY <1>3, <1>6, <4>1
    <3> QED
      BY <2>2, <3>1, <3>2, <3>3
  <2> QED
    BY <2>1, <2>2
<1>12. RelaysConserved'
  <2>1. ASSUME NEW n \in Members, NEW x \in relayed'[n]
        PROVE  \/ Heard(n, x[1], x[2])' \/ x \in missed'[n]
               \/ \E r \in Paths : To(r) = n /\ InFlight(x[1], r, x[2])'
    <3>1. CASE x \in relayed[n]
      <4>1. x[1] \in Hosts
        BY <3>1 DEF HeardInv, RelayedOK
      <4>2. Heard(n, x[1], x[2]) => Heard(n, x[1], x[2])'
        BY <1>2 DEF Heard
      <4> QED
        BY <1>2, <1>11, <3>1, <4>1, <4>2 DEF HeardInv, RelaysConserved
    <3>2. CASE n = m /\ x = <<h, pos>>
      <4>1. x[1] = h /\ x[2] = pos
        BY <3>2
      <4>2. InFlight(h, p, pos)'
        BY <1>11
      <4>3. InFlight(x[1], p, x[2])'
        BY <4>1, <4>2
      <4> QED
        BY <1>1, <3>2, <4>3
    <3> QED
      BY <1>7, <3>1, <3>2
  <2> QED
    BY <2>1 DEF RelaysConserved, To
<1>13. ASSUME NEW s \in Sessions, call[s].status = "posted", call[s].member
       PROVE  Returned(s)'
  <2>1. Returned(s) /\ call[s].host \in Hosts /\ Home[s] \in Members
    BY <1>13 DEF HeardInv, LobbyInv, ShapeOK, LobbyAssumption
  <2>2. PICK g, r, k : /\ g = call[s].host /\ r = call[s].path /\ k = call[s].pos
    OBVIOUS
  <2>3. /\ <<g, k>> \in relayed[Home[s]] /\ r \in Paths /\ To(r) = Home[s]
        /\ ~InFlight(g, r, k) /\ g \in Hosts
    BY <1>13, <2>1, <2>2 DEF Returned
  <2>4. ~InFlight(g, r, k)'
    BY <1>1, <1>2, <1>11, <2>3
  <2>5. call'[s] = call[s] /\ <<g, k>> \in relayed'[Home[s]]
    BY <1>2, <1>7, <2>1, <2>3
  <2>6. ~InFlight(call[s].host, call[s].path, call[s].pos)'
    BY <2>2, <2>4, <2>5 DEF InFlight
  <2> QED
    BY <2>2, <2>3, <2>5, <2>6 DEF Returned, To
<1>14. \A s \in Sessions : Returned(s)'
  BY <1>2, <1>13 DEF Returned
<1> QED
  BY <1>8, <1>9, <1>10, <1>12, <1>14 DEF HeardInv

\* What is left of a queue was there, in the same order; the rest is one frame.
LEMMA WithoutRest ==
  ASSUME NEW q \in Seq(FrameType), NEW i \in DOMAIN q
  PROVE  /\ \A j \in DOMAIN Without(q, i) : \E k \in DOMAIN q : Without(q, i)[j] = q[k]
         /\ \A k \in DOMAIN q : k # i => \E j \in DOMAIN Without(q, i) : Without(q, i)[j] = q[k]
         /\ \A h, m : Answered(q, h, m) => Answered(Without(q, i), h, m)
<1> DEFINE at(j) == IF j < i THEN j ELSE j + 1
<1>1. Len(q) \in Nat /\ DOMAIN q = 1 .. Len(q) /\ i \in 1 .. Len(q)
  OBVIOUS
<1>2. /\ DOMAIN Without(q, i) = 1 .. Len(q) - 1
      /\ \A j \in 1 .. Len(q) - 1 :
           Without(q, i)[j] = IF j < i THEN q[j] ELSE q[j + 1]
  BY WithoutFrame
<1>3. \A j \in DOMAIN Without(q, i) : at(j) \in DOMAIN q /\ Without(q, i)[j] = q[at(j)]
  BY <1>1, <1>2
<1>4. \A j, k \in DOMAIN Without(q, i) : at(j) < at(k) => j < k
  BY <1>1, <1>2
<1>5. ASSUME NEW k \in DOMAIN q, k # i
      PROVE  \E j \in DOMAIN Without(q, i) : Without(q, i)[j] = q[k]
  <2>1. CASE k < i
    <3>1. k \in 1 .. Len(q) - 1
      BY <1>1, <2>1
    <3> QED
      BY <1>2, <2>1, <3>1
  <2>2. CASE k > i
    <3>1. k - 1 \in 1 .. Len(q) - 1 /\ ~(k - 1 < i) /\ (k - 1) + 1 = k
      BY <1>1, <2>2
    <3> QED
      BY <1>2, <3>1
  <2> QED
    BY <1>1, <1>5, <2>1, <2>2
<1> HIDE DEF at
<1>6. \A h, m : Answered(q, h, m) => Answered(Without(q, i), h, m)
  BY <1>3, <1>4 DEF Answered
<1> QED
  BY <1>3, <1>5, <1>6

\* A frame leaves its queue; a relay goes to the log, or is missed.
LEMMA HeardLess ==
  ASSUME LobbyAssumption, LobbyInv, HeardInv, NEW h \in Hosts, NEW p \in Paths,
         NEW i \in DOMAIN frames[h][p], NEW f, f = frames[h][p][i],
         frames' = [frames EXCEPT ![h][p] = Without(@, i)],
         UNCHANGED <<said, task, requests, calls, relayed>>,
         \A s \in Sessions : call'[s] = call[s] \/ call'[s].status # "waiting",
         \A s \in Sessions : call'[s] = call[s] \/ Returned(s)',
         missed' \in [Members -> SUBSET (Hosts \X Nat)],
         \A m \in Members : missed[m] \subseteq missed'[m],
         \A m \in Members : \A g, k : Heard(m, g, k) => Heard(m, g, k)',
         f.kind = "relay" => Heard(To(p), h, f.pos)' \/ <<h, f.pos>> \in missed'[To(p)]
  PROVE  HeardInv'
<1> DEFINE q == frames[h][p]
<1>1. /\ q \in Seq(FrameType) /\ i \in DOMAIN q /\ frames'[h][p] = Without(q, i)
      /\ \A g \in Hosts, r \in Paths : g # h \/ r # p => frames'[g][r] = frames[g][r]
  <2>1. frames \in [Hosts -> [Paths -> Seq(FrameType)]]
    BY DEF LobbyInv, ShapeOK
  <2> QED
    BY <2>1
<1> HIDE DEF q
<1>2. /\ \A j \in DOMAIN Without(q, i) : \E k \in DOMAIN q : Without(q, i)[j] = q[k]
      /\ \A k \in DOMAIN q : k # i => \E j \in DOMAIN Without(q, i) : Without(q, i)[j] = q[k]
      /\ \A g, m : Answered(q, g, m) => Answered(Without(q, i), g, m)
  BY <1>1, WithoutRest
<1>3. \A g \in Hosts, r \in Paths : \A j \in DOMAIN frames'[g][r] :
        \E k \in DOMAIN frames[g][r] : frames'[g][r][j] = frames[g][r][k]
  <2>1. ASSUME NEW g \in Hosts, NEW r \in Paths, NEW j \in DOMAIN frames'[g][r]
        PROVE  \E k \in DOMAIN frames[g][r] : frames'[g][r][j] = frames[g][r][k]
    <3>1. CASE g # h \/ r # p
      <4>1. frames'[g][r] = frames[g][r]
        BY <1>1, <3>1
      <4> QED
        BY <4>1
    <3>2. CASE g = h /\ r = p
      BY <1>1, <1>2, <3>2 DEF q
    <3> QED
      BY <3>1, <3>2
  <2> QED
    BY <2>1
<1>4. \A g, n : Asked(g, n) => Asked(g, n)'
  BY AskedStays
<1>5. AnswersOK'
  <2>1. \A s \in Sessions : call'[s].status = "waiting" => call'[s].n <= calls'
    BY DEF HeardInv, AnswersOK
  <2>2. \A r \in requests' : Asked(r.host, r.call)'
    BY <1>4 DEF HeardInv, AnswersOK
  <2>3. ASSUME NEW g \in Hosts, task'[g].pc # "idle" PROVE Asked(g, task[g].call)'
    <3>1. PICK n : n = task[g].call /\ n = task'[g].call
      OBVIOUS
    <3>2. Asked(g, n)
      BY <2>3, <3>1 DEF HeardInv, AnswersOK
    <3>3. Asked(g, n)'
      BY <1>4, <3>2
    <3> QED
      BY <3>1, <3>3 DEF Asked
  <2>4. ASSUME NEW g \in Hosts, NEW r \in Paths, NEW j \in DOMAIN frames'[g][r],
               frames'[g][r][j].kind # "relay"
        PROVE  Asked(g, frames[g][r][j].call)'
    <3>1. PICK n : n = frames'[g][r][j].call
      OBVIOUS
    <3>2. Asked(g, n)
      BY <1>3, <2>4, <3>1 DEF HeardInv, AnswersOK
    <3>3. Asked(g, n)'
      BY <1>4, <3>2
    <3> QED
      BY <3>1, <3>3 DEF Asked
  <2> QED
    BY <2>1, <2>2, <2>3, <2>4 DEF AnswersOK
<1>6. RelayedOK'
  BY DEF HeardInv, RelayedOK
<1>7. PostsAnswered'
  <2>1. \A g \in Hosts, r \in Paths : Answered(frames'[g][r], g, To(r))
    <3>1. Answered(Without(q, i), h, To(p))
      BY <1>2 DEF HeardInv, PostsAnswered, q
    <3> QED
      BY <1>1, <3>1 DEF HeardInv, PostsAnswered
  <2> QED
    BY <2>1 DEF PostsAnswered, Answered, To
<1>8. \A g \in Hosts, r \in Paths : \A k : InFlight(g, r, k)' => InFlight(g, r, k)
  BY <1>3 DEF InFlight
<1>9. ASSUME NEW g \in Hosts, NEW r \in Paths, NEW k, InFlight(g, r, k)
      PROVE  \/ InFlight(g, r, k)'
             \/ g = h /\ r = p /\ f.kind = "relay" /\ k = f.pos
  <2>1. CASE g # h \/ r # p
    <3>1. frames'[g][r] = frames[g][r]
      BY <1>1, <2>1
    <3> QED
      BY <1>9, <3>1 DEF InFlight
  <2>2. CASE g = h /\ r = p
    <3>1. PICK j \in DOMAIN q : q[j].kind = "relay" /\ q[j].pos = k
      BY <1>9, <2>2 DEF InFlight, q
    <3>2. CASE j = i
      BY <2>2, <3>1, <3>2 DEF q
    <3>3. CASE j # i
      <4>1. PICK l \in DOMAIN Without(q, i) : Without(q, i)[l] = q[j]
        BY <1>2, <3>3
      <4> QED
        BY <1>1, <2>2, <3>1, <4>1 DEF InFlight
    <3> QED
      BY <3>2, <3>3
  <2> QED
    BY <2>1, <2>2
<1>10. RelaysConserved'
  <2>1. ASSUME NEW m \in Members, NEW x \in relayed'[m]
        PROVE  \/ Heard(m, x[1], x[2])' \/ x \in missed'[m]
               \/ \E r \in Paths : To(r) = m /\ InFlight(x[1], r, x[2])'
    <3>1. x \in relayed[m] /\ x[1] \in Hosts /\ x = <<x[1], x[2]>>
      BY DEF HeardInv, RelayedOK
    <3>2. \/ Heard(m, x[1], x[2]) \/ x \in missed[m]
          \/ \E r \in Paths : To(r) = m /\ InFlight(x[1], r, x[2])
      BY <3>1 DEF HeardInv, RelaysConserved
    <3>3. CASE Heard(m, x[1], x[2]) \/ x \in missed[m]
      BY <3>3
    <3>4. ASSUME NEW r \in Paths, To(r) = m, InFlight(x[1], r, x[2])
          PROVE  \/ Heard(m, x[1], x[2])' \/ x \in missed'[m]
                 \/ InFlight(x[1], r, x[2])'
      <4>1. CASE InFlight(x[1], r, x[2])'
        BY <4>1
      <4>2. CASE x[1] = h /\ r = p /\ f.kind = "relay" /\ x[2] = f.pos
        <5>1. CASE <<h, f.pos>> \in missed'[To(p)]
          BY <3>1, <3>4, <4>2, <5>1
        <5>2. CASE Heard(To(p), h, f.pos)'
          BY <3>4, <4>2, <5>2 DEF Heard, To
        <5> QED
          BY <4>2, <5>1, <5>2
      <4> QED
        BY <1>9, <3>1, <3>4, <4>1, <4>2
    <3> QED
      BY <3>2, <3>3, <3>4
  <2> QED
    BY <2>1 DEF RelaysConserved, To
<1>11. ASSUME NEW s \in Sessions, call'[s] = call[s] PROVE Returned(s)'
  <2>1. CASE call[s].status = "posted" /\ call[s].member
    <3>1. Returned(s) /\ call[s].host \in Hosts
      BY <2>1 DEF HeardInv, LobbyInv, ShapeOK
    <3>2. PICK g, r, k : /\ g = call[s].host /\ r = call[s].path /\ k = call[s].pos
      OBVIOUS
    <3>3. ~InFlight(g, r, k)'
      BY <1>8, <2>1, <3>1, <3>2 DEF Returned
    <3>4. ~InFlight(call[s].host, call[s].path, call[s].pos)'
      BY <1>11, <3>2, <3>3 DEF InFlight
    <3> QED
      BY <1>11, <2>1, <3>1, <3>4 DEF Returned, To
  <2>2. CASE ~(call[s].status = "posted" /\ call[s].member)
    BY <1>11, <2>2 DEF Returned
  <2> QED
    BY <2>1, <2>2
<1>12. \A s \in Sessions : Returned(s)'
  BY <1>11
<1> QED
  BY <1>5, <1>6, <1>7, <1>10, <1>12 DEF HeardInv

LEMMA LoseFrameHeard ==
  ASSUME LobbyAssumption, LobbyInv, HeardInv, NEW h \in Hosts, NEW p \in Paths,
         NEW i \in DOMAIN frames[h][p], LoseFrame(h, p, i)
  PROVE  HeardInv'
<1> USE DEF hosting, joining
<1>1. PICK f : f = frames[h][p][i]
  OBVIOUS
<1>2. f \in FrameType /\ To(p) \in Members
  <2>1. frames[h][p] \in Seq(FrameType)
    BY DEF LobbyInv, ShapeOK
  <2> QED
    BY <1>1, <2>1, PathsLead
<1>3. /\ frames' = [frames EXCEPT ![h][p] = Without(@, i)]
      /\ missed' = [missed EXCEPT ![To(p)] = @ \cup
           {<<h, e.pos>> : e \in {g \in {f} : g.kind = "relay"}}]
      /\ missed \in [Members -> SUBSET (Hosts \X Nat)]
      /\ UNCHANGED <<said, task, requests, calls, call, relayed, heard>>
  BY <1>1 DEF LoseFrame, HeardInv, RelayedOK
<1>4. {<<h, e.pos>> : e \in {g \in {f} : g.kind = "relay"}} \subseteq Hosts \X Nat
  BY <1>2 DEF FrameType
<1>5. /\ missed' \in [Members -> SUBSET (Hosts \X Nat)]
      /\ \A m \in Members : missed[m] \subseteq missed'[m]
      /\ f.kind = "relay" => <<h, f.pos>> \in missed'[To(p)]
  BY <1>2, <1>3, <1>4
<1>6. \A m \in Members : \A g, k : Heard(m, g, k) => Heard(m, g, k)'
  BY <1>3 DEF Heard
<1>7. \A s \in Sessions : call'[s] = call[s]
  BY <1>3
<1> QED
  BY <1>1, <1>3, <1>5, <1>6, <1>7, HeardLess

\* A posted answer is the last its path says of the post, when it was asked.
LEMMA PumpHeard ==
  ASSUME LobbyAssumption, LobbyInv, HeardInv, NEW h \in Hosts, NEW p \in Paths,
         Pump(h, p)
  PROVE  HeardInv'
<1> USE DEF hosting
<1> DEFINE q == frames[h][p]
<1>1. PICK f : f = Head(q)
  OBVIOUS
<1>2. PICK s, m : s = Session[p] /\ m = To(p)
  OBVIOUS
<1>3. /\ s \in Sessions /\ m \in Members /\ Home[s] = m
      /\ q \in Seq(FrameType) /\ q # <<>>
      /\ frames \in [Hosts -> [Paths -> Seq(FrameType)]]
      /\ call \in [Sessions -> CallType] /\ heard \in [Members -> Seq(LogType)]
      /\ missed \in [Members -> SUBSET (Hosts \X Nat)]
      /\ UNCHANGED <<said, task, requests, calls, relayed, roster>>
  BY <1>2, PathsLead DEF Pump, LobbyInv, ShapeOK, HeardInv, RelayedOK
<1>4. 1 \in DOMAIN q /\ f = q[1] /\ Tail(q) = Without(q, 1) /\ f \in FrameType
  BY <1>1, <1>3, TailFrame, HeadTailProperties
<1>5. /\ frames' = [frames EXCEPT ![h][p] = Without(@, 1)]
      /\ frames'[h][p] = Without(q, 1)
  <2>1. frames' = [frames EXCEPT ![h] = [@ EXCEPT ![p] = Tail(q)]]
    BY DEF Pump
  <2> QED
    BY <1>3, <1>4, <2>1
<1>6. /\ 1 \in DOMAIN frames[h][p] /\ f = frames[h][p][1]
  BY <1>4
<1> HIDE DEF q
<1>7. CASE f.kind = "relay"
  <2>1. /\ heard' = [heard EXCEPT ![m] =
             IF Readable(h, p, f) THEN Append(@, Post(h, f.pos, p)) ELSE @]
        /\ missed' = [missed EXCEPT ![m] =
             IF roster[m] # Entry(h, f.key) THEN @ \cup {<<h, f.pos>>} ELSE @]
        /\ UNCHANGED call
    BY <1>1, <1>2, <1>7 DEF Pump, q
  <2>2. <<h, f.pos>> \in Hosts \X Nat /\ Readable(h, p, f) <=> roster[m] = Entry(h, f.key)
    BY <1>2, <1>4 DEF FrameType, Readable
  <2>3. /\ missed' \in [Members -> SUBSET (Hosts \X Nat)]
        /\ \A n \in Members : missed[n] \subseteq missed'[n]
        /\ roster[m] # Entry(h, f.key) => <<h, f.pos>> \in missed'[m]
    <3>1. CASE roster[m] # Entry(h, f.key)
      BY <1>3, <1>4, <2>1, <3>1 DEF FrameType
    <3>2. CASE roster[m] = Entry(h, f.key)
      BY <1>3, <2>1, <3>2
    <3> QED
      BY <3>1, <3>2
  <2>4. /\ \A n \in Members : \A g, k : Heard(n, g, k) => Heard(n, g, k)'
        /\ Readable(h, p, f) => Heard(m, h, f.pos)'
    <3>1. CASE Readable(h, p, f)
      <4> DEFINE l == heard[m]
      <4> DEFINE e == Post(h, f.pos, p)
      <4>1. e \in LogType /\ e.host = h /\ e.pos = f.pos /\ l \in Seq(LogType)
        BY <1>3, <1>4 DEF Post, LogType, FrameType
      <4>2. heard'[m] = Append(l, e) /\ \A n \in Members : n # m => heard'[n] = heard[n]
        BY <1>3, <2>1, <3>1
      <4> HIDE DEF l, e
      <4>3. /\ \A i \in DOMAIN l : i \in DOMAIN Append(l, e) /\ Append(l, e)[i] = l[i]
            /\ Len(l) + 1 \in DOMAIN Append(l, e) /\ Append(l, e)[Len(l) + 1] = e
        BY <4>1
      <4>4. Heard(m, h, f.pos)'
        BY <4>1, <4>2, <4>3 DEF Heard
      <4>5. \A n \in Members : \A i \in DOMAIN heard[n] :
              i \in DOMAIN heard'[n] /\ heard'[n][i] = heard[n][i]
        BY <4>2, <4>3 DEF l
      <4> QED
        BY <4>4, <4>5 DEF Heard
    <3>2. CASE ~Readable(h, p, f)
      <4>1. UNCHANGED heard
        BY <1>3, <2>1, <3>2
      <4> QED
        BY <3>2, <4>1 DEF Heard
    <3> QED
      BY <3>1, <3>2
  <2>5. Heard(To(p), h, f.pos)' \/ <<h, f.pos>> \in missed'[To(p)]
    BY <1>2, <2>2, <2>3, <2>4 DEF To
  <2>6. \A n \in Sessions : call'[n] = call[n]
    BY <2>1
  <2> QED
    BY <1>3, <1>5, <1>6, <2>3, <2>4, <2>5, <2>6, HeardLess
<1>8. CASE f.kind # "relay"
  <2> DEFINE c == [call[s] EXCEPT !.status = f.kind, !.pos = f.pos, !.member = f.member,
                                  !.path = p]
  <2>1. /\ call' = [call EXCEPT ![s] = IF Awaited(s, f) THEN c ELSE @]
        /\ UNCHANGED <<heard, missed>>
    BY <1>1, <1>2, <1>8 DEF Pump, q
  <2>2. /\ c.status = f.kind /\ c.pos = f.pos /\ c.member = f.member /\ c.path = p
        /\ c.host = call[s].host
    BY <1>3 DEF CallType
  <2> HIDE DEF c
  <2>3. \A n \in Sessions : n # s => call'[n] = call[n]
    BY <1>3, <2>1
  <2>4. CASE ~Awaited(s, f)
    <3>1. \A n \in Sessions : call'[n] = call[n]
      BY <1>3, <2>1, <2>4
    <3>2. \A n \in Members : \A g, k : Heard(n, g, k) => Heard(n, g, k)'
      BY <2>1 DEF Heard
    <3> QED
      BY <1>3, <1>5, <1>6, <1>8, <2>1, <3>1, <3>2, HeardLess
  <2>5. CASE Awaited(s, f)
    <3>1. call'[s] = c /\ f.kind # "waiting"
      BY <1>3, <1>4, <2>1, <2>5 DEF FrameType
    <3>2. call[s].host = h
      <4>1. Asked(h, f.call)
        BY <1>6, <1>8 DEF HeardInv, AnswersOK
      <4> QED
        BY <1>3, <2>5, <4>1 DEF Asked, Awaited
    <3>3. ASSUME f.kind = "posted", f.member
          PROVE  /\ <<h, f.pos>> \in relayed[m]
                 /\ \A j \in DOMAIN Without(q, 1) :
                      Without(q, 1)[j].kind = "relay" => Without(q, 1)[j].pos # f.pos
      <4>1. Answered(q, h, m)
        BY <1>2 DEF HeardInv, PostsAnswered, q
      <4>2. /\ \A j \in DOMAIN Without(q, 1) : \E k \in DOMAIN q : Without(q, 1)[j] = q[k]
        BY <1>3, <1>4, WithoutRest
      <4>3. \A k \in DOMAIN q : q[k].kind = "relay" => q[k].pos # f.pos
        <5>1. \A k \in DOMAIN q : ~(k < 1)
          BY <1>3
        <5> QED
          BY <1>4, <3>3, <4>1, <5>1 DEF Answered
      <4> QED
        BY <1>4, <3>3, <4>1, <4>2, <4>3 DEF Answered
    <3>4. Returned(s)'
      <4>1. CASE f.kind = "posted" /\ f.member
        <5>1. ~InFlight(h, p, f.pos)'
          BY <1>5, <3>3, <4>1 DEF InFlight
        <5>2. /\ call'[s].host = h /\ call'[s].path = p /\ call'[s].pos = f.pos
          BY <2>2, <3>1, <3>2
        <5>3. ~InFlight(call[s].host, call[s].path, call[s].pos)'
          BY <5>1, <5>2 DEF InFlight
        <5> QED
          BY <1>2, <1>3, <3>3, <4>1, <5>2, <5>3 DEF Returned, To
      <4>2. CASE ~(f.kind = "posted" /\ f.member)
        BY <2>2, <3>1, <4>2 DEF Returned
      <4> QED
        BY <4>1, <4>2
    <3>5. \A n \in Sessions : call'[n] = call[n] \/ call'[n].status # "waiting"
      BY <2>2, <2>3, <3>1
    <3>6. \A n \in Sessions : call'[n] = call[n] \/ Returned(n)'
      BY <2>3, <3>4
    <3>7. \A n \in Members : \A g, k : Heard(n, g, k) => Heard(n, g, k)'
      BY <2>1 DEF Heard
    <3> QED
      BY <1>3, <1>5, <1>6, <1>8, <2>1, <3>5, <3>6, <3>7, HeardLess
  <2> QED
    BY <2>4, <2>5
<1> QED
  BY <1>7, <1>8

(***************************************************************************)
(* The invariants, and what they imply                                     *)
(***************************************************************************)
LEMMA LobbyNextInv ==
  ASSUME LobbyAssumption, LobbyInv, [Next]_vars PROVE LobbyInv'
<1>1. ASSUME NEW h \in Hosts, (\E c \in Caps : register_host(h, c)) \/ HostStop(h)
      PROVE  LobbyInv'
  BY <1>1, HostInv
<1>2. ASSUME NEW h \in Hosts, NEW r \in requests,
             \/ HandleJoin(h, r) \/ HandleLeave(h, r) \/ CheckPost(h, r)
             \/ HandleElsewhere(h, r)
      PROVE  LobbyInv'
  BY <1>2, HandleInv
<1>3. ASSUME NEW h \in Hosts, LogPost(h) \/ ReplyPosted(h) PROVE LobbyInv'
  BY <1>3, LogPostInv, ReplyPostedInv
<1>4. ASSUME NEW h \in Hosts, NEW m \in Members, RelayTo(h, m) PROVE LobbyInv'
  BY <1>4, RelayToInv
<1>5. ASSUME NEW h \in Hosts, NEW p \in Paths, Pump(h, p) PROVE LobbyInv'
  BY <1>5, PumpInv
<1>6. ASSUME NEW h \in Hosts, NEW p \in Paths,
             NEW i \in DOMAIN frames[h][p], LoseFrame(h, p, i)
      PROVE  LobbyInv'
  BY <1>6, LoseFrameInv
<1>7. ASSUME NEW s \in Sessions, Open(s) \/ Close(s) \/ Finish(s) PROVE LobbyInv'
  BY <1>7, SessionInv
<1>8. ASSUME NEW s \in Sessions, NEW h \in Hosts, NEW k \in 1 .. keys, Join(s, h, k)
      PROVE  LobbyInv'
  BY <1>8, StartCallInv DEF Join
<1>9. ASSUME NEW s \in Sessions, NEW kind \in {"post", "leave"}, Use(s, kind)
      PROVE  LobbyInv'
  <2>1. /\ roster[Home[s]].host \in Hosts /\ roster[Home[s]].key \in 1 .. keys
    BY <1>9 DEF LobbyInv, ShapeOK, LobbyTypeOK, LobbyAssumption, Use
  <2> QED
    BY <1>9, <2>1, StartCallInv DEF Use
<1>10. CASE UNCHANGED vars
  <2> USE DEF vars, hosting, wire, joining, history
  <2>1. LobbyTypeOK' /\ ShapeOK'
    BY <1>10 DEF LobbyInv, LobbyTypeOK, ShapeOK
  <2>2. AdmitOK' /\ OrderOK'
    BY <1>10, SilentKeeps
  <2> QED
    BY <2>1, <2>2 DEF LobbyInv
<1> QED
  BY <1>1, <1>2, <1>3, <1>4, <1>5, <1>6, <1>7, <1>8, <1>9, <1>10 DEF Next, Say, Leave

LEMMA HeardNext ==
  ASSUME LobbyAssumption, LobbyInv, HeardInv, [Next]_vars PROVE HeardInv'
<1>1. ASSUME NEW h \in Hosts, (\E c \in Caps : register_host(h, c)) \/ HostStop(h)
      PROVE  HeardInv'
  BY <1>1, HostHeard
<1>2. ASSUME NEW h \in Hosts, NEW r \in requests,
             \/ HandleJoin(h, r) \/ HandleLeave(h, r) \/ CheckPost(h, r)
             \/ HandleElsewhere(h, r)
      PROVE  HeardInv'
  BY <1>2, HandleHeard
<1>3. ASSUME NEW h \in Hosts, LogPost(h) \/ ReplyPosted(h) PROVE HeardInv'
  BY <1>3, LogPostHeard, ReplyHeard
<1>4. ASSUME NEW h \in Hosts, NEW m \in Members, RelayTo(h, m) PROVE HeardInv'
  BY <1>4, RelayToHeard
<1>5. ASSUME NEW h \in Hosts, NEW p \in Paths, Pump(h, p) PROVE HeardInv'
  BY <1>5, PumpHeard
<1>6. ASSUME NEW h \in Hosts, NEW p \in Paths,
             NEW i \in DOMAIN frames[h][p], LoseFrame(h, p, i)
      PROVE  HeardInv'
  BY <1>6, LoseFrameHeard
<1>7. ASSUME NEW s \in Sessions, Open(s) \/ Close(s) \/ Finish(s) PROVE HeardInv'
  BY <1>7, SessionHeard
<1>8. ASSUME NEW s \in Sessions, NEW h \in Hosts, NEW k \in 1 .. keys, Join(s, h, k)
      PROVE  HeardInv'
  BY <1>8, StartCallHeard DEF Join
<1>9. ASSUME NEW s \in Sessions, NEW kind \in {"post", "leave"}, Use(s, kind)
      PROVE  HeardInv'
  <2>1. roster[Home[s]].host \in Hosts
    BY <1>9 DEF LobbyInv, ShapeOK, LobbyAssumption, Use
  <2> QED
    BY <1>9, <2>1, StartCallHeard DEF Use
<1>10. CASE UNCHANGED vars
  <2> USE DEF vars, hosting, wire, joining, history
  <2>1. \A h : \A n \in Nat : Asked(h, n) => Asked(h, n)'
    BY <1>10 DEF Asked
  <2>2. \A s \in Sessions : call'[s].status = "waiting" => call'[s].n <= calls'
    BY <1>10 DEF HeardInv, AnswersOK
  <2> QED
    BY <1>10, <2>1, <2>2, HeardQuiet
<1> QED
  BY <1>1, <1>2, <1>3, <1>4, <1>5, <1>6, <1>7, <1>8, <1>9, <1>10 DEF Next, Say, Leave

\* The invariant of hosts, members and the frames between them.
THEOREM LobbyInvariance == LobbySpec => []LobbyInv
<1>1. LobbyInit => LobbyInv
  BY LobbyInitInv, LobbyAssumption
<1>2. LobbyInv /\ [Next]_vars => LobbyInv'
  BY LobbyNextInv, LobbyAssumption
<1> QED
  BY <1>1, <1>2, PTL DEF LobbySpec

\* Types; and a lobby never has more members than seats.
THEOREM LobbyTypeCorrect == LobbySpec => []LobbyTypeOK
<1>1. LobbyInv => LobbyTypeOK
  BY DEF LobbyInv
<1> QED
  BY <1>1, LobbyInvariance, PTL

\* Only those a host let in with the key of a post hear it or are sent it.
THEOREM AdmittedOnly == LobbySpec => []OnlyAdmittedHear
<1>1. LobbyInv => OnlyAdmittedHear
  BY DEF LobbyInv, AdmitOK, Backed, Logged, OnlyAdmittedHear
<1> QED
  BY <1>1, LobbyInvariance, PTL

\* The invariant of relays and answers.
THEOREM HeardInvariance == LobbySpec => []HeardInv
<1>1. LobbyInit => HeardInv
  BY HeardInit, LobbyAssumption
<1>2. LobbyInv /\ HeardInv /\ [Next]_vars => HeardInv'
  BY HeardNext, LobbyAssumption
<1> QED
  BY <1>1, <1>2, LobbyInvariance, PTL DEF LobbySpec

\* A relay the host counted is in the log of the member, or under way, or went
\* down with a connection, or came when the roster had no entry for it: no pump
\* drops one for any other reason, whatever its session is doing.
THEOREM RelaysKept == LobbySpec => []RelaysConserved
<1>1. HeardInv => RelaysConserved
  BY DEF HeardInv
<1> QED
  BY <1>1, HeardInvariance, PTL

\* When a call returns Posted, a poster the host counts among the members has
\* the post in its log, unless the relay was missed or takes another path than
\* the answer: the host relays before it answers, and a path keeps the order.
THEOREM PostersHear == LobbySpec => []PostedIsHeard
<1>1. ASSUME LobbyAssumption, HeardInv PROVE PostedIsHeard
  <2>1. ASSUME NEW s \in Sessions, call[s].status = "posted", call[s].member
        PROVE  \/ Heard(Home[s], call[s].host, call[s].pos)
               \/ <<call[s].host, call[s].pos>> \in missed[Home[s]]
               \/ \E p \in Paths : /\ To(p) = Home[s] /\ p # call[s].path
                                   /\ InFlight(call[s].host, p, call[s].pos)
    <3> DEFINE x == <<call[s].host, call[s].pos>>
    <3>1. /\ x \in relayed[Home[s]] /\ x[1] = call[s].host /\ x[2] = call[s].pos
          /\ Home[s] \in Members
          /\ ~InFlight(call[s].host, call[s].path, call[s].pos)
      BY <1>1, <2>1 DEF HeardInv, Returned, LobbyAssumption
    <3>2. \/ Heard(Home[s], x[1], x[2]) \/ x \in missed[Home[s]]
          \/ \E p \in Paths : To(p) = Home[s] /\ InFlight(x[1], p, x[2])
      BY <1>1, <3>1 DEF HeardInv, RelaysConserved
    <3> QED
      BY <3>1, <3>2
  <2> QED
    BY <2>1 DEF PostedIsHeard
<1>2. HeardInv => PostedIsHeard
  BY <1>1, LobbyAssumption
<1> QED
  BY <1>2, HeardInvariance, PTL

Lengths == [h \in Hosts |-> Len(said[h])]

LEMMA SaysOrHears ==
  ASSUME LobbyAssumption, LobbyInv, [Next]_vars
  PROVE  [room!RoomNext]_<<Lengths, heard>>
<1> USE DEF vars, hosting, wire, joining, history
<1>1. LobbyTypeOK /\ ShapeOK /\ AdmitOK /\ OrderOK
  BY DEF LobbyInv
<1>2. ASSUME NEW h \in Hosts, LogPost(h) PROVE room!RoomNext
  <2>1. /\ said[h] \in Seq(1 .. keys) /\ Len(said[h]) < MaxPosts
        /\ said'[h] = Append(said[h], task[h].key) /\ UNCHANGED heard
        /\ \A g \in Hosts : g # h => said'[g] = said[g]
    BY <1>1, <1>2 DEF LogPost, LobbyTypeOK
  <2>2. Len(said'[h]) = Len(said[h]) + 1
    BY <2>1
  <2>3. room!Say(h)
    BY <2>1, <2>2 DEF room!Say
  <2> QED
    BY <2>3 DEF room!RoomNext
<1>3. ASSUME NEW h \in Hosts, NEW p \in Paths, Pump(h, p)
      PROVE  room!RoomNext \/ UNCHANGED <<said, heard>>
  <2> DEFINE q == frames[h][p]
  <2> DEFINE f == Head(q)
  <2>1. /\ q \in Seq(FrameType) /\ q # <<>> /\ 1 \in DOMAIN q /\ f = q[1]
        /\ To(p) \in Members
    BY <1>1, <1>3, TailFrame, PathsLead DEF Pump, ShapeOK
  <2>2. UNCHANGED said
    BY <1>3 DEF Pump
  <2> HIDE DEF q, f
  <2>3. CASE /\ f.kind = "relay"
             /\ heard' = [heard EXCEPT ![To(p)] = Append(@, Post(h, f.pos, p))]
    <3>1. f.pos \in DOMAIN said[h]
      BY <1>1, <2>1, <2>3 DEF AdmitOK, Backed, q
    <3>2. \A k \in DOMAIN heard[To(p)] : heard[To(p)][k].host = h =>
            /\ heard[To(p)][k].pos # f.pos
            /\ heard[To(p)][k].path = p => heard[To(p)][k].pos < f.pos
      BY <1>1, <2>1, <2>3 DEF OrderOK, After, q
    <3>3. f.pos \in 1 .. Len(said[h]) /\ Len(said[h]) \in Nat
      BY <1>1, <3>1 DEF LobbyTypeOK
    <3>4. room!Hear(To(p), h, f.pos, p)
      BY <2>2, <2>3, <3>2, <3>3 DEF room!Hear, Post
    <3> QED
      BY <2>1, <3>3, <3>4 DEF room!RoomNext
  <2>4. CASE UNCHANGED heard \/ heard' = [heard EXCEPT ![To(p)] = heard[To(p)]]
    BY <1>1, <2>2, <2>4 DEF ShapeOK
  <2> QED
    BY <1>3, <2>3, <2>4 DEF Pump, f, q
<1>4. ASSUME NEW h \in Hosts,
             \/ \E c \in Caps : register_host(h, c)
             \/ HostStop(h) \/ ReplyPosted(h)
             \/ \E r \in requests :
                  \/ HandleJoin(h, r) \/ HandleLeave(h, r) \/ CheckPost(h, r)
                  \/ HandleElsewhere(h, r)
             \/ \E m \in Members : RelayTo(h, m)
             \/ \E p \in Paths : \E i \in DOMAIN frames[h][p] : LoseFrame(h, p, i)
      PROVE  UNCHANGED <<said, heard>>
  BY <1>4 DEF register_host, HostStop, ReplyPosted, HandleJoin, HandleLeave, CheckPost,
              HandleElsewhere, RelayTo, LoseFrame
<1>5. ASSUME NEW s \in Sessions,
             \/ Open(s) \/ Close(s) \/ Finish(s)
             \/ \E h \in Hosts, k \in 1 .. keys : Join(s, h, k)
             \/ Say(s) \/ Leave(s)
      PROVE  UNCHANGED <<said, heard>>
  BY <1>5 DEF Open, Close, Finish, Join, Say, Leave, Use, StartCall
<1>6. UNCHANGED <<said, heard>> => UNCHANGED <<Lengths, heard>>
  BY DEF Lengths
<1> QED
  BY <1>2, <1>3, <1>4, <1>5, <1>6 DEF Next

\* A lobby is a room: whatever stops, rejoins, lost frames, replaced paths and
\* new keys there are, and however many processes of a home take frames, a
\* member hears a post at most once, and the posts of a host that come over one
\* path in order.
THEOREM LobbyImplementsRoom == LobbySpec => RoomSpec
<1>1. LobbyInit => room!RoomInit
  BY DEF LobbyInit, room!RoomInit
<1>2. LobbyInv /\ [Next]_vars => [room!RoomNext]_<<Lengths, heard>>
  BY SaysOrHears, LobbyAssumption
<1> QED
  BY <1>1, <1>2, LobbyInvariance, PTL DEF LobbySpec, RoomSpec, room!RoomSpec, Lengths
=============================================================================
