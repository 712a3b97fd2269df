------------------------------ MODULE Services ------------------------------
(***************************************************************************)
(* The services of a core that keep a small file each                      *)
(* (src/src/app/rendezvous.rs, src/src/app/core.rs and the lists of        *)
(* src/src/app/storage.rs): where a device can be reached, who may revoke, *)
(* and who is revoked.  The processes of the core share the files; each    *)
(* change is a read, a write to one temporary name and a rename, which     *)
(* other processes may get in between.  Commands and shells on the devices *)
(* register, scan and revoke; those of one device share the counter of its *)
(* revocations.                                                            *)
(*                                                                         *)
(* A registration stands for the address it announces.  Filters of `scan`, *)
(* the wording of refusals and signatures, which only the device itself    *)
(* can make, are left out.                                                 *)
(***************************************************************************)
EXTENDS Naturals

CONSTANTS Handlers, Admins,       \* at the core: processes that take frames,
                                  \* and runs of `operator add`
          Clients, Owner,         \* commands and shells, and their devices
          Kinds,                  \* client -> the commands it can be given
          Devices, NoDevice,
          Trusted, Targets,       \* those made operators, and those revoked
          Ttls, MinTtl, MaxTtl,
          MaxTime, MaxCalls, MaxFaults   \* bounds

Procs == Handlers \cup Admins
Files == {"rendezvous", "operators", "revocations"}
Calls == 1 .. MaxCalls

ASSUME ServicesAssumption ==
  /\ Handlers \cap Admins = {}
  /\ Owner \in [Clients -> Devices] /\ NoDevice \notin Devices
  /\ Kinds \in [Clients -> SUBSET {"register", "list", "revoke"}]
  /\ Trusted \subseteq Devices /\ Targets \subseteq Devices
  /\ Ttls \subseteq Nat /\ MinTtl \in Nat \ {0} /\ MaxTtl \in Nat
  /\ MinTtl <= MaxTtl
  /\ {MaxTime, MaxCalls, MaxFaults} \subseteq Nat

VARIABLES
  now,
  file, tmp,        \* the files, and what is under their temporary names
  job,              \* process of the core -> the file it rewrites
  epoch, epochTmp,  \* revoke.epoch of each device, 0 when missing
  cmd,              \* client -> the command under way
  calls,
  requests, replies,
  sent,             \* history: the frames that change a file, and operator adds
  taken,            \* history: call -> when it was handled, plus 1
  acked,            \* history: calls that were reported as done
  shown,            \* history: records a scan printed, and when it began
  disturbed,        \* history: <<call, file>> rewritten during another rewrite
  late,             \* history: registrations that an older one followed
  faults

disk == <<file, tmp, job>>
device == <<epoch, epochTmp, cmd, calls>>
wire == <<requests, replies>>
history == <<sent, taken, acked, shown, disturbed, late>>
vars == <<now, disk, device, wire, history, faults>>

Record(d, n, t) == [device |-> d, call |-> n, expires_at |-> t]
Records == [device : Devices, call : Calls, expires_at : 1 .. MaxTime + MaxTtl]

NoJob == [pc |-> "idle", file |-> "operators", call |-> 0, from |-> NoDevice,
          content |-> {}]
NoCmd == [pc |-> "idle", kind |-> "list", call |-> 0, target |-> NoDevice,
          epoch |-> 0, began |-> 0, active |-> FALSE, hits |-> {}, live |-> {}]

Frame(n, d, kind, x, ttl, e) ==
  [call |-> n, from |-> d, kind |-> kind, target |-> x, ttl |-> ttl, epoch |-> e]
Reply(m, outcome, records) ==
  [to |-> m.from, call |-> m.call, target |-> m.target, outcome |-> outcome,
   records |-> records]

ServicesInit ==
  /\ now = 0
  /\ file = [f \in Files |-> {}] /\ tmp = [f \in Files |-> {}]
  /\ job = [p \in Procs |-> NoJob]
  /\ epoch = [d \in Devices |-> 0] /\ epochTmp = [d \in Devices |-> 0]
  /\ cmd = [c \in Clients |-> NoCmd]
  /\ calls = 0
  /\ requests = {} /\ replies = {}
  /\ sent = {}
  /\ taken = [n \in Calls |-> 0]
  /\ acked = {} /\ shown = {} /\ disturbed = {} /\ late = {}
  /\ faults = 0

(***************************************************************************)
(* The clock and the faults                                                *)
(***************************************************************************)
Tick ==
  /\ now < MaxTime
  /\ now' = now + 1
  /\ UNCHANGED <<disk, device, wire, history, faults>>

\* A process of the core is stopped, or cannot write: no reply.
HandlerFails(p) ==
  /\ job[p].pc # "idle"
  /\ faults < MaxFaults
  /\ faults' = faults + 1
  /\ job' = [job EXCEPT ![p] = NoJob]
  /\ UNCHANGED <<now, file, tmp, device, wire, history>>

Interrupt(c) ==
  /\ cmd[c].pc # "idle"
  /\ faults < MaxFaults
  /\ faults' = faults + 1
  /\ cmd' = [cmd EXCEPT ![c] = NoCmd]
  /\ UNCHANGED <<now, disk, epoch, epochTmp, calls, wire, history>>

Lose ==
  /\ faults < MaxFaults
  /\ faults' = faults + 1
  /\ \/ \E m \in requests : requests' = requests \ {m} /\ UNCHANGED replies
     \/ \E m \in replies : replies' = replies \ {m} /\ UNCHANGED requests
  /\ UNCHANGED <<now, disk, device, history>>

(***************************************************************************)
(* The commands                                                            *)
(***************************************************************************)
Begin(c, m) ==
  /\ cmd[c].pc = "idle" /\ calls < MaxCalls
  /\ calls' = calls + 1
  /\ cmd' = [cmd EXCEPT ![c] = m]

Register(c, ttl) ==
  /\ Begin(c, [NoCmd EXCEPT !.pc = "waiting", !.kind = "register",
                            !.call = calls + 1])
  /\ LET m == Frame(calls + 1, Owner[c], "register", NoDevice, ttl, 0) IN
     requests' = requests \cup {m} /\ sent' = sent \cup {m}
  /\ UNCHANGED <<now, disk, epoch, epochTmp, replies, taken, acked, shown,
                 disturbed, late, faults>>

Scan(c, active) ==
  /\ Begin(c, [NoCmd EXCEPT !.pc = "waiting", !.call = calls + 1, !.began = now,
                            !.active = active])
  /\ requests' = requests \cup
       {Frame(calls + 1, Owner[c], "list", NoDevice, 0, 0)}
  /\ UNCHANGED <<now, disk, epoch, epochTmp, replies, history, faults>>

\* `scan --active` asks for one hit after the other.
Probe(c, r) ==
  /\ cmd[c].pc = "listed" /\ cmd[c].active /\ r \in cmd[c].hits
  /\ cmd' = [cmd EXCEPT ![c].pc = "waiting", ![c].kind = "probe",
                        ![c].target = r.device]
  /\ requests' = requests \cup
       {Frame(cmd[c].call, Owner[c], "probe", r.device, 0, 0)}
  /\ UNCHANGED <<now, disk, epoch, epochTmp, calls, replies, history, faults>>

\* What is left after the probes, or every hit without --active.
Show(c) ==
  /\ cmd[c].pc = "listed" /\ (cmd[c].active => cmd[c].hits = {})
  /\ shown' = shown \cup {[began |-> cmd[c].began, record |-> r] :
                            r \in cmd[c].hits \cup cmd[c].live}
  /\ cmd' = [cmd EXCEPT ![c] = NoCmd]
  /\ UNCHANGED <<now, disk, epoch, epochTmp, calls, wire, sent, taken, acked,
                 disturbed, late, faults>>

\* `revoke`: next_revocation_epoch reads the counter ...
Numbering(c) == cmd[c].pc \in {"numbered", "stamped"}

\* Mutant: the counter is not advanced.
SameEpoch(d) == IF epoch[d] = 0 THEN 1 ELSE epoch[d]

NextEpoch(d) == epoch[d] + 1

Revoke(c, x) ==
  /\ Begin(c, [NoCmd EXCEPT !.pc = "numbered", !.kind = "revoke",
        !.call = calls + 1, !.target = x, !.epoch = NextEpoch(Owner[c])])
  /\ LET others == {b \in Clients : Owner[b] = Owner[c] /\ Numbering(b)} IN
     disturbed' = disturbed \cup
       {<<n, "epoch">> : n \in {cmd[b].call : b \in others}
                                 \cup {k \in {calls'} : others # {}}}
  /\ UNCHANGED <<now, disk, epoch, epochTmp, wire, sent, taken, acked, shown, late,
                 faults>>

\* ... writes the next number under the temporary name ...
WriteEpoch(c) ==
  /\ cmd[c].pc = "numbered"
  /\ epochTmp' = [epochTmp EXCEPT ![Owner[c]] = cmd[c].epoch]
  /\ cmd' = [cmd EXCEPT ![c].pc = "stamped"]
  /\ UNCHANGED <<now, disk, epoch, calls, wire, history, faults>>

\* ... and renames it, before the device is even reached.
RenameEpoch(c) ==
  /\ cmd[c].pc = "stamped" /\ epochTmp[Owner[c]] # 0
  /\ epoch' = [epoch EXCEPT ![Owner[c]] = epochTmp[Owner[c]]]
  /\ epochTmp' = [epochTmp EXCEPT ![Owner[c]] = 0]
  /\ cmd' = [cmd EXCEPT ![c].pc = "signed"]
  /\ UNCHANGED <<now, disk, calls, wire, history, faults>>

EpochFails(c) ==
  /\ cmd[c].pc = "stamped" /\ epochTmp[Owner[c]] = 0
  /\ cmd' = [cmd EXCEPT ![c] = NoCmd]
  /\ UNCHANGED <<now, disk, epoch, epochTmp, calls, wire, history, faults>>

\* The one core that the command names is told.
Broadcast(c) ==
  /\ cmd[c].pc = "signed"
  /\ cmd' = [cmd EXCEPT ![c].pc = "waiting"]
  /\ LET m == Frame(cmd[c].call, Owner[c], "revoke", cmd[c].target, 0, cmd[c].epoch) IN
     requests' = requests \cup {m} /\ sent' = sent \cup {m}
  /\ UNCHANGED <<now, disk, epoch, epochTmp, calls, replies, taken, acked, shown,
                 disturbed, late, faults>>

\* Mutant: the answer to a probe is not recognised.
AwaitedCommand(c, m) ==
  cmd[c].pc = "waiting" /\ cmd[c].call = m.call /\ m.target = NoDevice

Awaited(c, m) ==
  cmd[c].pc = "waiting" /\ cmd[c].call = m.call /\ cmd[c].target = m.target

\* A reply reaches one of the processes of its device, and is dropped by one
\* that does not wait for it.
Deliver(c, m) ==
  /\ m \in replies /\ m.to = Owner[c]
  /\ replies' = replies \ {m}
  /\ LET k == cmd[c]
         probed == {r \in k.hits : r.device = m.target}
         alive == {r \in probed : m.outcome = "alive"} IN
     /\ cmd' = [cmd EXCEPT ![c] =
          IF ~Awaited(c, m) THEN k
          ELSE IF k.kind = "list" THEN [k EXCEPT !.pc = "listed", !.hits = m.records]
          ELSE IF k.kind = "probe"
            THEN [k EXCEPT !.pc = "listed", !.hits = k.hits \ probed,
                           !.live = k.live \cup alive]
          ELSE NoCmd]
     /\ acked' = acked \cup
          {n \in {m.call} : Awaited(c, m) /\ m.outcome = "done"}
  /\ UNCHANGED <<now, disk, epoch, epochTmp, calls, requests, sent, taken, shown,
                 disturbed, late, faults>>

(***************************************************************************)
(* The handlers, and `operator add`                                        *)
(***************************************************************************)
\* A process reads a file and sets out to replace its content.
Load(p, f, n, d, content) ==
  /\ job[p].pc = "idle"
  /\ job' = [job EXCEPT ![p] = [pc |-> "loaded", file |-> f, call |-> n, from |-> d,
                                content |-> content]]
  /\ LET others == {q \in Procs : job[q].pc # "idle" /\ job[q].file = f} IN
     disturbed' = disturbed \cup
       {<<k, f>> : k \in {job[q].call : q \in others}
                           \cup {i \in {n} : others # {}}}

\* Mutant: a registration lives as long as it asks.
TtlUnclamped(ttl) == ttl

Ttl(ttl) == IF ttl < MinTtl THEN MinTtl ELSE IF ttl > MaxTtl THEN MaxTtl ELSE ttl

\* Mutant: nothing expires.
LiveForever(records) == records

\* prune.
Live(records) == {r \in records : r.expires_at > now}

Registered(m) ==
  {r \in file["rendezvous"] : r.device # m.from}
    \cup {Record(m.from, m.call, now + Ttl(m.ttl))}

TakeRegister(p, m) ==
  /\ m \in requests /\ m.kind = "register"
  /\ requests' = requests \ {m}
  /\ Load(p, "rendezvous", m.call, m.from, Live(Registered(m)))
  /\ taken' = [taken EXCEPT ![m.call] = now + 1]
  /\ late' = late \cup {k.call : k \in {j \in sent :
        j.kind = "register" /\ j.from = m.from /\ j.call > m.call /\ taken[j.call] # 0}}
  /\ UNCHANGED <<now, file, tmp, device, replies, sent, acked, shown, faults>>

Answer(p, m, outcome, records) ==
  /\ job[p].pc = "idle"
  /\ m \in requests
  /\ requests' = requests \ {m}
  /\ replies' = replies \cup {Reply(m, outcome, records)}
  /\ UNCHANGED <<now, disk, device, history, faults>>

TakeList(p, m) ==
  m.kind = "list" /\ Answer(p, m, "records", Live(file["rendezvous"]))

\* A probe asks the list, not the device.
TakeProbe(p, m) ==
  /\ m.kind = "probe"
  /\ LET found == {r \in Live(file["rendezvous"]) : r.device = m.target} IN
     Answer(p, m, IF found = {} THEN "gone" ELSE "alive", {})

\* Mutant: whoever asks is an operator.
AnyoneIsOperator(d) == TRUE

IsOperator(d) == d \in file["operators"]

RefuseRevoke(p, m) ==
  m.kind = "revoke" /\ ~IsOperator(m.from) /\ Answer(p, m, "refused", {})

TakeRevoke(p, m) ==
  /\ m \in requests /\ m.kind = "revoke" /\ IsOperator(m.from)
  /\ requests' = requests \ {m}
  /\ Load(p, "revocations", m.call, m.from, file["revocations"] \cup {m.target})
  /\ taken' = [taken EXCEPT ![m.call] = now + 1]
  /\ UNCHANGED <<now, file, tmp, device, replies, sent, acked, shown, late, faults>>

AddOperator(p, d) ==
  /\ calls < MaxCalls
  /\ calls' = calls + 1
  /\ Load(p, "operators", calls', NoDevice, file["operators"] \cup {d})
  /\ sent' = sent \cup {Frame(calls', NoDevice, "operator", d, 0, 0)}
  /\ UNCHANGED <<now, file, tmp, epoch, epochTmp, cmd, wire, taken, acked, shown,
                 late, faults>>

Write(p) ==
  /\ job[p].pc = "loaded"
  /\ tmp' = [tmp EXCEPT ![job[p].file] = {job[p].content}]
  /\ job' = [job EXCEPT ![p].pc = "written"]
  /\ UNCHANGED <<now, file, device, wire, history, faults>>

\* The handler replies; `operator add` says that it is done.
Done(p) ==
  LET request == {m \in sent : m.call = job[p].call} IN
  IF p \in Admins
    THEN acked' = acked \cup {job[p].call} /\ UNCHANGED replies
    ELSE /\ replies' = replies \cup {Reply(m, "done", {}) : m \in request}
         /\ UNCHANGED acked

\* Mutant: success is reported before the rename.
RenameForgets(p) ==
  /\ job[p].pc = "written" /\ tmp[job[p].file] # {}
  /\ Done(p)
  /\ job' = [job EXCEPT ![p] = NoJob]
  /\ UNCHANGED <<now, file, tmp, device, requests, sent, taken, shown, disturbed,
                 late, faults>>

Rename(p) ==
  /\ job[p].pc = "written"
  /\ LET f == job[p].file IN
     /\ \E content \in tmp[f] : file' = [file EXCEPT ![f] = content]
     /\ tmp' = [tmp EXCEPT ![f] = {}]
  /\ Done(p)
  /\ job' = [job EXCEPT ![p] = NoJob]
  /\ UNCHANGED <<now, device, requests, sent, taken, shown, disturbed, late, faults>>

\* Another process took the temporary file: the handler returns an error.
RenameFails(p) ==
  /\ job[p].pc = "written" /\ tmp[job[p].file] = {}
  /\ job' = [job EXCEPT ![p] = NoJob]
  /\ UNCHANGED <<now, file, tmp, device, wire, history, faults>>

-----------------------------------------------------------------------------
Handle(p) ==
  \/ \E m \in requests :
       \/ TakeRegister(p, m) \/ TakeList(p, m) \/ TakeProbe(p, m)
       \/ TakeRevoke(p, m) \/ RefuseRevoke(p, m)
  \/ Write(p) \/ Rename(p) \/ RenameFails(p)

Proceed(c) ==
  \/ WriteEpoch(c) \/ RenameEpoch(c) \/ EpochFails(c) \/ Broadcast(c)
  \/ \E r \in cmd[c].hits : Probe(c, r)
  \/ Show(c)
  \/ \E m \in replies : Deliver(c, m)

Next ==
  \/ Tick \/ Lose
  \/ \E p \in Handlers : Handle(p)
  \/ \E p \in Admins :
       \/ \E d \in Trusted : AddOperator(p, d)
       \/ Write(p) \/ Rename(p) \/ RenameFails(p)
  \/ \E p \in Procs : HandlerFails(p)
  \/ \E c \in Clients :
       \/ "register" \in Kinds[c] /\ \E ttl \in Ttls : Register(c, ttl)
       \/ "list" \in Kinds[c] /\ \E active \in BOOLEAN : Scan(c, active)
       \/ "revoke" \in Kinds[c] /\ \E x \in Targets : Revoke(c, x)
       \/ Proceed(c) \/ Interrupt(c)

ServicesSpec == ServicesInit /\ [][Next]_vars

\* The core's loop, the commands that were started and the network go on;
\* nobody has to start a command.
FairServicesSpec ==
  /\ ServicesSpec
  /\ \A p \in Handlers : WF_vars(Handle(p))
  /\ \A c \in Clients : WF_vars(Proceed(c))

-----------------------------------------------------------------------------
(* Properties *)

\* Types.  A registration ends at most MAX_TTL after it was handled.
ServicesTypeOK ==
  /\ now \in 0 .. MaxTime
  /\ file["rendezvous"] \subseteq Records
  /\ file["operators"] \subseteq Devices /\ file["revocations"] \subseteq Devices
  /\ \A r, s \in file["rendezvous"] : r.device = s.device => r = s
  /\ DOMAIN job = Procs /\ DOMAIN cmd = Clients
  /\ \A p \in Procs :
       /\ job[p].pc \in {"idle", "loaded", "written"}
       /\ job[p].file \in Files /\ job[p].call \in 0 .. calls
  /\ \A c \in Clients :
       /\ cmd[c].pc \in {"idle", "numbered", "stamped", "signed", "waiting", "listed"}
       /\ cmd[c].call \in 0 .. calls
       /\ cmd[c].hits \cup cmd[c].live \subseteq Records
  /\ {epoch, epochTmp} \subseteq [Devices -> 0 .. MaxCalls]
  /\ calls \in 0 .. MaxCalls
  /\ \A m \in requests \cup sent : m.call \in 1 .. calls
  /\ acked \subseteq 1 .. calls
  /\ taken \in [Calls -> 0 .. MaxTime + 1]
  /\ faults \in 0 .. MaxFaults

FileOf(m) ==
  CASE m.kind = "register" -> "rendezvous"
    [] m.kind = "revoke" -> "revocations"
    [] OTHER -> "operators"

\* The time of a registration, or of one the device made after it, is over.
Outlived(m) ==
  \E j \in sent :
    /\ j.kind = "register" /\ j.from = m.from /\ j.call >= m.call
    /\ taken[j.call] # 0 /\ taken[j.call] - 1 + Ttl(j.ttl) <= now

\* A content of its file does what frame m asked for.
Holds(m, content) ==
  IF m.kind = "register"
    THEN \/ Outlived(m)
         \/ m.call \in late
         \/ \E r \in content : r.device = m.from /\ r.call >= m.call
    ELSE m.target \in content

Applied(m) == Holds(m, file[FileOf(m)])

\* What was reported as done stays done, whatever processes the core runs and
\* wherever they are stopped: a revocation and an operator for good, a
\* registration until it expires or one that the same device made later does:
\* a registration replaces a longer one, and is pruned on its own time.  Two
\* cases are left out: two processes rewrote the file at the same time, or an
\* older registration of the device, whose command was interrupted, arrived
\* after it.
AckedIsApplied ==
  \A m \in sent :
    m.call \in acked /\ <<m.call, FileOf(m)>> \notin disturbed => Applied(m)

\* "revocation is rejected unless the authenticated calling identity is
\* listed": whoever is revoked was named by a device that somebody made an
\* operator on this core before, whatever copy of a list a process writes back.
RevokedByOperators ==
  \A x \in file["revocations"] :
    \E m \in sent, o \in sent :
      /\ m.kind = "revoke" /\ m.target = x /\ taken[m.call] # 0
      /\ o.kind = "operator" /\ o.target = m.from

\* "an expired one falls out of scan on its own": every line of a scan is a
\* registration of that very device, handled at most MAX_TTL before the scan
\* began and not expired then, although the list is read in one call and the
\* probes are answered from later ones.
ScanShowsLive ==
  \A s \in shown :
    /\ s.record.expires_at > s.began
    /\ taken[s.record.call] - 1 + MaxTtl > s.began
    /\ \E m \in sent : /\ m.call = s.record.call /\ m.from = s.record.device
                       /\ m.kind = "register"

\* "so every broadcast is unique": no two revocations of a device carry the
\* same number, though commands are interrupted between the steps that count,
\* unless two commands count at the same time.
EpochsUnique ==
  \A a, b \in sent :
    /\ a.kind = "revoke" /\ b.kind = "revoke" /\ a.from = b.from /\ a # b
    /\ {<<a.call, "epoch">>, <<b.call, "epoch">>} \cap disturbed = {}
    => a.epoch # b.epoch

Alone(c) == \A b \in Clients : Owner[b] = Owner[c] => b = c

\* A command ends, its probes included, unless a fault or another rewrite hits
\* the core, or another process of the device takes its answer.
CommandEnds ==
  \A c \in Clients : Alone(c) =>
    (cmd[c].pc # "idle" ~> cmd[c].pc = "idle" \/ faults > 0 \/ disturbed # {})
=============================================================================
