--------------------------- MODULE ServicesProofs ---------------------------
(***************************************************************************)
(* Proofs about Services, for any number of processes, devices and calls:  *)
(* who can be in the list of the revoked, what a scan can show, and that   *)
(* two revocations of one device do not carry one number.                  *)
(***************************************************************************)
EXTENDS Services, TLAPS

(***************************************************************************)
(* What the files, their temporary copies and the processes that are about *)
(* to write them may hold                                                  *)
(***************************************************************************)
\* Somebody ran `operator add` for x.
Appointed(x) == \E o \in sent : o.kind = "operator" /\ o.target = x

\* A frame that an appointed device sent, and that was taken, names x.
Denounced(x) ==
  \E m \in sent, o \in sent :
    /\ m.kind = "revoke" /\ m.target = x /\ taken[m.call] # 0
    /\ o.kind = "operator" /\ o.target = m.from

\* A record was made of a registration of its device, for at most MAX_TTL.
Announced(r) ==
  /\ r \in Records
  /\ r.expires_at <= taken[r.call] - 1 + MaxTtl
  /\ \E m \in sent : m.call = r.call /\ m.from = r.device /\ m.kind = "register"

Fits(f, content) ==
  /\ f = "rendezvous" =>
       /\ \A r \in content : Announced(r)
       /\ \A r, s \in content : r.device = s.device => r = s
  /\ f = "operators" => \A x \in content : x \in Devices /\ Appointed(x)
  /\ f = "revocations" => \A x \in content : x \in Devices /\ Denounced(x)

FilesOK ==
  /\ DOMAIN file = Files /\ DOMAIN tmp = Files
  /\ \A f \in Files : Fits(f, file[f]) /\ \A content \in tmp[f] : Fits(f, content)

JobOK(j) ==
  /\ DOMAIN j = {"pc", "file", "call", "from", "content"}
  /\ j.pc \in {"idle", "loaded", "written"}
  /\ j.file \in Files /\ j.call \in 0 .. calls
  /\ j.pc # "idle" => j.call \in 1 .. calls /\ Fits(j.file, j.content)

JobsOK == DOMAIN job = Procs /\ \A p \in Procs : JobOK(job[p])

(***************************************************************************)
(* Clocks, commands and frames                                             *)
(***************************************************************************)
ClockOK ==
  /\ now \in 0 .. MaxTime /\ calls \in 0 .. MaxCalls /\ faults \in 0 .. MaxFaults
  /\ taken \in [Calls -> 0 .. MaxTime + 1] /\ \A n \in Calls : taken[n] <= now + 1
  /\ acked \subseteq 1 .. calls

EpochsOK ==
  /\ epoch \in [Devices -> Nat] /\ epochTmp \in [Devices -> Nat]
  /\ \A d \in Devices : epoch[d] <= calls /\ epochTmp[d] <= calls

RequestOK(m) ==
  /\ m.call \in 1 .. calls /\ m.from \in Devices
  /\ m.kind = "register" => m \in sent /\ m.ttl \in Nat
  /\ m.kind = "revoke" => m \in sent /\ m.target \in Devices

ReplyOK(x) == x.call \in 1 .. calls /\ \A r \in x.records : Announced(r)

FramesOK ==
  /\ \A m \in sent : m.call \in 1 .. calls
  /\ \A m \in requests : RequestOK(m)
  /\ \A x \in replies : ReplyOK(x)

CmdFields == {"pc", "kind", "call", "target", "epoch", "began", "active", "hits", "live"}

CommandOK(k) ==
  /\ DOMAIN k = CmdFields
  /\ k.pc \in {"idle", "numbered", "stamped", "signed", "waiting", "listed"}
  /\ k.call \in 0 .. calls /\ k.epoch \in 0 .. calls /\ k.began \in 0 .. now
  /\ k.pc # "idle" => k.call \in 1 .. calls
  /\ k.pc \in {"numbered", "stamped", "signed"} => k.target \in Devices
  /\ \A r \in k.hits \cup k.live : Announced(r) /\ k.began < r.expires_at

CommandsOK == DOMAIN cmd = Clients /\ \A c \in Clients : CommandOK(cmd[c])

\* The answer to a command was read after the command began.
Fresh(x, k) == k.call = x.call => \A r \in x.records : k.began < r.expires_at

AnswersOK == \A x \in replies, c \in Clients : Fresh(x, cmd[c])

ShownOK ==
  \A s \in shown :
    Announced(s.record) /\ s.began \in Nat /\ s.began < s.record.expires_at

ServicesInv ==
  /\ FilesOK /\ JobsOK /\ ClockOK /\ EpochsOK
  /\ FramesOK /\ CommandsOK /\ AnswersOK /\ ShownOK

LEMMA ServicesInitInv ==
  ASSUME ServicesAssumption, ServicesInit PROVE ServicesInv
<1> USE DEF ServicesInit
<1>1. FilesOK /\ JobsOK
  BY DEF FilesOK, JobsOK, JobOK, Fits, NoJob, Files
<1>2. ClockOK /\ EpochsOK
  BY DEF ClockOK, EpochsOK, ServicesAssumption, Calls
<1>3. FramesOK /\ AnswersOK /\ ShownOK
  BY DEF FramesOK, AnswersOK, ShownOK
<1>4. CommandsOK
  BY DEF CommandsOK, CommandOK, CmdFields, NoCmd
<1> QED
  BY <1>1, <1>2, <1>3, <1>4 DEF ServicesInv

LEMMA InvGivesTypes ==
  ASSUME ServicesAssumption, ServicesInv PROVE ServicesTypeOK
<1>1. /\ \A r \in file["rendezvous"] : Announced(r)
      /\ \A r, s \in file["rendezvous"] : r.device = s.device => r = s
      /\ file["operators"] \subseteq Devices /\ file["revocations"] \subseteq Devices
  BY DEF ServicesInv, FilesOK, Files, Fits
<1>2. \A c \in Clients : cmd[c].hits \cup cmd[c].live \subseteq Records
  BY DEF ServicesInv, CommandsOK, CommandOK, Announced
<1>3. {epoch, epochTmp} \subseteq [Devices -> 0 .. MaxCalls]
  BY DEF ServicesInv, EpochsOK, ClockOK, ServicesAssumption
<1>4. file["rendezvous"] \subseteq Records
  BY <1>1 DEF Announced
<1>5. /\ DOMAIN job = Procs /\ DOMAIN cmd = Clients
      /\ \A p \in Procs : /\ job[p].pc \in {"idle", "loaded", "written"}
                          /\ job[p].file \in Files /\ job[p].call \in 0 .. calls
  BY DEF ServicesInv, JobsOK, JobOK, CommandsOK
<1>6. \A m \in requests \cup sent : m.call \in 1 .. calls
  BY DEF ServicesInv, FramesOK, RequestOK
<1> QED
  BY <1>1, <1>2, <1>3, <1>4, <1>5, <1>6 DEF ServicesInv, ServicesTypeOK, ClockOK, CommandsOK, CommandOK

(***************************************************************************)
(* What was once known of a list, a process or a frame stays true          *)
(***************************************************************************)
Grows ==
  /\ sent \subseteq sent' /\ calls \in Nat /\ calls' \in Nat /\ calls <= calls'
  /\ now \in Nat /\ now' \in Nat /\ now <= now'
  /\ taken \in [Calls -> Nat] /\ taken' \in [Calls -> Nat]
  /\ \A n \in Calls : taken[n] <= taken'[n]

LEMMA FactsStay ==
  ASSUME ServicesAssumption, Grows, \A m \in sent : m.call \in Calls
  PROVE  /\ \A r : Announced(r) => Announced(r)'
         /\ \A f, content : Fits(f, content) => Fits(f, content)'
<1>1. \A x : Appointed(x) => Appointed(x)'
  BY DEF Grows, Appointed
<1>2. \A x : Denounced(x) => Denounced(x)'
  <2>1. \A n \in Calls : taken[n] # 0 => taken'[n] # 0
    BY DEF Grows
  <2> QED
    BY <2>1 DEF Grows, Denounced
<1>3. \A r : Announced(r) => Announced(r)'
  <2>1. ASSUME NEW r, Announced(r) PROVE r.expires_at <= taken'[r.call] - 1 + MaxTtl
    <3>1. r.call \in Calls /\ r.expires_at \in Nat
      BY <2>1 DEF Announced, Records, ServicesAssumption
    <3> QED
      BY <2>1, <3>1 DEF Announced, Grows, ServicesAssumption
  <2> QED
    BY <2>1 DEF Announced, Grows
<1> QED
  BY <1>1, <1>2, <1>3 DEF Fits

LEMMA CallsKnown ==
  ASSUME ServicesAssumption, ServicesInv
  PROVE  \A m \in sent : m.call \in Calls
  BY DEF ServicesInv, FramesOK, ClockOK, Calls, ServicesAssumption

LEMMA StatesStay ==
  ASSUME ServicesAssumption, Grows, \A m \in sent : m.call \in Calls
  PROVE  /\ \A j : JobOK(j) => JobOK(j)'
         /\ \A m : RequestOK(m) => RequestOK(m)'
         /\ \A x : ReplyOK(x) => ReplyOK(x)'
         /\ \A k : CommandOK(k) => CommandOK(k)'
<1>1. /\ \A r : Announced(r) => Announced(r)'
      /\ \A f, content : Fits(f, content) => Fits(f, content)'
  BY FactsStay
<1>2. /\ \A n : n \in 0 .. calls => n \in 0 .. calls'
      /\ \A n : n \in 1 .. calls => n \in 1 .. calls'
      /\ \A n : n \in 0 .. now => n \in 0 .. now'
  BY DEF Grows
<1>3. \A j : JobOK(j) => JobOK(j)'
  BY <1>1, <1>2 DEF JobOK
<1>4. \A m : RequestOK(m) => RequestOK(m)'
  BY <1>2 DEF RequestOK, Grows
<1>5. \A x : ReplyOK(x) => ReplyOK(x)'
  BY <1>1, <1>2 DEF ReplyOK
<1>6. \A k : CommandOK(k) => CommandOK(k)'
  BY <1>1, <1>2 DEF CommandOK
<1> QED
  BY <1>3, <1>4, <1>5, <1>6

\* Nothing but the clock, the counters and the histories moves on.
Known == ServicesAssumption /\ ServicesInv /\ Grows

LEMMA FilesStay ==
  ASSUME Known, UNCHANGED <<file, tmp>> PROVE FilesOK'
  BY FactsStay, CallsKnown DEF Known, ServicesInv, FilesOK

LEMMA JobsStay ==
  ASSUME Known,
         \/ UNCHANGED job
         \/ \E p \in Procs : \E j : job' = [job EXCEPT ![p] = j] /\ JobOK(j)'
  PROVE  JobsOK'
<1>1. DOMAIN job = Procs /\ \A p \in Procs : JobOK(job[p])
  BY DEF Known, ServicesInv, JobsOK
<1>2. \A j : JobOK(j) => JobOK(j)'
  BY StatesStay, CallsKnown DEF Known
<1>3. \A p \in Procs : \E j : j = job[p] /\ JobOK(j)'
  BY <1>1, <1>2
<1>4. ASSUME UNCHANGED job PROVE JobsOK'
  BY <1>1, <1>3, <1>4 DEF JobsOK
<1>5. ASSUME NEW p \in Procs, NEW j, job' = [job EXCEPT ![p] = j], JobOK(j)'
      PROVE  JobsOK'
  <2>1. DOMAIN job' = Procs /\ \A q \in Procs : job'[q] = IF q = p THEN j ELSE job[q]
    BY <1>1, <1>5
  <2>2. ASSUME NEW q \in Procs PROVE \E i : i = job'[q] /\ JobOK(i)'
    BY <1>3, <1>5, <2>1
  <2> QED
    BY <2>1, <2>2 DEF JobsOK
<1> QED
  BY <1>4, <1>5

LEMMA FramesStay ==
  ASSUME Known, \A m \in sent' : m \in sent \/ m.call \in 1 .. calls',
         \A m \in requests' : m \in requests \/ RequestOK(m)',
         \A x \in replies' : x \in replies \/ ReplyOK(x)'
  PROVE  FramesOK'
<1>1. /\ \A m : RequestOK(m) => RequestOK(m)'
      /\ \A x : ReplyOK(x) => ReplyOK(x)'
  BY StatesStay, CallsKnown DEF Known
<1>2. \A m \in sent' : m.call \in 1 .. calls'
  BY DEF Known, Grows, ServicesInv, FramesOK
<1> QED
  BY <1>1, <1>2 DEF Known, ServicesInv, FramesOK

LEMMA CommandsStay ==
  ASSUME Known, replies' \subseteq replies,
         \/ UNCHANGED cmd
         \/ \E c \in Clients : \E k :
              /\ cmd' = [cmd EXCEPT ![c] = k] /\ CommandOK(k)'
              /\ \/ k.call = cmd[c].call /\ k.began = cmd[c].began
                 \/ k.call = 0 \/ k.call = calls + 1
  PROVE  CommandsOK' /\ AnswersOK'
<1>1. DOMAIN cmd = Clients /\ \A c \in Clients : CommandOK(cmd[c])
  BY DEF Known, ServicesInv, CommandsOK
<1>2. \A k : CommandOK(k) => CommandOK(k)'
  BY StatesStay, CallsKnown DEF Known
<1>3. \A c \in Clients : \E k : k = cmd[c] /\ CommandOK(k)'
  BY <1>1, <1>2
<1>4. \A x \in replies : x.call \in 1 .. calls /\ \A c \in Clients : Fresh(x, cmd[c])
  BY DEF Known, ServicesInv, FramesOK, ReplyOK, AnswersOK
<1>5. CASE UNCHANGED cmd
  <2>1. CommandsOK'
    BY <1>1, <1>3, <1>5 DEF CommandsOK
  <2> QED
    BY <1>4, <1>5, <2>1 DEF AnswersOK
<1>6. ASSUME NEW c \in Clients, NEW k,
             cmd' = [cmd EXCEPT ![c] = k], CommandOK(k)',
             \/ k.call = cmd[c].call /\ k.began = cmd[c].began
             \/ k.call = 0 \/ k.call = calls + 1
      PROVE  CommandsOK' /\ AnswersOK'
  <2>1. DOMAIN cmd' = Clients /\ \A b \in Clients : cmd'[b] = IF b = c THEN k ELSE cmd[b]
    BY <1>1, <1>6
  <2>2. \A b \in Clients : \E i : i = cmd'[b] /\ CommandOK(i)'
    BY <1>3, <1>6, <2>1
  <2>3. CommandsOK'
    BY <2>1, <2>2 DEF CommandsOK
  <2>4. \A x \in replies : Fresh(x, k)
    BY <1>4, <1>6 DEF Fresh, Known, Grows
  <2> QED
    BY <1>4, <2>1, <2>3, <2>4 DEF AnswersOK
<1> QED
  BY <1>5, <1>6

\* What a handler answers now is still ahead of every command.
LEMMA AnswersStay ==
  ASSUME Known, UNCHANGED cmd,
         \A x \in replies' : x \in replies \/ \A r \in x.records :
                               r.expires_at \in Nat /\ now < r.expires_at
  PROVE  CommandsOK' /\ AnswersOK'
<1>1. DOMAIN cmd = Clients /\ \A c \in Clients : CommandOK(cmd[c])
  BY DEF Known, ServicesInv, CommandsOK
<1>2. \A k : CommandOK(k) => CommandOK(k)'
  BY StatesStay, CallsKnown DEF Known
<1>3. \A c \in Clients : \E k : k = cmd[c] /\ CommandOK(k)'
  BY <1>1, <1>2
<1>4. CommandsOK'
  BY <1>1, <1>3 DEF CommandsOK
<1>5. ASSUME NEW x \in replies', NEW c \in Clients PROVE Fresh(x, cmd[c])
  <2>1. cmd[c].began \in 0 .. now
    BY <1>1 DEF CommandOK
  <2>2. CASE x \in replies
    BY <2>2 DEF Known, ServicesInv, AnswersOK
  <2>3. CASE \A r \in x.records : r.expires_at \in Nat /\ now < r.expires_at
    BY <2>1, <2>3 DEF Fresh, Known, Grows
  <2> QED
    BY <2>2, <2>3
<1> QED
  BY <1>4, <1>5 DEF AnswersOK

LEMMA ShownStay ==
  ASSUME Known,
         \A s \in shown' : s \in shown \/ /\ Announced(s.record) /\ s.began \in Nat
                                          /\ s.began < s.record.expires_at
  PROVE  ShownOK'
<1>1. \A r : Announced(r) => Announced(r)'
  BY FactsStay, CallsKnown DEF Known
<1> QED
  BY <1>1 DEF Known, ServicesInv, ShownOK

LEMMA InvShowsLive ==
  ASSUME ServicesAssumption, ServicesInv PROVE ScanShowsLive
<1>1. ASSUME NEW s \in shown
      PROVE  /\ Announced(s.record) /\ s.began \in Nat
             /\ s.began < s.record.expires_at
             /\ s.record.call \in Calls /\ s.record.expires_at \in Nat
             /\ taken[s.record.call] \in Nat
  BY DEF ServicesInv, ShownOK, Announced, Records, ClockOK, ServicesAssumption
<1>2. ASSUME NEW s \in shown PROVE taken[s.record.call] - 1 + MaxTtl > s.began
  BY <1>1 DEF Announced, ServicesAssumption
<1> QED
  BY <1>1, <1>2 DEF ScanShowsLive, Announced

(***************************************************************************)
(* The clock, the faults and the commands                                  *)
(***************************************************************************)
LEMMA TypesOfInv ==
  ASSUME ServicesAssumption, ServicesInv
  PROVE  /\ now \in Nat /\ calls \in Nat /\ faults \in Nat /\ MaxTtl \in Nat
         /\ MaxTime \in Nat /\ MaxCalls \in Nat /\ MaxFaults \in Nat
         /\ now <= MaxTime /\ calls <= MaxCalls
         /\ taken \in [Calls -> Nat]
         /\ epoch \in [Devices -> Nat] /\ epochTmp \in [Devices -> Nat]
  BY DEF ServicesInv, ClockOK, EpochsOK, ServicesAssumption

LEMMA FaultInv ==
  ASSUME ServicesAssumption, ServicesInv,
         \/ Tick \/ Lose
         \/ \E p \in Procs : HandlerFails(p)
         \/ \E c \in Clients : Interrupt(c)
  PROVE  ServicesInv'
<1> USE DEF disk, device, wire, history
<1>1. /\ UNCHANGED <<file, tmp, epoch, epochTmp, calls, sent, taken, acked, shown>>
      /\ requests' \subseteq requests /\ replies' \subseteq replies
  BY DEF Tick, Lose, HandlerFails, Interrupt
<1>2. /\ now' \in Nat /\ now' \in 0 .. MaxTime /\ now <= now'
      /\ faults' \in 0 .. MaxFaults
  BY TypesOfInv DEF Tick, Lose, HandlerFails, Interrupt, ServicesInv, ClockOK
<1>3. Known
  BY <1>1, <1>2, TypesOfInv DEF Known, Grows
<1>4. FilesOK' /\ FramesOK' /\ ShownOK'
  BY <1>1, <1>3, FilesStay, FramesStay, ShownStay
<1>5. ClockOK' /\ EpochsOK'
  BY <1>1, <1>2, TypesOfInv DEF ServicesInv, ClockOK, EpochsOK
<1>6. JobsOK'
  <2>1. JobOK(NoJob)'
    BY <1>1, TypesOfInv DEF JobOK, NoJob, Files
  <2> QED
    BY <1>3, <2>1, JobsStay DEF Tick, Lose, HandlerFails, Interrupt
<1>7. CommandsOK' /\ AnswersOK'
  <2>1. CommandOK(NoCmd)' /\ NoCmd.call = 0
    BY <1>1, <1>2, TypesOfInv DEF CommandOK, NoCmd, CmdFields
  <2> QED
    BY <1>1, <1>3, <2>1, CommandsStay DEF Tick, Lose, HandlerFails, Interrupt
<1> QED
  BY <1>4, <1>5, <1>6, <1>7 DEF ServicesInv

\* A command that begins asks the next question.
LEMMA BeginInv ==
  ASSUME ServicesAssumption, ServicesInv, NEW c \in Clients, NEW k,
         UNCHANGED <<now, file, tmp, job, epoch, epochTmp, replies, taken, acked,
                     shown, faults>>,
         calls < MaxCalls, calls' = calls + 1, cmd' = [cmd EXCEPT ![c] = k],
         k.call = calls + 1, CommandOK(k)',
         \A m \in sent' : m \in sent \/ m.call = calls + 1, sent \subseteq sent',
         \A m \in requests' : m \in requests \/ RequestOK(m)'
  PROVE  ServicesInv'
<1>1. Known
  BY TypesOfInv DEF Known, Grows
<1>2. calls' \in 1 .. calls'
  BY TypesOfInv
<1>3. FilesOK' /\ ShownOK' /\ JobsOK'
  BY <1>1, FilesStay, ShownStay, JobsStay
<1>4. FramesOK'
  BY <1>1, <1>2, FramesStay
<1>5. CommandsOK' /\ AnswersOK'
  BY <1>1, CommandsStay
<1>6. ClockOK' /\ EpochsOK'
  BY TypesOfInv DEF ServicesInv, ClockOK, EpochsOK
<1> QED
  BY <1>3, <1>4, <1>5, <1>6 DEF ServicesInv

LEMMA BeginsInv ==
  ASSUME ServicesAssumption, ServicesInv, NEW c \in Clients,
         \/ \E ttl \in Ttls : Register(c, ttl)
         \/ \E active \in BOOLEAN : Scan(c, active)
         \/ \E x \in Targets : Revoke(c, x)
  PROVE  ServicesInv'
<1> USE DEF disk, device, wire, history
<1>1. Owner[c] \in Devices
  BY DEF ServicesAssumption
<1>2. calls + 1 \in 1 .. calls + 1 /\ calls + 1 \in 0 .. calls + 1 /\ now \in 0 .. now
  BY TypesOfInv
<1>3. ASSUME NEW ttl \in Ttls, Register(c, ttl) PROVE ServicesInv'
  <2>1. PICK k : k = [NoCmd EXCEPT !.pc = "waiting", !.kind = "register",
                                   !.call = calls + 1]
    OBVIOUS
  <2>2. PICK m : m = Frame(calls + 1, Owner[c], "register", NoDevice, ttl, 0)
    OBVIOUS
  <2>3. k.call = calls + 1 /\ CommandOK(k)'
    BY <1>2, <1>3, <2>1, TypesOfInv
    DEF Register, Begin, CommandOK, NoCmd, CmdFields
  <2>4. m.call = calls + 1 /\ m \in sent' => RequestOK(m)'
    BY <1>1, <1>2, <1>3, <2>2 DEF Register, Begin, RequestOK, Frame, ServicesAssumption
  <2>5. requests' = requests \cup {m} /\ sent' = sent \cup {m} /\ m.call = calls + 1
    BY <1>3, <2>2 DEF Register, Frame
  <2> QED
    BY <1>3, <2>1, <2>3, <2>4, <2>5, BeginInv DEF Register, Begin
<1>4. ASSUME NEW active \in BOOLEAN, Scan(c, active) PROVE ServicesInv'
  <2>1. PICK k : k = [NoCmd EXCEPT !.pc = "waiting", !.call = calls + 1,
                                   !.began = now, !.active = active]
    OBVIOUS
  <2>2. PICK m : m = Frame(calls + 1, Owner[c], "list", NoDevice, 0, 0)
    OBVIOUS
  <2>3. k.call = calls + 1 /\ CommandOK(k)'
    <3>1. k = [pc |-> "waiting", kind |-> "list", call |-> calls + 1,
               target |-> NoDevice, epoch |-> 0, began |-> now, active |-> active,
               hits |-> {}, live |-> {}]
      BY <2>1 DEF NoCmd
    <3>2. now' = now /\ calls' = calls + 1 /\ calls \in Nat /\ now \in Nat
      BY <1>4, TypesOfInv DEF Scan, Begin
    <3> QED
      BY <1>2, <3>1, <3>2 DEF CommandOK, CmdFields
  <2>4. RequestOK(m)'
    BY <1>1, <1>2, <1>4, <2>2 DEF Scan, Begin, RequestOK, Frame
  <2> QED
    BY <1>4, <2>1, <2>2, <2>3, <2>4, BeginInv DEF Scan, Begin
<1>5. ASSUME NEW x \in Targets, Revoke(c, x) PROVE ServicesInv'
  <2>1. PICK k : k = [NoCmd EXCEPT !.pc = "numbered", !.kind = "revoke",
          !.call = calls + 1, !.target = x, !.epoch = NextEpoch(Owner[c])]
    OBVIOUS
  <2>2. NextEpoch(Owner[c]) \in 0 .. calls + 1
    BY <1>1, TypesOfInv DEF NextEpoch, ServicesInv, EpochsOK
  <2>3. x \in Devices
    BY DEF ServicesAssumption
  <2>4. k.call = calls + 1 /\ CommandOK(k)'
    <3>1. k = [pc |-> "numbered", kind |-> "revoke", call |-> calls + 1,
               target |-> x, epoch |-> NextEpoch(Owner[c]), began |-> 0,
               active |-> FALSE, hits |-> {}, live |-> {}]
      BY <2>1 DEF NoCmd
    <3>2. now' = now /\ calls' = calls + 1 /\ calls \in Nat /\ now \in Nat
      BY <1>5, TypesOfInv DEF Revoke, Begin
    <3> QED
      BY <1>2, <2>2, <2>3, <3>1, <3>2 DEF CommandOK, CmdFields
  <2> QED
    BY <1>5, <2>1, <2>4, BeginInv DEF Revoke, Begin
<1> QED
  BY <1>3, <1>4, <1>5

\* A command goes on, or ends.
LEMMA GoOnInv ==
  ASSUME ServicesAssumption, ServicesInv, NEW c \in Clients, NEW k,
         UNCHANGED <<now, file, tmp, job, calls, taken, faults>>,
         cmd' = [cmd EXCEPT ![c] = k], CommandOK(k)',
         (k.call = cmd[c].call /\ k.began = cmd[c].began) \/ k.call = 0,
         EpochsOK', acked' \subseteq 1 .. calls, replies' \subseteq replies,
         \A m \in sent' : m \in sent \/ m.call \in 1 .. calls, sent \subseteq sent',
         \A m \in requests' : m \in requests \/ RequestOK(m)',
         \A s \in shown' : s \in shown \/ /\ Announced(s.record) /\ s.began \in Nat
                                          /\ s.began < s.record.expires_at
  PROVE  ServicesInv'
<1>1. Known
  BY TypesOfInv DEF Known, Grows
<1>2. FilesOK' /\ ShownOK' /\ JobsOK' /\ FramesOK'
  BY <1>1, FilesStay, ShownStay, JobsStay, FramesStay
<1>3. CommandsOK' /\ AnswersOK'
  BY <1>1, CommandsStay
<1>4. ClockOK'
  BY DEF ServicesInv, ClockOK
<1> QED
  BY <1>2, <1>3, <1>4 DEF ServicesInv

LEMMA NoCmdOK ==
  ASSUME ServicesAssumption, ServicesInv, UNCHANGED <<now, calls>>
  PROVE  CommandOK(NoCmd)' /\ NoCmd.call = 0
  BY TypesOfInv DEF CommandOK, NoCmd, CmdFields

LEMMA EpochStepsInv ==
  ASSUME ServicesAssumption, ServicesInv, NEW c \in Clients,
         WriteEpoch(c) \/ RenameEpoch(c) \/ EpochFails(c) \/ Broadcast(c)
  PROVE  ServicesInv'
<1> USE DEF disk, device, wire, history
<1>1. Owner[c] \in Devices /\ CommandOK(cmd[c])
  BY DEF ServicesInv, CommandsOK, ServicesAssumption
<1>2. \A k : CommandOK(k) /\ now' = now /\ calls' = calls /\ taken' = taken
                /\ sent \subseteq sent' => CommandOK(k)'
  BY StatesStay, CallsKnown, TypesOfInv DEF Grows
<1>3. epoch \in [Devices -> Nat] /\ epochTmp \in [Devices -> Nat]
      /\ \A d \in Devices : epoch[d] <= calls /\ epochTmp[d] <= calls
      /\ cmd[c].epoch \in Nat /\ cmd[c].epoch <= calls
  BY <1>1, TypesOfInv DEF ServicesInv, EpochsOK, CommandOK
<1>4. acked \subseteq 1 .. calls
  BY DEF ServicesInv, ClockOK
<1>5. CASE WriteEpoch(c)
  <2>1. PICK k : k = [cmd[c] EXCEPT !.pc = "stamped"]
    OBVIOUS
  <2>2. CommandOK(k) /\ k.call = cmd[c].call /\ k.began = cmd[c].began
    BY <1>1, <1>5, <2>1 DEF WriteEpoch, CommandOK, CmdFields
  <2>3. EpochsOK'
    BY <1>1, <1>3, <1>5 DEF WriteEpoch, EpochsOK
  <2> QED
    BY <1>2, <1>4, <1>5, <2>1, <2>2, <2>3, GoOnInv DEF WriteEpoch
<1>6. CASE RenameEpoch(c)
  <2>1. PICK k : k = [cmd[c] EXCEPT !.pc = "signed"]
    OBVIOUS
  <2>2. CommandOK(k) /\ k.call = cmd[c].call /\ k.began = cmd[c].began
    BY <1>1, <1>6, <2>1 DEF RenameEpoch, CommandOK, CmdFields
  <2>3. EpochsOK'
    BY <1>1, <1>3, <1>6, TypesOfInv DEF RenameEpoch, EpochsOK
  <2> QED
    BY <1>2, <1>4, <1>6, <2>1, <2>2, <2>3, GoOnInv DEF RenameEpoch
<1>7. CASE EpochFails(c)
  <2>1. PICK k : k = NoCmd
    OBVIOUS
  <2>2. CommandOK(k)' /\ k.call = 0
    BY <1>7, <2>1, NoCmdOK DEF EpochFails
  <2>3. EpochsOK'
    BY <1>3, <1>7 DEF EpochFails, EpochsOK
  <2> QED
    BY <1>4, <1>7, <2>1, <2>2, <2>3, GoOnInv DEF EpochFails
<1>8. CASE Broadcast(c)
  <2>1. PICK k : k = [cmd[c] EXCEPT !.pc = "waiting"]
    OBVIOUS
  <2>2. PICK m : m = Frame(cmd[c].call, Owner[c], "revoke", cmd[c].target, 0,
                           cmd[c].epoch)
    OBVIOUS
  <2>3. CommandOK(k) /\ k.call = cmd[c].call /\ k.began = cmd[c].began
    BY <1>1, <1>8, <2>1 DEF Broadcast, CommandOK, CmdFields
  <2>4. cmd[c].call \in 1 .. calls /\ cmd[c].target \in Devices
    BY <1>1, <1>8 DEF Broadcast, CommandOK
  <2>5. requests' = requests \cup {m} /\ sent' = sent \cup {m} /\ calls' = calls
    BY <1>8, <2>2 DEF Broadcast
  <2>6. m.call \in 1 .. calls /\ RequestOK(m)'
    BY <1>1, <2>2, <2>4, <2>5 DEF RequestOK, Frame
  <2>7. EpochsOK'
    BY <1>3, <1>8 DEF Broadcast, EpochsOK
  <2>8. CommandOK(k)'
    BY <1>2, <1>8, <2>3, <2>5 DEF Broadcast
  <2> QED
    BY <1>4, <1>8, <2>1, <2>3, <2>5, <2>6, <2>7, <2>8, GoOnInv DEF Broadcast
<1> QED
  BY <1>5, <1>6, <1>7, <1>8

LEMMA ScanStepsInv ==
  ASSUME ServicesAssumption, ServicesInv, NEW c \in Clients,
         \/ \E r \in cmd[c].hits : Probe(c, r)
         \/ Show(c)
         \/ \E m \in replies : Deliver(c, m)
  PROVE  ServicesInv'
<1> USE DEF disk, device, wire, history
<1>1. Owner[c] \in Devices /\ CommandOK(cmd[c])
  BY DEF ServicesInv, CommandsOK, ServicesAssumption
<1>2. /\ UNCHANGED <<now, file, tmp, job, epoch, epochTmp, calls, taken, faults, sent>>
      /\ EpochsOK' /\ replies' \subseteq replies
  <2>1. UNCHANGED <<now, file, tmp, job, epoch, epochTmp, calls, taken, faults, sent>>
    BY DEF Probe, Show, Deliver
  <2>2. replies' \subseteq replies
    BY DEF Probe, Show, Deliver
  <2>3. EpochsOK'
    BY <2>1 DEF ServicesInv, EpochsOK
  <2> QED
    BY <2>1, <2>2, <2>3
<1>3. \A k : CommandOK(k) => CommandOK(k)'
  BY <1>2, StatesStay, CallsKnown, TypesOfInv DEF Grows
<1>4. acked \subseteq 1 .. calls
  BY DEF ServicesInv, ClockOK
<1>5. ASSUME NEW r \in cmd[c].hits, Probe(c, r) PROVE ServicesInv'
  <2>1. PICK k : k = [cmd[c] EXCEPT !.pc = "waiting", !.kind = "probe",
                                    !.target = r.device]
    OBVIOUS
  <2>2. PICK m : m = Frame(cmd[c].call, Owner[c], "probe", r.device, 0, 0)
    OBVIOUS
  <2>3. CommandOK(k) /\ k.call = cmd[c].call /\ k.began = cmd[c].began
    BY <1>1, <1>5, <2>1 DEF Probe, CommandOK, CmdFields
  <2>4. cmd[c].call \in 1 .. calls
    BY <1>1, <1>5 DEF Probe, CommandOK
  <2>5. RequestOK(m)'
    BY <1>1, <1>2, <2>2, <2>4 DEF RequestOK, Frame
  <2>6. CommandOK(k)'
    BY <1>3, <2>3
  <2>7. /\ requests' = requests \cup {m} /\ UNCHANGED <<acked, shown>>
        /\ cmd' = [cmd EXCEPT ![c] = k]
    BY <1>5, <2>1, <2>2 DEF Probe
  <2> QED
    BY <1>2, <1>4, <2>3, <2>5, <2>6, <2>7, GoOnInv
<1>6. CASE Show(c)
  <2>1. PICK k : k = NoCmd
    OBVIOUS
  <2>2. CommandOK(k)' /\ k.call = 0
    BY <1>2, <2>1, NoCmdOK
  <2>3. ASSUME NEW s \in shown', s \notin shown
        PROVE  /\ Announced(s.record) /\ s.began \in Nat
               /\ s.began < s.record.expires_at
    <3>1. PICK r \in cmd[c].hits \cup cmd[c].live :
            s = [began |-> cmd[c].began, record |-> r]
      BY <1>6, <2>3 DEF Show
    <3> QED
      BY <1>1, <3>1, TypesOfInv DEF CommandOK
  <2>4. requests' = requests /\ UNCHANGED acked /\ cmd' = [cmd EXCEPT ![c] = k]
    BY <1>6, <2>1 DEF Show
  <2> QED
    BY <1>2, <1>4, <2>2, <2>3, <2>4, GoOnInv
<1>7. ASSUME NEW m \in replies, Deliver(c, m) PROVE ServicesInv'
  <2>1. PICK k : k = cmd'[c]
    OBVIOUS
  <2>2. cmd' = [cmd EXCEPT ![c] = k] /\ UNCHANGED <<requests, shown>>
    BY <1>7, <2>1 DEF Deliver, ServicesInv, CommandsOK
  <2>3. acked' \subseteq 1 .. calls
    <3>1. m.call \in 1 .. calls
      BY DEF ServicesInv, FramesOK, ReplyOK
    <3>2. acked' \subseteq acked \cup {m.call}
      BY <1>7 DEF Deliver
    <3> QED
      BY <1>4, <3>1, <3>2
  <2>4. ReplyOK(m) /\ Fresh(m, cmd[c])
    BY DEF ServicesInv, FramesOK, AnswersOK
  <2>5. \/ k = cmd[c] \/ k = NoCmd
        \/ /\ Awaited(c, m)
           /\ k = [cmd[c] EXCEPT !.pc = "listed", !.hits = m.records]
        \/ /\ Awaited(c, m)
           /\ \E hits, live :
                /\ hits \subseteq cmd[c].hits
                /\ live \subseteq cmd[c].live \cup cmd[c].hits
                /\ k = [cmd[c] EXCEPT !.pc = "listed", !.hits = hits, !.live = live]
    <3> DEFINE probed == {r \in cmd[c].hits : r.device = m.target}
               alive == {r \in probed : m.outcome = "alive"}
    <3>1. k = IF ~Awaited(c, m) THEN cmd[c]
              ELSE IF cmd[c].kind = "list"
                THEN [cmd[c] EXCEPT !.pc = "listed", !.hits = m.records]
              ELSE IF cmd[c].kind = "probe"
                THEN [cmd[c] EXCEPT !.pc = "listed", !.hits = cmd[c].hits \ probed,
                                    !.live = cmd[c].live \cup alive]
              ELSE NoCmd
      BY <1>7, <2>1 DEF Deliver, ServicesInv, CommandsOK
    <3>2. cmd[c].hits \ probed \subseteq cmd[c].hits
          /\ cmd[c].live \cup alive \subseteq cmd[c].live \cup cmd[c].hits
      OBVIOUS
    <3> QED
      BY <3>1, <3>2
  <2>6. CommandOK(k)' /\ ((k.call = cmd[c].call /\ k.began = cmd[c].began) \/ k.call = 0)
    <3>1. CASE k = cmd[c]
      BY <1>1, <1>3, <3>1
    <3>2. CASE k = NoCmd
      BY <1>2, <3>2, NoCmdOK
    <3>3. CASE /\ Awaited(c, m)
               /\ k = [cmd[c] EXCEPT !.pc = "listed", !.hits = m.records]
      <4>1. CommandOK(k)
        BY <1>1, <2>4, <3>3 DEF CommandOK, CmdFields, Awaited, ReplyOK, Fresh
      <4>2. DOMAIN cmd[c] = CmdFields
        BY <1>1 DEF CommandOK
      <4>3. k.call = cmd[c].call /\ k.began = cmd[c].began
        BY <3>3, <4>2 DEF CmdFields
      <4> QED
        BY <1>3, <4>1, <4>3
    <3>4. ASSUME Awaited(c, m), NEW hits, NEW live,
                 hits \subseteq cmd[c].hits, live \subseteq cmd[c].live \cup cmd[c].hits,
                 k = [cmd[c] EXCEPT !.pc = "listed", !.hits = hits, !.live = live]
          PROVE  CommandOK(k)' /\ k.call = cmd[c].call /\ k.began = cmd[c].began
      <4>1. CommandOK(k)
        BY <1>1, <3>4 DEF CommandOK, CmdFields, Awaited
      <4>2. DOMAIN cmd[c] = CmdFields
        BY <1>1 DEF CommandOK
      <4>3. k.call = cmd[c].call /\ k.began = cmd[c].began
        BY <3>4, <4>2 DEF CmdFields
      <4> QED
        BY <1>3, <4>1, <4>3
    <3> QED
      BY <2>5, <3>1, <3>2, <3>3, <3>4
  <2> QED
    BY <1>2, <2>2, <2>3, <2>6, GoOnInv
<1> QED
  BY <1>5, <1>6, <1>7

(***************************************************************************)
(* The core                                                                *)
(***************************************************************************)
\* A process of the core takes a frame and reads a file.
LEMMA LoadInv ==
  ASSUME Known, NEW p \in Procs, NEW j, JobOK(j)',
         job' = [job EXCEPT ![p] = j],
         UNCHANGED <<now, file, tmp, epoch, epochTmp, cmd, replies, acked, shown,
                     faults>>,
         calls' <= MaxCalls, taken' \in [Calls -> 0 .. MaxTime + 1],
         \A n \in Calls : taken'[n] <= now + 1,
         requests' \subseteq requests,
         \A m \in sent' : m \in sent \/ m.call \in 1 .. calls'
  PROVE  ServicesInv'
<1>1. FilesOK' /\ ShownOK' /\ JobsOK' /\ CommandsOK' /\ AnswersOK'
  BY FilesStay, ShownStay, JobsStay, CommandsStay
<1>2. /\ ServicesAssumption /\ ServicesInv /\ calls' \in Nat /\ calls <= calls'
      /\ calls \in Nat
  BY DEF Known, Grows
<1>3. FramesOK'
  BY FramesStay
<1>4. ClockOK' /\ EpochsOK'
  BY <1>2, TypesOfInv DEF ServicesInv, ClockOK, EpochsOK
<1> QED
  BY <1>1, <1>3, <1>4 DEF ServicesInv

LEMMA TtlBounded ==
  ASSUME ServicesAssumption, NEW ttl \in Nat PROVE Ttl(ttl) \in 1 .. MaxTtl
  BY DEF Ttl, ServicesAssumption

LEMMA TakeRegisterInv ==
  ASSUME ServicesAssumption, ServicesInv, NEW p \in Procs, NEW m, TakeRegister(p, m)
  PROVE  ServicesInv'
<1> USE DEF disk, device, wire, history
<1>1. /\ m \in sent /\ m.kind = "register" /\ m.ttl \in Nat /\ m.from \in Devices
      /\ m.call \in 1 .. calls /\ m.call \in Calls
  BY TypesOfInv DEF TakeRegister, ServicesInv, FramesOK, RequestOK, Calls
<1>2. taken' = [taken EXCEPT ![m.call] = now + 1] /\ sent' = sent /\ now' = now
      /\ calls' = calls
  BY DEF TakeRegister
<1>3. /\ taken \in [Calls -> 0 .. MaxTime + 1] /\ now \in 0 .. MaxTime
      /\ \A n \in Calls : taken[n] <= now + 1
  BY DEF ServicesInv, ClockOK
<1>4. /\ taken' \in [Calls -> 0 .. MaxTime + 1]
      /\ \A n \in Calls : taken'[n] <= now + 1 /\ taken[n] <= taken'[n]
  BY <1>1, <1>2, <1>3, TypesOfInv
<1>5. Known
  BY <1>2, <1>3, <1>4, TypesOfInv DEF Known, Grows
<1>6. \A r : Announced(r) => Announced(r)'
  BY <1>5, FactsStay, CallsKnown DEF Known
<1>7. PICK r : r = Record(m.from, m.call, now + Ttl(m.ttl))
  OBVIOUS
<1>8. Announced(r)'
  <2>1. Ttl(m.ttl) \in 1 .. MaxTtl
    BY <1>1, TtlBounded
  <2>2. r \in Records /\ r.expires_at <= now + MaxTtl
    <3>1. now + Ttl(m.ttl) \in 1 .. MaxTime + MaxTtl /\ now + Ttl(m.ttl) <= now + MaxTtl
      BY <2>1, TypesOfInv
    <3> QED
      BY <1>1, <1>7, <3>1 DEF Record, Records
  <2>3. r.call = m.call /\ r.device = m.from /\ taken'[m.call] = now + 1
    BY <1>1, <1>2, <1>3, <1>7 DEF Record
  <2>4. r.expires_at <= taken'[r.call] - 1 + MaxTtl
    <3>1. r.expires_at \in Nat
      BY <2>2, TypesOfInv DEF Records
    <3> QED
      BY <2>2, <2>3, <3>1, TypesOfInv
  <2> QED
    BY <1>1, <1>2, <2>2, <2>3, <2>4 DEF Announced
<1>9. PICK content : content = Live(Registered(m))
  OBVIOUS
<1>10. Fits("rendezvous", content)'
  <2>1. /\ \A x \in file["rendezvous"] : Announced(x)
        /\ \A x, y \in file["rendezvous"] : x.device = y.device => x = y
    BY DEF ServicesInv, FilesOK, Fits, Files
  <2>2. \A x \in content : x = r \/ (x \in file["rendezvous"] /\ x.device # m.from)
    BY <1>7, <1>9 DEF Live, Registered
  <2>3. r.device = m.from
    BY <1>7 DEF Record
  <2>4. \A x \in content : Announced(x)'
    BY <1>6, <1>8, <2>1, <2>2
  <2>5. \A x, y \in content : x.device = y.device => x = y
    BY <2>1, <2>2, <2>3
  <2> QED
    BY <2>4, <2>5 DEF Fits
<1>11. PICK j : j = [pc |-> "loaded", file |-> "rendezvous", call |-> m.call,
                     from |-> m.from, content |-> content]
  OBVIOUS
<1>12. JobOK(j)'
  BY <1>1, <1>2, <1>10, <1>11, TypesOfInv DEF JobOK, Files
<1>13. job' = [job EXCEPT ![p] = j]
  BY <1>9, <1>11 DEF TakeRegister, Load
<1>14. /\ UNCHANGED <<now, file, tmp, epoch, epochTmp, cmd, replies, acked, shown,
                      faults>>
       /\ calls' <= MaxCalls /\ requests' \subseteq requests
  BY TypesOfInv DEF TakeRegister
<1> QED
  BY <1>2, <1>4, <1>5, <1>12, <1>13, <1>14, LoadInv

LEMMA TakeRevokeInv ==
  ASSUME ServicesAssumption, ServicesInv, NEW p \in Procs, NEW m, TakeRevoke(p, m)
  PROVE  ServicesInv'
<1> USE DEF disk, device, wire, history
<1>1. /\ m \in sent /\ m.kind = "revoke" /\ m.target \in Devices
      /\ m.call \in 1 .. calls /\ m.call \in Calls
  BY TypesOfInv DEF TakeRevoke, ServicesInv, FramesOK, RequestOK, Calls
<1>2. taken' = [taken EXCEPT ![m.call] = now + 1] /\ sent' = sent /\ now' = now
      /\ calls' = calls
  BY DEF TakeRevoke
<1>3. /\ taken \in [Calls -> 0 .. MaxTime + 1] /\ now \in 0 .. MaxTime
      /\ \A n \in Calls : taken[n] <= now + 1
  BY DEF ServicesInv, ClockOK
<1>4. /\ taken' \in [Calls -> 0 .. MaxTime + 1]
      /\ \A n \in Calls : taken'[n] <= now + 1 /\ taken[n] <= taken'[n]
  BY <1>1, <1>2, <1>3, TypesOfInv
<1>5. Known
  BY <1>2, <1>3, <1>4, TypesOfInv DEF Known, Grows
<1>6. Denounced(m.target)'
  <2>1. Appointed(m.from)
    BY DEF TakeRevoke, IsOperator, ServicesInv, FilesOK, Fits, Files
  <2>2. taken'[m.call] # 0
    BY <1>1, <1>2, <1>3
  <2> QED
    BY <1>1, <1>2, <2>1, <2>2 DEF Appointed, Denounced
<1>7. PICK content : content = file["revocations"] \cup {m.target}
  OBVIOUS
<1>8. Fits("revocations", content)'
  <2>1. PICK old : old = file["revocations"]
    OBVIOUS
  <2>2. Fits("revocations", old)
    BY <2>1 DEF ServicesInv, FilesOK, Files
  <2>3. Fits("revocations", old)'
    BY <1>5, <2>2, FactsStay, CallsKnown DEF Known
  <2>4. PICK x : x = m.target
    OBVIOUS
  <2> QED
    BY <1>1, <1>6, <1>7, <2>1, <2>3, <2>4 DEF Fits
<1>9. PICK j : j = [pc |-> "loaded", file |-> "revocations", call |-> m.call,
                    from |-> m.from, content |-> content]
  OBVIOUS
<1>10. JobOK(j)'
  BY <1>1, <1>2, <1>8, <1>9, TypesOfInv DEF JobOK, Files
<1>11. job' = [job EXCEPT ![p] = j]
  BY <1>7, <1>9 DEF TakeRevoke, Load
<1>12. /\ UNCHANGED <<now, file, tmp, epoch, epochTmp, cmd, replies, acked, shown,
                      faults>>
       /\ calls' <= MaxCalls /\ requests' \subseteq requests
  BY TypesOfInv DEF TakeRevoke
<1> QED
  BY <1>2, <1>4, <1>5, <1>10, <1>11, <1>12, LoadInv

LEMMA AddOperatorInv ==
  ASSUME ServicesAssumption, ServicesInv, NEW p \in Procs, NEW d \in Trusted,
         AddOperator(p, d)
  PROVE  ServicesInv'
<1> USE DEF disk, device, wire, history
<1>1. /\ calls < MaxCalls /\ calls' = calls + 1 /\ taken' = taken /\ now' = now
      /\ d \in Devices
  BY DEF AddOperator, ServicesAssumption
<1>2. PICK o : o = Frame(calls', NoDevice, "operator", d, 0, 0)
  OBVIOUS
<1>3. sent' = sent \cup {o} /\ o.call = calls' /\ o.kind = "operator" /\ o.target = d
  BY <1>2 DEF AddOperator, Frame
<1>4. Known
  BY <1>1, <1>3, TypesOfInv DEF Known, Grows
<1>5. PICK content : content = file["operators"] \cup {d}
  OBVIOUS
<1>6. Fits("operators", content)'
  <2>1. PICK old : old = file["operators"]
    OBVIOUS
  <2>2. Fits("operators", old)
    BY <2>1 DEF ServicesInv, FilesOK, Files
  <2>3. Fits("operators", old)'
    BY <1>4, <2>2, FactsStay, CallsKnown DEF Known
  <2>4. Appointed(d)'
    BY <1>3 DEF Appointed
  <2> QED
    BY <1>1, <1>5, <2>1, <2>3, <2>4 DEF Fits
<1>7. PICK j : j = [pc |-> "loaded", file |-> "operators", call |-> calls',
                    from |-> NoDevice, content |-> content]
  OBVIOUS
<1>8. JobOK(j)'
  BY <1>1, <1>6, <1>7, TypesOfInv DEF JobOK, Files
<1>9. job' = [job EXCEPT ![p] = j]
  BY <1>5, <1>7 DEF AddOperator, Load
<1>10. /\ UNCHANGED <<now, file, tmp, epoch, epochTmp, cmd, replies, acked, shown,
                      faults>>
       /\ calls' <= MaxCalls /\ requests' \subseteq requests
       /\ taken' \in [Calls -> 0 .. MaxTime + 1]
       /\ \A n \in Calls : taken'[n] <= now + 1
       /\ \A m \in sent' : m \in sent \/ m.call \in 1 .. calls'
  BY <1>1, <1>3, TypesOfInv DEF AddOperator, ServicesInv, ClockOK
<1> QED
  BY <1>4, <1>8, <1>9, <1>10, LoadInv

LEMMA AnswerInv ==
  ASSUME ServicesAssumption, ServicesInv, NEW p \in Procs, NEW m,
         TakeList(p, m) \/ TakeProbe(p, m) \/ RefuseRevoke(p, m)
  PROVE  ServicesInv'
<1> USE DEF disk, device, wire, history
<1>1. PICK outcome, records :
        /\ Answer(p, m, outcome, records)
        /\ \A r \in records : r \in Live(file["rendezvous"])
  BY DEF TakeList, TakeProbe, RefuseRevoke
<1>2. \A r \in records : Announced(r) /\ r.expires_at \in Nat /\ now < r.expires_at
  <2>1. \A r \in file["rendezvous"] : Announced(r)
    BY DEF ServicesInv, FilesOK, Fits, Files
  <2>2. \A r \in records : Announced(r) /\ r.expires_at > now
    BY <1>1, <2>1 DEF Live
  <2>3. \A r \in records : r.expires_at \in Nat
    BY <2>2, TypesOfInv DEF Announced, Records
  <2> QED
    BY <2>2, <2>3, TypesOfInv
<1>3. /\ UNCHANGED <<now, file, tmp, job, epoch, epochTmp, cmd, calls, sent, taken,
                     acked, shown, faults>>
      /\ m \in requests /\ requests' \subseteq requests
      /\ \E x : /\ replies' = replies \cup {x} /\ x.call = m.call
                /\ x.records = records
  <2>1. PICK x : x = Reply(m, outcome, records)
    OBVIOUS
  <2>2. replies' = replies \cup {x} /\ x.call = m.call /\ x.records = records
    BY <1>1, <2>1 DEF Answer, Reply
  <2> QED
    BY <1>1, <2>2 DEF Answer
<1>4. m.call \in 1 .. calls
  BY <1>3 DEF ServicesInv, FramesOK, RequestOK
<1>5. Known
  BY <1>3, TypesOfInv DEF Known, Grows
<1>6. \A r : Announced(r) => Announced(r)'
  BY <1>5, FactsStay, CallsKnown DEF Known
<1>7. \A x \in replies' : x \in replies \/ (x.call = m.call /\ x.records = records)
  BY <1>3
<1>8. \A x \in replies' : x \in replies \/ ReplyOK(x)'
  BY <1>2, <1>3, <1>4, <1>6, <1>7 DEF ReplyOK
<1>9. FilesOK' /\ JobsOK' /\ ShownOK' /\ FramesOK'
  BY <1>3, <1>5, <1>8, FilesStay, JobsStay, ShownStay, FramesStay
<1>10. CommandsOK' /\ AnswersOK'
  BY <1>2, <1>3, <1>5, <1>7, AnswersStay
<1>11. ClockOK' /\ EpochsOK'
  BY <1>3 DEF ServicesInv, ClockOK, EpochsOK
<1> QED
  BY <1>9, <1>10, <1>11 DEF ServicesInv

LEMMA RewriteInv ==
  ASSUME ServicesAssumption, ServicesInv, NEW p \in Procs,
         Write(p) \/ Rename(p) \/ RenameFails(p)
  PROVE  ServicesInv'
<1> USE DEF disk, device, wire, history
<1>1. UNCHANGED <<now, epoch, epochTmp, cmd, calls, requests, sent, taken, shown, faults>>
  BY DEF Write, Rename, RenameFails
<1>2. Known
  BY <1>1, TypesOfInv DEF Known, Grows
<1>3. JobOK(job[p]) /\ \A f, content : Fits(f, content) => Fits(f, content)'
  BY <1>2, FactsStay, CallsKnown DEF Known, ServicesInv, JobsOK
<1>4. /\ DOMAIN file = Files /\ DOMAIN tmp = Files
      /\ \A f \in Files : Fits(f, file[f]) /\ \A content \in tmp[f] : Fits(f, content)
  BY DEF ServicesInv, FilesOK
<1>5. acked' \subseteq 1 .. calls
      /\ \A x \in replies' : x \in replies \/
           (x.call \in 1 .. calls /\ x.records = {})
  <2>1. acked \subseteq 1 .. calls /\ \A m \in sent : m.call \in 1 .. calls
    BY DEF ServicesInv, ClockOK, FramesOK
  <2>2. CASE Write(p) \/ RenameFails(p)
    BY <2>1, <2>2 DEF Write, RenameFails
  <2>3. CASE Rename(p)
    <3>1. job[p].call \in 1 .. calls
      BY <1>3, <2>3 DEF Rename, JobOK
    <3>2. CASE p \in Admins
      BY <2>1, <2>3, <3>1, <3>2 DEF Rename, Done
    <3>3. CASE p \notin Admins
      <4>1. /\ acked' = acked
            /\ replies' = replies \cup
                 {Reply(m, "done", {}) : m \in {o \in sent : o.call = job[p].call}}
        BY <2>3, <3>3 DEF Rename, Done
      <4>2. \A m : /\ Reply(m, "done", {}).call = m.call
                   /\ Reply(m, "done", {}).records = {}
        BY DEF Reply
      <4> QED
        BY <2>1, <4>1, <4>2
    <3> QED
      BY <3>2, <3>3
  <2> QED
    BY <2>2, <2>3
<1>6. \A x \in replies' : x \in replies \/ ReplyOK(x)'
  <2>1. \A x : x.call \in 1 .. calls /\ x.records = {} => ReplyOK(x)'
    BY <1>1 DEF ReplyOK
  <2> QED
    BY <1>5, <2>1
<1>7. ShownOK' /\ FramesOK' /\ CommandsOK' /\ AnswersOK' /\ ClockOK' /\ EpochsOK'
  <2>1. ShownOK' /\ FramesOK'
    BY <1>1, <1>2, <1>6, ShownStay, FramesStay
  <2>2. CommandsOK' /\ AnswersOK'
    BY <1>1, <1>2, <1>5, AnswersStay
  <2>3. ClockOK' /\ EpochsOK'
    BY <1>1, <1>5 DEF ServicesInv, ClockOK, EpochsOK
  <2> QED
    BY <2>1, <2>2, <2>3
<1>8. FilesOK'
  <2>1. DOMAIN file' = Files /\ DOMAIN tmp' = Files
    BY <1>4 DEF Write, Rename, RenameFails
  <2>2. ASSUME NEW f \in Files
        PROVE  /\ \E content : file'[f] = content /\ Fits(f, content)
               /\ \A content \in tmp'[f] : Fits(f, content)
    <3>1. CASE Write(p)
      BY <1>3, <1>4, <3>1 DEF Write, JobOK
    <3>2. CASE Rename(p)
      BY <1>4, <3>2 DEF Rename
    <3>3. CASE RenameFails(p)
      BY <1>4, <3>3 DEF RenameFails
    <3> QED
      BY <3>1, <3>2, <3>3
  <2> QED
    BY <1>3, <2>1, <2>2 DEF FilesOK
<1>9. JobsOK'
  <2>1. JobOK(NoJob)'
    BY <1>1, TypesOfInv DEF JobOK, NoJob, Files
  <2>2. CASE Write(p)
    <3>1. PICK j : j = [job[p] EXCEPT !.pc = "written"]
      OBVIOUS
    <3>2. JobOK(j)
      BY <1>3, <2>2, <3>1 DEF Write, JobOK
    <3>3. JobOK(j)'
      BY <1>2, <3>2, StatesStay, CallsKnown DEF Known
    <3> QED
      BY <1>2, <2>2, <3>1, <3>3, JobsStay DEF Write
  <2>3. CASE Rename(p) \/ RenameFails(p)
    <3>1. PICK j : j = NoJob
      OBVIOUS
    <3> QED
      BY <1>2, <2>1, <2>3, <3>1, JobsStay DEF Rename, RenameFails
  <2> QED
    BY <2>2, <2>3
<1> QED
  BY <1>7, <1>8, <1>9 DEF ServicesInv

(***************************************************************************)
(* The counter of a device's revocations                                   *)
(***************************************************************************)
Clean(n) == <<n, "epoch">> \notin disturbed

Held(c) == cmd[c].pc \in {"numbered", "stamped", "signed"}

\* Revocation n of device d was counted as its e-th.
Counted(d, n, e) ==
  \/ \E m \in sent : /\ m.kind = "revoke" /\ m.from = d
                     /\ m.call = n /\ m.epoch = e
  \/ \E c \in Clients : /\ Owner[c] = d /\ cmd[c].pc = "signed"
                        /\ cmd[c].call = n /\ cmd[c].epoch = e

\* One frame of a call, and none while the revocation is being counted.
CallsOnce ==
  /\ \A a, b \in sent : a.call = b.call => a = b
  /\ \A c \in Clients, m \in sent : Held(c) => m.call # cmd[c].call
  /\ \A b, c \in Clients :
       Held(b) /\ Held(c) /\ cmd[b].call = cmd[c].call => b = c

\* What was counted alone is below whatever will be counted.
Below ==
  \A d \in Devices : \A n, e : Counted(d, n, e) /\ Clean(n) =>
    /\ e \in Nat /\ e <= epoch[d] /\ (epochTmp[d] # 0 => e < epochTmp[d])
    /\ \A c \in Clients : Owner[c] = d /\ Numbering(c) => e < cmd[c].epoch

NumbersDiffer ==
  \A d, n, k, e :
    Counted(d, n, e) /\ Counted(d, k, e) /\ Clean(n) /\ Clean(k) => n = k

\* Who counts alone is alone, and the temporary file is its own.
CountsAlone ==
  \A c \in Clients : Numbering(c) /\ Clean(cmd[c].call) =>
    /\ \A b \in Clients : Owner[b] = Owner[c] /\ Numbering(b) => b = c
    /\ cmd[c].pc = "stamped" => epochTmp[Owner[c]] = cmd[c].epoch

NumbersInv == CallsOnce /\ Below /\ NumbersDiffer /\ CountsAlone

LEMMA NumbersUnique ==
  ASSUME NumbersInv PROVE EpochsUnique
<1> SUFFICES ASSUME NEW a \in sent, NEW b \in sent, a.kind = "revoke",
                    b.kind = "revoke", a.from = b.from, a # b,
                    Clean(a.call), Clean(b.call), a.epoch = b.epoch
             PROVE  FALSE
  BY DEF EpochsUnique, Clean
<1>1. Counted(a.from, a.call, a.epoch) /\ Counted(a.from, b.call, a.epoch)
  BY DEF Counted
<1> QED
  BY <1>1 DEF NumbersInv, NumbersDiffer, CallsOnce

\* Steps that neither count nor send a revocation.
LEMMA NumbersStay ==
  ASSUME ServicesAssumption, NumbersInv, UNCHANGED <<epoch, epochTmp>>,
         \A n : Clean(n)' <=> Clean(n),
         \A c \in Clients : Held(c)' => cmd'[c] = cmd[c],
         \A m \in sent' : m \in sent \/ m.kind # "revoke",
         \A a, b \in sent' : a.call = b.call => a = b,
         \A c \in Clients, m \in sent' : Held(c) => m.call # cmd[c].call
  PROVE  NumbersInv'
<1>1. \A c \in Clients : /\ Held(c)' => Held(c) /\ cmd'[c] = cmd[c]
                         /\ Numbering(c)' => Numbering(c) /\ cmd'[c] = cmd[c]
  BY DEF Held, Numbering
<1>2. \A d, n, e : Counted(d, n, e)' => Counted(d, n, e)
  BY <1>1 DEF Counted, Held
<1>3. CallsOnce'
  BY <1>1 DEF NumbersInv, CallsOnce
<1>4. Below'
  BY <1>1, <1>2 DEF NumbersInv, Below
<1>5. NumbersDiffer'
  BY <1>2 DEF NumbersInv, NumbersDiffer
<1>6. CountsAlone'
  BY <1>1 DEF NumbersInv, CountsAlone
<1> QED
  BY <1>3, <1>4, <1>5, <1>6 DEF NumbersInv

LEMMA NumbersInit ==
  ASSUME ServicesInit PROVE NumbersInv
<1>1. \A d, n, e : ~Counted(d, n, e)
  BY DEF ServicesInit, Counted, NoCmd
<1>2. \A c \in Clients : ~Held(c) /\ ~Numbering(c)
  BY DEF ServicesInit, Held, Numbering, NoCmd
<1> QED
  BY <1>1, <1>2 DEF ServicesInit, NumbersInv, CallsOnce, Below, NumbersDiffer, CountsAlone

\* The calls of frames and commands that were made are not made again.
LEMMA CallsBefore ==
  ASSUME ServicesAssumption, ServicesInv
  PROVE  /\ \A m \in sent : m.call # calls + 1
         /\ \A c \in Clients : DOMAIN cmd = Clients /\ cmd[c].call # calls + 1
                               /\ cmd[c].epoch \in Nat
  BY TypesOfInv DEF ServicesInv, FramesOK, CommandsOK, CommandOK

LEMMA OutsideNumbers ==
  ASSUME ServicesAssumption, ServicesInv, NumbersInv,
         \/ Tick \/ Lose
         \/ \E p \in Procs :
              \/ HandlerFails(p) \/ Write(p) \/ Rename(p) \/ RenameFails(p)
              \/ \E m \in requests : TakeList(p, m) \/ TakeProbe(p, m) \/ RefuseRevoke(p, m)
              \/ \E m \in requests : TakeRegister(p, m) \/ TakeRevoke(p, m)
  PROVE  NumbersInv'
<1> USE DEF disk, device, wire, history
<1>1. UNCHANGED <<epoch, epochTmp, cmd, sent>>
  BY DEF Tick, Lose, HandlerFails, Write, Rename, RenameFails, TakeList, TakeProbe,
      RefuseRevoke, TakeRegister, TakeRevoke, Answer
<1>2. \A n : Clean(n)' <=> Clean(n)
  <2>1. CASE UNCHANGED disturbed
    BY <2>1 DEF Clean
  <2>2. ASSUME NEW p \in Procs, NEW m, TakeRegister(p, m) \/ TakeRevoke(p, m)
        PROVE  \A n : Clean(n)' <=> Clean(n)
    <3>1. PICK f \in {"rendezvous", "revocations"} :
            \A x \in disturbed' : x \in disturbed \/ \E k : x = <<k, f>>
      BY <2>2 DEF TakeRegister, TakeRevoke, Load
    <3>2. disturbed \subseteq disturbed'
      BY <2>2 DEF TakeRegister, TakeRevoke, Load
    <3> QED
      BY <3>1, <3>2 DEF Clean
  <2> QED
    BY <2>1, <2>2 DEF Tick, Lose, HandlerFails, Write, Rename, RenameFails, TakeList,
       TakeProbe, RefuseRevoke, Answer
<1>3. CallsOnce
  BY DEF NumbersInv
<1> QED
  BY <1>1, <1>2, <1>3, NumbersStay DEF CallsOnce

LEMMA CommandNumbers ==
  ASSUME ServicesAssumption, ServicesInv, NumbersInv, NEW c \in Clients,
         \/ Interrupt(c) \/ Show(c) \/ EpochFails(c)
         \/ \E r \in cmd[c].hits : Probe(c, r)
         \/ \E m \in replies : Deliver(c, m)
         \/ \E active \in BOOLEAN : Scan(c, active)
  PROVE  NumbersInv'
<1> USE DEF disk, device, wire, history
<1>1. UNCHANGED <<epoch, epochTmp, sent, disturbed>>
  BY DEF Interrupt, Show, EpochFails, Probe, Deliver, Scan
<1>2. CallsOnce /\ DOMAIN cmd = Clients
  BY DEF NumbersInv, ServicesInv, CommandsOK
<1>3. PICK k : /\ cmd' = [cmd EXCEPT ![c] = k]
               /\ k.pc \in {"idle", "waiting", "listed"} \/ k = cmd[c]
  <2>1. PICK k : k = cmd'[c]
    OBVIOUS
  <2>2. cmd' = [cmd EXCEPT ![c] = k]
    BY <1>2, <2>1 DEF Interrupt, Show, EpochFails, Probe, Deliver, Scan, Begin
  <2>3. CommandOK(cmd[c])
    BY DEF ServicesInv, CommandsOK
  <2>4. CASE Interrupt(c) \/ Show(c) \/ EpochFails(c)
    BY <1>2, <2>1, <2>2, <2>4 DEF Interrupt, Show, EpochFails, NoCmd
  <2>5. ASSUME NEW r, Probe(c, r) PROVE k.pc = "waiting"
    BY <1>2, <2>1, <2>3, <2>5 DEF Probe, CommandOK, CmdFields
  <2>6. ASSUME NEW active, Scan(c, active) PROVE k.pc = "waiting"
    BY <1>2, <2>1, <2>6 DEF Scan, Begin, NoCmd
  <2>7. ASSUME NEW m, Deliver(c, m) PROVE k.pc \in {"idle", "listed"} \/ k = cmd[c]
    BY <1>2, <2>1, <2>3, <2>7 DEF Deliver, NoCmd, CommandOK, CmdFields
  <2> QED
    BY <2>2, <2>4, <2>5, <2>6, <2>7
<1>4. \A b \in Clients : Held(b)' => cmd'[b] = cmd[b]
  BY <1>2, <1>3 DEF Held
<1>5. \A n : Clean(n)' <=> Clean(n)
  BY <1>1 DEF Clean
<1> QED
  BY <1>1, <1>2, <1>4, <1>5, NumbersStay DEF CallsOnce

LEMMA NewFrameNumbers ==
  ASSUME ServicesAssumption, ServicesInv, NumbersInv,
         \/ \E c \in Clients, ttl \in Ttls : Register(c, ttl)
         \/ \E p \in Procs, d \in Trusted : AddOperator(p, d)
  PROVE  NumbersInv'
<1> USE DEF disk, device, wire, history
<1>1. UNCHANGED <<epoch, epochTmp>>
  BY DEF Register, AddOperator
<1>2. CallsOnce /\ DOMAIN cmd = Clients
  BY DEF NumbersInv, ServicesInv, CommandsOK
<1>3. \A c \in Clients : Held(c)' => cmd'[c] = cmd[c]
  <2>1. CASE UNCHANGED cmd
    BY <2>1 DEF Held
  <2>2. ASSUME NEW c \in Clients, NEW k, cmd' = [cmd EXCEPT ![c] = k], k.pc = "waiting"
        PROVE  \A b \in Clients : Held(b)' => cmd'[b] = cmd[b]
    BY <1>2, <2>2 DEF Held
  <2>3. ASSUME NEW c \in Clients, NEW ttl \in Ttls, Register(c, ttl)
        PROVE  \E k : cmd' = [cmd EXCEPT ![c] = k] /\ k.pc = "waiting"
    <3>1. PICK k : k = [NoCmd EXCEPT !.pc = "waiting", !.kind = "register",
                                     !.call = calls + 1]
      OBVIOUS
    <3>2. cmd' = [cmd EXCEPT ![c] = k]
      BY <2>3, <3>1 DEF Register, Begin
    <3>3. k.pc = "waiting"
      BY <3>1 DEF NoCmd
    <3> QED
      BY <3>2, <3>3
  <2> QED
    BY <2>1, <2>2, <2>3 DEF AddOperator
<1>4. \A n : Clean(n)' <=> Clean(n)
  <2>1. CASE UNCHANGED disturbed
    BY <2>1 DEF Clean
  <2>2. ASSUME NEW p \in Procs, NEW d \in Trusted, AddOperator(p, d)
        PROVE  \A n : Clean(n)' <=> Clean(n)
    <3>1. \A x \in disturbed' : x \in disturbed \/ \E k : x = <<k, "operators">>
      BY <2>2 DEF AddOperator, Load
    <3>2. disturbed \subseteq disturbed'
      BY <2>2 DEF AddOperator, Load
    <3> QED
      BY <3>1, <3>2 DEF Clean
  <2> QED
    BY <2>1, <2>2 DEF Register
<1>5. \E m : sent' = sent \cup {m} /\ m.call = calls + 1 /\ m.kind # "revoke"
  <2>1. ASSUME NEW c \in Clients, NEW ttl \in Ttls, Register(c, ttl)
        PROVE  \E m : sent' = sent \cup {m} /\ m.call = calls + 1 /\ m.kind # "revoke"
    <3>1. PICK m : m = Frame(calls + 1, Owner[c], "register", NoDevice, ttl, 0)
      OBVIOUS
    <3> QED
      BY <2>1, <3>1 DEF Register, Frame
  <2>2. ASSUME NEW p \in Procs, NEW d \in Trusted, AddOperator(p, d)
        PROVE  \E m : sent' = sent \cup {m} /\ m.call = calls + 1 /\ m.kind # "revoke"
    <3>1. PICK m : m = Frame(calls', NoDevice, "operator", d, 0, 0)
      OBVIOUS
    <3> QED
      BY <2>2, <3>1 DEF AddOperator, Frame
  <2> QED
    BY <2>1, <2>2
<1>6. /\ \A a, b \in sent' : a.call = b.call => a = b
      /\ \A c \in Clients, m \in sent' : Held(c) => m.call # cmd[c].call
      /\ \A m \in sent' : m \in sent \/ m.kind # "revoke"
  BY <1>2, <1>5, CallsBefore DEF CallsOnce
<1> QED
  BY <1>1, <1>3, <1>4, <1>6, NumbersStay

LEMMA RevokeNumbers ==
  ASSUME ServicesAssumption, ServicesInv, NumbersInv, NEW c \in Clients,
         NEW x \in Targets, Revoke(c, x)
  PROVE  NumbersInv'
<1> USE DEF disk, device, wire, history
<1>1. /\ UNCHANGED <<epoch, epochTmp, sent>>
      /\ DOMAIN cmd = Clients /\ Owner[c] \in Devices /\ epoch[Owner[c]] \in Nat
  BY TypesOfInv DEF Revoke, ServicesInv, CommandsOK, ServicesAssumption
<1>2. PICK k : /\ cmd' = [cmd EXCEPT ![c] = k] /\ k.pc = "numbered"
               /\ k.call = calls + 1 /\ k.epoch = epoch[Owner[c]] + 1
  <2>1. PICK k : k = [NoCmd EXCEPT !.pc = "numbered", !.kind = "revoke",
          !.call = calls + 1, !.target = x, !.epoch = NextEpoch(Owner[c])]
    OBVIOUS
  <2>2. cmd' = [cmd EXCEPT ![c] = k]
    BY <2>1 DEF Revoke, Begin
  <2>3. k.pc = "numbered" /\ k.call = calls + 1 /\ k.epoch = epoch[Owner[c]] + 1
    BY <2>1 DEF NoCmd, NextEpoch
  <2> QED
    BY <2>2, <2>3
<1>3. /\ cmd[c].pc = "idle"
      /\ cmd'[c] = k /\ \A b \in Clients : b # c => cmd'[b] = cmd[b]
  BY <1>1, <1>2 DEF Revoke, Begin
<1>4. /\ \A b \in Clients : Held(b)' => b = c \/ (Held(b) /\ cmd'[b] = cmd[b])
      /\ \A b \in Clients : Numbering(b)' => b = c \/ (Numbering(b) /\ cmd'[b] = cmd[b])
      /\ \A b \in Clients : Numbering(b) => b # c /\ Numbering(b)'
      /\ ~Held(c) /\ Numbering(c)'
  BY <1>2, <1>3 DEF Held, Numbering
<1>5. \A d, n, e : Counted(d, n, e)' => Counted(d, n, e)
  BY <1>1, <1>2, <1>3 DEF Counted
<1>6. \A n : Clean(n)' => Clean(n)
  BY DEF Clean, Revoke
<1>7. ASSUME NEW b \in Clients, Owner[b] = Owner[c], Numbering(b), NEW n,
             n = cmd[b].call \/ n = calls + 1
      PROVE  ~Clean(n)'
  <2> DEFINE others == {a \in Clients : Owner[a] = Owner[c] /\ Numbering(a)}
             marked == {cmd[a].call : a \in others} \cup {i \in {calls'} : others # {}}
  <2>1. disturbed' = disturbed \cup {<<i, "epoch">> : i \in marked}
    BY DEF Revoke
  <2>2. b \in others /\ n \in marked
    BY <1>7 DEF Revoke, Begin
  <2> QED
    BY <2>1, <2>2 DEF Clean
<1>8. CallsOnce'
  BY <1>1, <1>2, <1>3, <1>4, CallsBefore DEF NumbersInv, CallsOnce
<1>9. Below'
  BY <1>1, <1>2, <1>3, <1>4, <1>5, <1>6 DEF NumbersInv, Below
<1>10. NumbersDiffer'
  BY <1>5, <1>6 DEF NumbersInv, NumbersDiffer
<1>11. CountsAlone'
  <2>1. ASSUME NEW b \in Clients, Numbering(b)', NEW n, n = cmd'[b].call, Clean(n)'
        PROVE  /\ \A a \in Clients : Owner[a] = Owner[b] /\ Numbering(a)' => a = b
               /\ cmd'[b].pc = "stamped" => epochTmp[Owner[b]] = cmd'[b].epoch
    <3>1. CASE b = c
      <4>1. n = calls + 1 /\ cmd'[b].pc = "numbered"
        BY <1>2, <1>3, <2>1, <3>1
      <4> QED
        BY <1>4, <1>7, <2>1, <3>1, <4>1
    <3>2. CASE b # c
      <4>1. /\ Numbering(b) /\ cmd'[b] = cmd[b] /\ n = cmd[b].call
            /\ Clean(cmd[b].call)
        BY <1>3, <1>4, <1>6, <2>1, <3>2
      <4>2. Owner[b] # Owner[c]
        BY <1>7, <2>1, <4>1
      <4>3. /\ \A a \in Clients : Owner[a] = Owner[b] /\ Numbering(a) => a = b
            /\ cmd[b].pc = "stamped" => epochTmp[Owner[b]] = cmd[b].epoch
        BY <4>1 DEF NumbersInv, CountsAlone
      <4> QED
        BY <1>4, <4>1, <4>2, <4>3
    <3> QED
      BY <3>1, <3>2
  <2> QED
    BY <1>1, <2>1 DEF CountsAlone
<1> QED
  BY <1>8, <1>9, <1>10, <1>11 DEF NumbersInv

LEMMA WriteEpochNumbers ==
  ASSUME ServicesAssumption, ServicesInv, NumbersInv, NEW c \in Clients, WriteEpoch(c)
  PROVE  NumbersInv'
<1> USE DEF disk, device, wire, history
<1>1. /\ UNCHANGED <<epoch, sent, disturbed>> /\ DOMAIN cmd = Clients
      /\ epochTmp' = [epochTmp EXCEPT ![Owner[c]] = cmd[c].epoch]
      /\ DOMAIN epochTmp = Devices /\ Owner[c] \in Devices
      /\ cmd[c].pc = "numbered" /\ Numbering(c)
  BY TypesOfInv DEF WriteEpoch, ServicesInv, CommandsOK, ServicesAssumption, Numbering
<1>2. /\ cmd'[c].pc = "stamped" /\ cmd'[c].call = cmd[c].call
      /\ cmd'[c].epoch = cmd[c].epoch /\ \A b \in Clients : b # c => cmd'[b] = cmd[b]
  BY <1>1 DEF WriteEpoch, ServicesInv, CommandsOK, CommandOK, CmdFields
<1>3. \A b \in Clients : /\ Held(b)' <=> Held(b)
                         /\ Numbering(b)' <=> Numbering(b)
                         /\ cmd'[b].call = cmd[b].call /\ cmd'[b].epoch = cmd[b].epoch
                         /\ cmd'[b].pc = "signed" <=> cmd[b].pc = "signed"
  BY <1>1, <1>2 DEF Held, Numbering
<1>4. \A d, n, e : Counted(d, n, e)' <=> Counted(d, n, e)
  BY <1>1, <1>3 DEF Counted
<1>5. \A n : Clean(n)' <=> Clean(n)
  BY <1>1 DEF Clean
<1>6. \A d \in Devices : epochTmp'[d] = IF d = Owner[c] THEN cmd[c].epoch ELSE epochTmp[d]
  BY <1>1
<1>7. CallsOnce'
  BY <1>1, <1>3 DEF NumbersInv, CallsOnce
<1>8. Below'
  BY <1>1, <1>3, <1>4, <1>5, <1>6 DEF NumbersInv, Below
<1>9. NumbersDiffer'
  BY <1>4, <1>5 DEF NumbersInv, NumbersDiffer
<1>10. CountsAlone'
  <2>1. ASSUME NEW b \in Clients, Numbering(b), Clean(cmd[b].call)
        PROVE  /\ \A a \in Clients : Owner[a] = Owner[b] /\ Numbering(a) => a = b
               /\ cmd'[b].pc = "stamped" => epochTmp'[Owner[b]] = cmd'[b].epoch
    <3>1. /\ \A a \in Clients : Owner[a] = Owner[b] /\ Numbering(a) => a = b
          /\ cmd[b].pc = "stamped" => epochTmp[Owner[b]] = cmd[b].epoch
      BY <2>1 DEF NumbersInv, CountsAlone
    <3>2. CASE b = c
      BY <1>1, <1>2, <1>6, <3>1, <3>2
    <3>3. CASE b # c
      <4>1. Owner[b] # Owner[c] /\ Owner[b] \in Devices
        BY <1>1, <3>1, <3>3 DEF ServicesAssumption
      <4> QED
        BY <1>2, <1>6, <3>1, <3>3, <4>1
    <3> QED
      BY <3>2, <3>3
  <2> QED
    BY <1>3, <1>5, <2>1 DEF CountsAlone
<1> QED
  BY <1>7, <1>8, <1>9, <1>10 DEF NumbersInv

LEMMA RenameEpochNumbers ==
  ASSUME ServicesAssumption, ServicesInv, NumbersInv, NEW c \in Clients, RenameEpoch(c)
  PROVE  NumbersInv'
<1> USE DEF disk, device, wire, history
<1>1. /\ UNCHANGED <<sent, disturbed>> /\ DOMAIN cmd = Clients
      /\ DOMAIN epoch = Devices /\ DOMAIN epochTmp = Devices /\ Owner[c] \in Devices
      /\ cmd[c].pc = "stamped" /\ Numbering(c) /\ epochTmp[Owner[c]] # 0
      /\ epochTmp[Owner[c]] \in Nat /\ cmd[c].epoch \in Nat
  BY TypesOfInv, CallsBefore
  DEF RenameEpoch, ServicesInv, CommandsOK, ServicesAssumption, Numbering
<1>2. /\ cmd'[c].pc = "signed" /\ cmd'[c].call = cmd[c].call
      /\ cmd'[c].epoch = cmd[c].epoch /\ \A b \in Clients : b # c => cmd'[b] = cmd[b]
  BY <1>1 DEF RenameEpoch, ServicesInv, CommandsOK, CommandOK, CmdFields
<1>3. \A b \in Clients : /\ Held(b)' <=> Held(b)
                         /\ Numbering(b)' => b # c /\ Numbering(b) /\ cmd'[b] = cmd[b]
                         /\ cmd'[b].call = cmd[b].call /\ cmd'[b].epoch = cmd[b].epoch
                         /\ cmd'[b].pc = "signed" => b = c \/ cmd[b].pc = "signed"
  BY <1>1, <1>2 DEF Held, Numbering
<1>4. \A d, n, e : Counted(d, n, e)' =>
        \/ Counted(d, n, e)
        \/ d = Owner[c] /\ n = cmd[c].call /\ e = cmd[c].epoch
  BY <1>1, <1>3 DEF Counted
<1>5. \A n : Clean(n)' <=> Clean(n)
  BY <1>1 DEF Clean
<1>6. \A d \in Devices :
        /\ epoch'[d] = IF d = Owner[c] THEN epochTmp[d] ELSE epoch[d]
        /\ epochTmp'[d] = IF d = Owner[c] THEN 0 ELSE epochTmp[d]
  BY <1>1 DEF RenameEpoch
<1>7. Clean(cmd[c].call) =>
        /\ epochTmp[Owner[c]] = cmd[c].epoch
        /\ \A b \in Clients : Owner[b] = Owner[c] /\ Numbering(b) => b = c
  BY <1>1 DEF NumbersInv, CountsAlone
<1>8. CallsOnce'
  BY <1>1, <1>3 DEF NumbersInv, CallsOnce
<1>9. Below'
  <2>1. ASSUME NEW d \in Devices, NEW n, NEW e, Counted(d, n, e)', Clean(n)
        PROVE  /\ e \in Nat /\ e <= epoch'[d] /\ (epochTmp'[d] # 0 => e < epochTmp'[d])
               /\ \A b \in Clients : Owner[b] = d /\ Numbering(b)' => e < cmd'[b].epoch
    <3>1. CASE Counted(d, n, e)
      <4>1. /\ e \in Nat /\ e <= epoch[d] /\ (epochTmp[d] # 0 => e < epochTmp[d])
            /\ \A b \in Clients : Owner[b] = d /\ Numbering(b) => e < cmd[b].epoch
        BY <2>1, <3>1 DEF NumbersInv, Below
      <4> QED
        BY <1>1, <1>3, <1>6, <4>1
    <3>2. CASE d = Owner[c] /\ n = cmd[c].call /\ e = cmd[c].epoch
      BY <1>1, <1>3, <1>6, <1>7, <2>1, <3>2
    <3> QED
      BY <1>4, <2>1, <3>1, <3>2
  <2> QED
    BY <1>5, <2>1 DEF Below
<1>10. NumbersDiffer'
  <2>1. ASSUME NEW n, Clean(n), Counted(Owner[c], n, cmd[c].epoch) PROVE FALSE
    BY <1>1, <2>1 DEF NumbersInv, Below
  <2> QED
    BY <1>4, <1>5, <2>1 DEF NumbersInv, NumbersDiffer
<1>11. CountsAlone'
  <2>1. ASSUME NEW b \in Clients, Numbering(b)', Clean(cmd[b].call)
        PROVE  /\ \A a \in Clients : Owner[a] = Owner[b] /\ Numbering(a)' => a = b
               /\ cmd'[b].pc = "stamped" => epochTmp'[Owner[b]] = cmd'[b].epoch
    <3>1. b # c /\ Numbering(b) /\ cmd'[b] = cmd[b] /\ Owner[b] \in Devices
      BY <1>3, <2>1 DEF ServicesAssumption
    <3>2. /\ \A a \in Clients : Owner[a] = Owner[b] /\ Numbering(a) => a = b
          /\ cmd[b].pc = "stamped" => epochTmp[Owner[b]] = cmd[b].epoch
      BY <2>1, <3>1 DEF NumbersInv, CountsAlone
    <3>3. Owner[b] # Owner[c]
      BY <1>1, <3>1, <3>2
    <3> QED
      BY <1>3, <1>6, <3>1, <3>2, <3>3
  <2> QED
    BY <1>3, <1>5, <2>1 DEF CountsAlone
<1> QED
  BY <1>8, <1>9, <1>10, <1>11 DEF NumbersInv

LEMMA BroadcastNumbers ==
  ASSUME ServicesAssumption, ServicesInv, NumbersInv, NEW c \in Clients, Broadcast(c)
  PROVE  NumbersInv'
<1> USE DEF disk, device, wire, history
<1>1. /\ UNCHANGED <<epoch, epochTmp, disturbed>> /\ DOMAIN cmd = Clients
      /\ cmd[c].pc = "signed" /\ Held(c) /\ ~Numbering(c)
  BY DEF Broadcast, ServicesInv, CommandsOK, Held, Numbering
<1>2. cmd'[c].pc = "waiting" /\ \A b \in Clients : b # c => cmd'[b] = cmd[b]
  BY <1>1 DEF Broadcast, ServicesInv, CommandsOK, CommandOK, CmdFields
<1>3. \A b \in Clients : /\ Held(b)' => b # c /\ Held(b) /\ cmd'[b] = cmd[b]
                         /\ Numbering(b)' => Numbering(b) /\ cmd'[b] = cmd[b]
  BY <1>1, <1>2 DEF Held, Numbering
<1>4. PICK m : /\ sent' = sent \cup {m} /\ m.call = cmd[c].call /\ m.from = Owner[c]
               /\ m.epoch = cmd[c].epoch
  <2>1. PICK m : m = Frame(cmd[c].call, Owner[c], "revoke", cmd[c].target, 0,
                           cmd[c].epoch)
    OBVIOUS
  <2> QED
    BY <2>1 DEF Broadcast, Frame
<1>5. \A d, n, e : Counted(d, n, e)' => Counted(d, n, e)
  <2>1. ASSUME NEW d, NEW n, NEW e, NEW b \in Clients, Owner[b] = d,
               cmd'[b].pc = "signed", cmd'[b].call = n, cmd'[b].epoch = e
        PROVE  Counted(d, n, e)
    BY <1>2, <2>1 DEF Counted
  <2>2. Counted(Owner[c], cmd[c].call, cmd[c].epoch)
    BY <1>1 DEF Counted
  <2>3. ASSUME NEW d, NEW n, NEW e, NEW o \in sent', o.kind = "revoke", o.from = d,
               o.call = n, o.epoch = e
        PROVE  Counted(d, n, e)
    BY <1>4, <2>2, <2>3 DEF Counted
  <2> QED
    BY <2>1, <2>3 DEF Counted
<1>6. \A n : Clean(n)' <=> Clean(n)
  BY <1>1 DEF Clean
<1>7. CallsOnce'
  <2>1. \A a, b \in sent' : a.call = b.call => a = b
    BY <1>1, <1>4 DEF NumbersInv, CallsOnce
  <2>2. \A b \in Clients, o \in sent' : Held(b)' => o.call # cmd'[b].call
    BY <1>1, <1>3, <1>4 DEF NumbersInv, CallsOnce
  <2>3. \A a, b \in Clients : Held(a)' /\ Held(b)' /\ cmd'[a].call = cmd'[b].call => a = b
    BY <1>3 DEF NumbersInv, CallsOnce
  <2> QED
    BY <2>1, <2>2, <2>3 DEF CallsOnce
<1>8. Below'
  BY <1>1, <1>3, <1>5, <1>6 DEF NumbersInv, Below
<1>9. NumbersDiffer'
  BY <1>5, <1>6 DEF NumbersInv, NumbersDiffer
<1>10. CountsAlone'
  BY <1>1, <1>3, <1>6 DEF NumbersInv, CountsAlone
<1> QED
  BY <1>7, <1>8, <1>9, <1>10 DEF NumbersInv

(***************************************************************************)
(* The theorems                                                            *)
(***************************************************************************)
\* ServicesInv holds of a core and its devices in every reachable state.
THEOREM ServicesInvariance == ServicesSpec => []ServicesInv
<1>1. ServicesAssumption
  BY ServicesAssumption
<1>2. ServicesInit => ServicesInv
  BY <1>1, ServicesInitInv
<1>3. ServicesInv /\ [Next]_vars => ServicesInv'
  <2> SUFFICES ASSUME ServicesInv, [Next]_vars PROVE ServicesInv'
    OBVIOUS
  <2>1. CASE Tick \/ Lose \/ (\E p \in Procs : HandlerFails(p))
             \/ (\E c \in Clients : Interrupt(c))
    BY <1>1, <2>1, FaultInv
  <2>2. ASSUME NEW p \in Handlers, Handle(p) PROVE ServicesInv'
    BY <1>1, <2>2, TakeRegisterInv, TakeRevokeInv, AnswerInv, RewriteInv
    DEF Handle, Procs
  <2>3. ASSUME NEW p \in Admins, NEW d \in Trusted, AddOperator(p, d)
        PROVE  ServicesInv'
    BY <1>1, <2>3, AddOperatorInv DEF Procs
  <2>4. ASSUME NEW p \in Admins, Write(p) \/ Rename(p) \/ RenameFails(p)
        PROVE  ServicesInv'
    BY <1>1, <2>4, RewriteInv DEF Procs
  <2>5. ASSUME NEW c \in Clients, Proceed(c) PROVE ServicesInv'
    BY <1>1, <2>5, EpochStepsInv, ScanStepsInv DEF Proceed
  <2>6. ASSUME NEW c \in Clients,
               \/ \E ttl \in Ttls : Register(c, ttl)
               \/ \E active \in BOOLEAN : Scan(c, active)
               \/ \E x \in Targets : Revoke(c, x)
        PROVE  ServicesInv'
    BY <1>1, <2>6, BeginsInv
  <2>7. CASE UNCHANGED vars
    BY <2>7 DEF vars, disk, device, wire, history, ServicesInv, FilesOK, Fits,
         Appointed, Denounced, Announced, JobsOK, JobOK, ClockOK, EpochsOK, FramesOK,
         RequestOK, ReplyOK, CommandsOK, CommandOK, AnswersOK, Fresh, ShownOK
  <2> QED
    BY <2>1, <2>2, <2>3, <2>4, <2>5, <2>6, <2>7 DEF Next
<1> QED
  BY <1>2, <1>3, PTL DEF ServicesSpec

\* The types, the counters' bounds, and one registration of each device.
THEOREM ServicesTypeCorrect == ServicesSpec => []ServicesTypeOK
<1>1. ServicesInv => ServicesTypeOK
  BY ServicesAssumption, InvGivesTypes
<1> QED
  BY <1>1, ServicesInvariance, PTL

\* Whoever is revoked on a core was named by a device that somebody had made
\* an operator there, whatever copy of a list a process writes back.
THEOREM RevokedNamedByOperators == ServicesSpec => []RevokedByOperators
<1>1. ServicesInv => RevokedByOperators
  BY DEF ServicesInv, FilesOK, Files, Fits, Denounced, RevokedByOperators
<1> QED
  BY <1>1, ServicesInvariance, PTL

\* What a scan prints was registered by its device and live when it began.
THEOREM ScanLive == ServicesSpec => []ScanShowsLive
<1>1. ServicesInv => ScanShowsLive
  BY ServicesAssumption, InvShowsLive
<1> QED
  BY <1>1, ServicesInvariance, PTL

\* What was counted alone stays below what will be counted, and each call has
\* one frame.
THEOREM NumbersInvariance == ServicesSpec => []NumbersInv
<1>1. ServicesAssumption
  BY ServicesAssumption
<1>2. ServicesInit => NumbersInv
  BY NumbersInit
<1>3. ServicesInv /\ NumbersInv /\ [Next]_vars => NumbersInv'
  <2> SUFFICES ASSUME ServicesInv, NumbersInv, [Next]_vars PROVE NumbersInv'
    OBVIOUS
  <2>1. CASE Tick \/ Lose \/ (\E p \in Procs : HandlerFails(p))
    BY <1>1, <2>1, OutsideNumbers
  <2>2. ASSUME NEW p \in Handlers, Handle(p) PROVE NumbersInv'
    BY <1>1, <2>2, OutsideNumbers DEF Handle, Procs
  <2>3. ASSUME NEW p \in Admins, NEW d \in Trusted, AddOperator(p, d)
        PROVE  NumbersInv'
    BY <1>1, <2>3, NewFrameNumbers DEF Procs
  <2>4. ASSUME NEW p \in Admins, Write(p) \/ Rename(p) \/ RenameFails(p)
        PROVE  NumbersInv'
    BY <1>1, <2>4, OutsideNumbers DEF Procs
  <2>5. ASSUME NEW c \in Clients, Proceed(c) PROVE NumbersInv'
    BY <1>1, <2>5, WriteEpochNumbers, RenameEpochNumbers, BroadcastNumbers,
       CommandNumbers DEF Proceed
  <2>6. ASSUME NEW c \in Clients,
               \/ \E ttl \in Ttls : Register(c, ttl)
               \/ \E active \in BOOLEAN : Scan(c, active)
               \/ \E x \in Targets : Revoke(c, x)
               \/ Interrupt(c)
        PROVE  NumbersInv'
    BY <1>1, <2>6, NewFrameNumbers, CommandNumbers, RevokeNumbers
  <2>7. CASE UNCHANGED vars
    BY <2>7 DEF vars, disk, device, wire, history, NumbersInv, CallsOnce, Below,
       NumbersDiffer, CountsAlone, Counted, Clean, Held, Numbering
  <2> QED
    BY <2>1, <2>2, <2>3, <2>4, <2>5, <2>6, <2>7 DEF Next
<1> QED
  BY <1>2, <1>3, ServicesInvariance, PTL DEF ServicesSpec

\* No two revocations of a device carry one number, unless two of its commands
\* counted at the same time.
THEOREM EpochsDiffer == ServicesSpec => []EpochsUnique
<1>1. NumbersInv => EpochsUnique
  BY NumbersUnique
<1> QED
  BY <1>1, NumbersInvariance, PTL
=============================================================================
