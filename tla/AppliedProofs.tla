--------------------------- MODULE AppliedProofs ---------------------------
(***************************************************************************)
(* Proofs about Services, for any number of processes, devices and calls:  *)
(* what a command was told is done is in the file, as long as the core did *)
(* not rewrite that file twice at the same time.                           *)
(***************************************************************************)
EXTENDS ServicesProofs

\* Call n was reported as done, or is about to be.
Reported(n) == n \in acked \/ \E x \in replies : x.call = n /\ x.outcome = "done"

Apart(m) == <<m.call, FileOf(m)>> \notin disturbed

Busy(p) == job[p].pc # "idle"

\* A record ends when the registration it was made of does.
Exact(r) ==
  \E j \in sent :
    /\ j.kind = "register" /\ j.call = r.call /\ j.from = r.device
    /\ taken[j.call] # 0 /\ r.expires_at = taken[j.call] - 1 + Ttl(j.ttl)

\* File f must show frame m, or must when call n is done.
Owed(f, n, m) == FileOf(m) = f /\ Apart(m) /\ (Reported(m.call) \/ m.call = n)

\* A content that may replace file f when call n is done.
Keeps(f, n, content) ==
  /\ f = "rendezvous" => \A r \in content : Exact(r)
  /\ \A m \in sent : Owed(f, n, m) => Holds(m, content)

\* The call of a job, or no call at all.
Named(n) == n = 0 \/ \E m \in sent : m.call = n

HistoryOK ==
  /\ \A m \in sent : m.kind = "register" => m.ttl \in Nat
  /\ \A n \in Calls : taken[n] # 0 => \E m \in sent : m.call = n
  /\ \A n : Reported(n) => \E m \in sent : m.call = n
  /\ \A m \in sent : m.kind = "register" /\ Reported(m.call) => taken[m.call] # 0
  /\ \A m \in requests : m.kind \in {"register", "revoke"} => taken[m.call] = 0

\* A job does what a frame asked for.
JobsSent ==
  \A p \in Procs : Busy(p) =>
    \E m \in sent : /\ m.call = job[p].call /\ FileOf(m) = job[p].file
                    /\ m.kind = "register" => taken[m.call] # 0

FilesKeep == \A f \in Files : Keeps(f, 0, file[f])

JobsKeep ==
  \A p \in Procs : Busy(p) => Keeps(job[p].file, job[p].call, job[p].content)

\* Whoever is about to rename finds a copy that keeps what is owed, whichever
\* process wrote it.
CopiesKeep ==
  \A p \in Procs : job[p].pc = "written" =>
    \A content \in tmp[job[p].file] : Keeps(job[p].file, job[p].call, content)

JobsApart ==
  \A p, q \in Procs : p # q /\ Busy(p) /\ Busy(q) /\ job[p].file = job[q].file =>
    <<job[p].call, job[p].file>> \in disturbed

AppliedInv ==
  HistoryOK /\ JobsSent /\ FilesKeep /\ JobsKeep /\ CopiesKeep /\ JobsApart

LEMMA AppliedInit ==
  ASSUME ServicesInit PROVE AppliedInv
<1> USE DEF ServicesInit
<1>1. \A n : ~Reported(n)
  BY DEF Reported
<1>2. \A p \in Procs : ~Busy(p) /\ job[p].pc # "written"
  BY DEF Busy, NoJob
<1>3. HistoryOK
  BY <1>1 DEF HistoryOK
<1>4. FilesKeep
  BY DEF FilesKeep, Keeps
<1> QED
  BY <1>2, <1>3, <1>4 DEF AppliedInv, JobsSent, JobsKeep, CopiesKeep, JobsApart

LEMMA AppliedIsAcked ==
  ASSUME ServicesAssumption, ServicesInv, AppliedInv PROVE AckedIsApplied
<1>1. ASSUME NEW m \in sent, m.call \in acked, <<m.call, FileOf(m)>> \notin disturbed
      PROVE  Applied(m)
  <2>1. FileOf(m) \in Files
    BY DEF FileOf, Files
  <2>2. Owed(FileOf(m), 0, m)
    BY <1>1 DEF Owed, Apart, Reported
  <2>3. Keeps(FileOf(m), 0, file[FileOf(m)])
    BY <2>1 DEF AppliedInv, FilesKeep
  <2> QED
    BY <2>2, <2>3 DEF Keeps, Applied
<1> QED
  BY <1>1 DEF AckedIsApplied

(***************************************************************************)
(* What a file keeps, it keeps while nothing else is reported              *)
(***************************************************************************)
\* The histories grow.
Lasts ==
  /\ Known /\ late \subseteq late' /\ disturbed \subseteq disturbed'
  /\ \A n \in Calls : taken[n] # 0 => taken'[n] = taken[n]

LEMMA HoldsLasts ==
  ASSUME Lasts, HistoryOK
  PROVE  /\ \A r : Exact(r) => Exact(r)'
         /\ \A m, content : Holds(m, content) => Holds(m, content)'
<1>1. /\ ServicesAssumption /\ \A m \in sent : m.call \in Calls /\ taken[m.call] \in Nat
      /\ now \in Nat /\ now' \in Nat /\ now <= now' /\ sent \subseteq sent'
      /\ \A n \in Calls : taken[n] # 0 => taken'[n] = taken[n]
  BY CallsKnown, TypesOfInv DEF Lasts, Known, Grows
<1>2. \A m \in sent : m.kind = "register" => Ttl(m.ttl) \in Nat
  <2>1. ASSUME NEW m \in sent, m.kind = "register" PROVE Ttl(m.ttl) \in 1 .. MaxTtl
    BY <1>1, <2>1, TtlBounded DEF HistoryOK
  <2> QED
    BY <1>1, <2>1, TypesOfInv DEF Lasts, Known
<1>3. \A r : Exact(r) => Exact(r)'
  BY <1>1 DEF Exact
<1>4. \A m : Outlived(m) => Outlived(m)'
  <2>1. ASSUME NEW m, NEW j \in sent,
               j.kind = "register", j.from = m.from, j.call >= m.call,
               taken[j.call] # 0, taken[j.call] - 1 + Ttl(j.ttl) <= now
        PROVE  taken'[j.call] # 0 /\ taken'[j.call] - 1 + Ttl(j.ttl) <= now'
    <3>1. taken'[j.call] = taken[j.call] /\ taken[j.call] \in Nat /\ Ttl(j.ttl) \in Nat
      BY <1>1, <1>2, <2>1
    <3> QED
      BY <1>1, <2>1, <3>1
  <2> QED
    BY <1>1, <2>1 DEF Outlived
<1>5. late \subseteq late'
  BY DEF Lasts
<1> QED
  BY <1>3, <1>4, <1>5 DEF Holds

\* Nothing else is reported, and a new frame has a new call.
Silent ==
  /\ Lasts /\ HistoryOK
  /\ \A n : Reported(n)' => Reported(n)
  /\ \A m \in sent' : m \in sent \/ ~Named(m.call)

LEMMA KeepsLasts ==
  ASSUME Silent
  PROVE  \A f, n, content : Named(n) /\ Keeps(f, n, content) => Keeps(f, n, content)'
<1>1. /\ \A r : Exact(r) => Exact(r)'
      /\ \A m, content : Holds(m, content) => Holds(m, content)'
  BY HoldsLasts DEF Silent
<1>2. \A f, n, m : Owed(f, n, m)' => Owed(f, n, m)
  <2>1. \A m : Apart(m)' => Apart(m)
    BY DEF Apart, Silent, Lasts
  <2> QED
    BY <2>1 DEF Owed, Silent
<1>3. \A m \in sent' : \A f, n : Named(n) /\ Owed(f, n, m) => m \in sent
  <2>1. \A n : Reported(n) => Named(n)
    BY DEF Silent, HistoryOK, Named
  <2> QED
    BY <2>1 DEF Owed, Silent
<1> QED
  BY <1>1, <1>2, <1>3 DEF Keeps

LEMMA NamedJobs ==
  ASSUME AppliedInv, NEW p \in Procs, Busy(p) PROVE Named(job[p].call)
  BY DEF AppliedInv, JobsSent, Named

\* A file, a job or a copy that was not touched.
LEMMA PartsLast ==
  ASSUME Silent, AppliedInv
  PROVE  /\ \A f \in Files : \A content : content = file[f] => Keeps(f, 0, content)'
         /\ \A p \in Procs : Busy(p) => \A f, n, content :
              /\ f = job[p].file /\ n = job[p].call
              /\ \/ content = job[p].content
                 \/ job[p].pc = "written" /\ content \in tmp[f]
              => Keeps(f, n, content)'
<1>1. \A f, n, content : Named(n) /\ Keeps(f, n, content) => Keeps(f, n, content)'
  BY KeepsLasts
<1>2. ASSUME NEW f \in Files, NEW content, content = file[f] PROVE Keeps(f, 0, content)'
  <2>1. Named(0) /\ Keeps(f, 0, content)
    BY <1>2 DEF AppliedInv, FilesKeep, Named
  <2> QED
    BY <1>1, <2>1
<1>3. ASSUME NEW p \in Procs, Busy(p), NEW f, NEW n, NEW content,
             f = job[p].file, n = job[p].call,
             \/ content = job[p].content
             \/ job[p].pc = "written" /\ content \in tmp[f]
      PROVE  Keeps(f, n, content)'
  <2>1. Named(n)
    BY <1>3, NamedJobs
  <2>2. Keeps(f, n, content)
    BY <1>3 DEF AppliedInv, JobsKeep, CopiesKeep
  <2> QED
    BY <1>1, <2>1, <2>2
<1> QED
  BY <1>2, <1>3

\* Steps that rewrite no file and start no rewriting.
LEMMA QuietApplied ==
  ASSUME Silent, AppliedInv, UNCHANGED <<file, tmp>>, HistoryOK',
         \A p \in Procs : job'[p] = job[p] \/ job'[p].pc = "idle"
  PROVE  AppliedInv'
<1>1. \A p \in Procs : Busy(p)' => Busy(p) /\ job'[p] = job[p]
  BY DEF Busy
<1>2. /\ \A f \in Files : \A content : content = file[f] => Keeps(f, 0, content)'
      /\ \A p \in Procs : Busy(p) => \A f, n, content :
           /\ f = job[p].file /\ n = job[p].call
           /\ \/ content = job[p].content
              \/ job[p].pc = "written" /\ content \in tmp[f]
           => Keeps(f, n, content)'
  BY PartsLast
<1>3. FilesKeep'
  <2>1. \A f \in Files : \A content : content = file'[f] => Keeps(f, 0, content)'
    BY <1>2
  <2> QED
    BY <2>1 DEF FilesKeep
<1>4. JobsKeep'
  <2>1. \A p \in Procs : Busy(p)' => \A f, n, content :
          f = job'[p].file /\ n = job'[p].call /\ content = job'[p].content
            => Keeps(f, n, content)'
    BY <1>1, <1>2
  <2> QED
    BY <2>1 DEF JobsKeep
<1>5. CopiesKeep'
  <2>1. \A p \in Procs : job'[p].pc = "written" => Busy(p)'
    BY DEF Busy
  <2>2. \A p \in Procs : job'[p].pc = "written" => \A f, n, content :
          f = job'[p].file /\ n = job'[p].call /\ content \in tmp'[f]
            => Keeps(f, n, content)'
    BY <1>1, <1>2, <2>1
  <2> QED
    BY <2>2 DEF CopiesKeep
<1>6. JobsSent'
  <2>1. sent \subseteq sent' /\ \A m \in sent : taken[m.call] # 0 => taken'[m.call] # 0
    BY CallsKnown DEF Silent, Lasts, Known, Grows
  <2> QED
    BY <1>1, <2>1 DEF AppliedInv, JobsSent
<1>7. JobsApart'
  <2>1. disturbed \subseteq disturbed'
    BY DEF Silent, Lasts
  <2> QED
    BY <1>1, <2>1 DEF AppliedInv, JobsApart
<1> QED
  BY <1>3, <1>4, <1>5, <1>6, <1>7 DEF AppliedInv

(***************************************************************************)
(* The clock, the faults, the commands, and the answers that change no     *)
(* file                                                                    *)
(***************************************************************************)
Plain ==
  /\ UNCHANGED <<file, tmp, sent, taken, late>> /\ disturbed \subseteq disturbed'
  /\ now' \in {now, now + 1} /\ calls' \in {calls, calls + 1}
  /\ \A x \in replies' : x \in replies \/ x.outcome # "done"
  /\ \A n \in acked' : Reported(n)
  /\ \A m \in requests' : m \in requests \/ m.kind \notin {"register", "revoke"}
  /\ \A p \in Procs : job'[p] = job[p] \/ job'[p].pc = "idle"

LEMMA PlainApplied ==
  ASSUME ServicesAssumption, ServicesInv, AppliedInv, Plain PROVE AppliedInv'
<1>1. \A n : Reported(n)' => Reported(n)
  BY DEF Plain, Reported
<1>2. Known
  BY TypesOfInv DEF Known, Grows, Plain
<1>3. Silent
  BY <1>1, <1>2 DEF Silent, Lasts, AppliedInv, Plain
<1>4. HistoryOK'
  <2>1. /\ \A m \in sent' : m.kind = "register" => m.ttl \in Nat
        /\ \A n \in Calls : taken'[n] # 0 => \E m \in sent' : m.call = n
        /\ \A m \in requests' : m.kind \in {"register", "revoke"} => taken'[m.call] = 0
    BY DEF AppliedInv, HistoryOK, Plain
  <2>2. /\ \A n : Reported(n)' => \E m \in sent' : m.call = n
        /\ \A m \in sent' : m.kind = "register" /\ Reported(m.call)' => taken'[m.call] # 0
    BY <1>1 DEF AppliedInv, HistoryOK, Plain
  <2> QED
    BY <2>1, <2>2 DEF HistoryOK
<1> QED
  BY <1>3, <1>4, QuietApplied DEF Plain

LEMMA FaultsPlain ==
  ASSUME ServicesAssumption, ServicesInv,
         \/ Tick \/ Lose \/ UNCHANGED vars
         \/ \E p \in Procs : HandlerFails(p) \/ RenameFails(p)
  PROVE  Plain
<1> USE DEF disk, device, wire, history
<1>1. DOMAIN job = Procs
  BY DEF ServicesInv, JobsOK
<1>2. CASE Tick
  BY <1>2 DEF Tick, Plain, Reported
<1>3. CASE Lose
  BY <1>3 DEF Lose, Plain, Reported
<1>4. ASSUME NEW p \in Procs, HandlerFails(p) \/ RenameFails(p) PROVE Plain
  <2>1. \A q \in Procs : job'[q] = job[q] \/ job'[q].pc = "idle"
    BY <1>1, <1>4 DEF HandlerFails, RenameFails, NoJob
  <2> QED
    BY <1>4, <2>1 DEF HandlerFails, RenameFails, Plain, Reported
<1>5. CASE UNCHANGED vars
  BY <1>5 DEF vars, Plain, Reported
<1> QED
  BY <1>2, <1>3, <1>4, <1>5

LEMMA AnswersPlain ==
  ASSUME NEW p \in Procs, NEW m, TakeList(p, m) \/ TakeProbe(p, m) \/ RefuseRevoke(p, m)
  PROVE  Plain
<1> USE DEF disk, device, wire, history
<1>1. \A outcome, records : Answer(p, m, outcome, records) /\ outcome # "done" => Plain
  BY DEF Answer, Reply, Plain, Reported
<1>2. CASE TakeList(p, m)
  BY <1>1, <1>2 DEF TakeList
<1>3. CASE TakeProbe(p, m)
  <2>1. PICK outcome : outcome \in {"gone", "alive"} /\ Answer(p, m, outcome, {})
    BY <1>3 DEF TakeProbe
  <2> QED
    BY <1>1, <2>1
<1>4. CASE RefuseRevoke(p, m)
  BY <1>1, <1>4 DEF RefuseRevoke
<1> QED
  BY <1>2, <1>3, <1>4

LEMMA ScanPlain ==
  ASSUME NEW c \in Clients, NEW active, Scan(c, active) PROVE Plain
<1> USE DEF disk, device, wire, history
<1>1. PICK m : m = Frame(calls + 1, Owner[c], "list", NoDevice, 0, 0)
  OBVIOUS
<1>2. m.kind = "list" /\ requests' = requests \cup {m}
  BY <1>1 DEF Scan, Frame
<1>3. job' = job /\ calls' = calls + 1
  BY DEF Scan, Begin
<1> QED
  BY <1>2, <1>3 DEF Scan, Plain, Reported

LEMMA CommandsPlain ==
  ASSUME NEW c \in Clients,
         \/ \E active \in BOOLEAN : Scan(c, active)
         \/ \E r \in cmd[c].hits : Probe(c, r)
         \/ Show(c) \/ Interrupt(c)
         \/ \E x \in Targets : Revoke(c, x)
         \/ WriteEpoch(c) \/ RenameEpoch(c) \/ EpochFails(c)
         \/ \E m \in replies : Deliver(c, m)
  PROVE  Plain
<1> USE DEF disk, device, wire, history
<1>1. ASSUME NEW active \in BOOLEAN, Scan(c, active) PROVE Plain
  BY <1>1, ScanPlain
<1>2. ASSUME NEW r \in cmd[c].hits, Probe(c, r) PROVE Plain
  BY <1>2 DEF Probe, Frame, Plain, Reported
<1>3. CASE Show(c) \/ Interrupt(c)
  BY <1>3 DEF Show, Interrupt, Plain, Reported
<1>4. ASSUME NEW x \in Targets, Revoke(c, x) PROVE Plain
  BY <1>4 DEF Revoke, Begin, Plain, Reported
<1>5. CASE WriteEpoch(c) \/ RenameEpoch(c) \/ EpochFails(c)
  BY <1>5 DEF WriteEpoch, RenameEpoch, EpochFails, Plain, Reported
<1>6. ASSUME NEW m \in replies, Deliver(c, m) PROVE Plain
  <2>1. \A n \in acked' : Reported(n)
    BY <1>6 DEF Deliver, Reported
  <2> QED
    BY <1>6, <2>1 DEF Deliver, Plain
<1> QED
  BY <1>1, <1>2, <1>3, <1>4, <1>5, <1>6

(***************************************************************************)
(* A frame is sent                                                         *)
(***************************************************************************)
LEMMA FrameApplied ==
  ASSUME ServicesAssumption, ServicesInv, AppliedInv,
         NEW m, ~Named(m.call), m.kind = "register" => m.ttl \in Nat,
         sent' = sent \cup {m}, requests' = requests \cup {m},
         UNCHANGED <<file, tmp, job, taken, late, disturbed, replies, acked, now>>,
         calls' \in {calls, calls + 1}, m.call \in Calls
  PROVE  AppliedInv'
<1>1. \A n : Reported(n)' <=> Reported(n)
  BY DEF Reported
<1>2. Known
  BY TypesOfInv DEF Known, Grows
<1>3. Silent
  BY <1>1, <1>2 DEF Silent, Lasts, AppliedInv
<1>4. HistoryOK'
  <2>1. taken[m.call] = 0 /\ ~Reported(m.call)
    BY DEF AppliedInv, HistoryOK, Named
  <2>2. /\ \A k \in sent' : k.kind = "register" => k.ttl \in Nat
        /\ \A n \in Calls : taken'[n] # 0 => \E k \in sent' : k.call = n
        /\ \A k \in requests' : k.kind \in {"register", "revoke"} => taken'[k.call] = 0
    BY <2>1 DEF AppliedInv, HistoryOK
  <2>3. /\ \A n : Reported(n)' => \E k \in sent' : k.call = n
        /\ \A k \in sent' : k.kind = "register" /\ Reported(k.call)' => taken'[k.call] # 0
    BY <1>1, <2>1 DEF AppliedInv, HistoryOK
  <2> QED
    BY <2>2, <2>3 DEF HistoryOK
<1> QED
  BY <1>3, <1>4, QuietApplied

LEMMA RegisterApplied ==
  ASSUME ServicesAssumption, ServicesInv, AppliedInv, NEW c \in Clients,
         NEW ttl \in Ttls, Register(c, ttl)
  PROVE  AppliedInv'
<1> USE DEF disk, device, wire, history
<1>1. PICK m : m = Frame(calls + 1, Owner[c], "register", NoDevice, ttl, 0)
  OBVIOUS
<1>2. m.call = calls + 1 /\ m.ttl \in Nat
  BY <1>1 DEF Frame, ServicesAssumption
<1>3. calls < MaxCalls /\ calls' = calls + 1
  <2>1. PICK k : Begin(c, k)
    BY DEF Register
  <2> QED
    BY <2>1 DEF Begin
<1>4. ~Named(m.call) /\ m.call \in Calls
  BY <1>2, <1>3, CallsBefore, TypesOfInv DEF Named, Calls
<1>5. sent' = sent \cup {m} /\ requests' = requests \cup {m}
  BY <1>1 DEF Register
<1>6. UNCHANGED <<file, tmp, job, taken, late, disturbed, replies, acked, now>>
  BY DEF Register
<1> QED
  BY <1>2, <1>3, <1>4, <1>5, <1>6, FrameApplied

LEMMA BroadcastApplied ==
  ASSUME ServicesAssumption, ServicesInv, NumbersInv, AppliedInv, NEW c \in Clients,
         Broadcast(c)
  PROVE  AppliedInv'
<1> USE DEF disk, device, wire, history
<1>1. PICK m : m = Frame(cmd[c].call, Owner[c], "revoke", cmd[c].target, 0, cmd[c].epoch)
  OBVIOUS
<1>2. m.call = cmd[c].call /\ m.kind = "revoke"
  BY <1>1 DEF Frame
<1>3. cmd[c].call \in 1 .. calls /\ \A k \in sent : k.call # cmd[c].call
  BY DEF Broadcast, ServicesInv, CommandsOK, CommandOK, NumbersInv, CallsOnce, Held
<1>4. ~Named(m.call) /\ m.call \in Calls
  BY <1>2, <1>3, TypesOfInv DEF Named, Calls
<1>5. sent' = sent \cup {m} /\ requests' = requests \cup {m}
  BY <1>1 DEF Broadcast
<1>6. UNCHANGED <<file, tmp, job, taken, late, disturbed, replies, acked, now, calls>>
  BY DEF Broadcast
<1> QED
  BY <1>2, <1>4, <1>5, <1>6, FrameApplied

(***************************************************************************)
(* A process reads a file                                                  *)
(***************************************************************************)
LEMMA LoadApplied ==
  ASSUME ServicesAssumption, ServicesInv, AppliedInv, Silent, HistoryOK',
         UNCHANGED <<file, tmp>>,
         NEW p \in Procs, ~Busy(p), NEW j, job' = [job EXCEPT ![p] = j],
         j.pc = "loaded", Keeps(j.file, j.call, j.content)',
         \E m \in sent' : /\ m.call = j.call /\ FileOf(m) = j.file
                          /\ m.kind = "register" => taken'[m.call] # 0,
         \A q \in Procs : Busy(q) /\ job[q].file = j.file =>
           {<<job[q].call, j.file>>, <<j.call, j.file>>} \subseteq disturbed'
  PROVE  AppliedInv'
<1>1. \A q \in Procs : job'[q] = IF q = p THEN j ELSE job[q]
  BY DEF ServicesInv, JobsOK
<1>2. \A q \in Procs : q # p /\ Busy(q)' => Busy(q)
  BY <1>1 DEF Busy
<1>3. /\ \A f \in Files : \A content : content = file[f] => Keeps(f, 0, content)'
      /\ \A q \in Procs : Busy(q) => \A f, n, content :
           /\ f = job[q].file /\ n = job[q].call
           /\ \/ content = job[q].content
              \/ job[q].pc = "written" /\ content \in tmp[f]
           => Keeps(f, n, content)'
  BY PartsLast
<1>4. FilesKeep'
  <2>1. \A f \in Files : \A content : content = file'[f] => Keeps(f, 0, content)'
    BY <1>3
  <2> QED
    BY <2>1 DEF FilesKeep
<1>5. JobsKeep'
  <2>1. ASSUME NEW q \in Procs, Busy(q)', NEW f, NEW n, NEW content,
               f = job'[q].file, n = job'[q].call, content = job'[q].content
        PROVE  Keeps(f, n, content)'
    <3>1. CASE q = p
      BY <1>1, <2>1, <3>1
    <3>2. CASE q # p
      BY <1>1, <1>2, <1>3, <2>1, <3>2
    <3> QED
      BY <3>1, <3>2
  <2> QED
    BY <2>1 DEF JobsKeep
<1>6. CopiesKeep'
  <2>1. ASSUME NEW q \in Procs, job'[q].pc = "written", NEW f, NEW n, NEW content,
               f = job'[q].file, n = job'[q].call, content \in tmp'[f]
        PROVE  Keeps(f, n, content)'
    <3>1. q # p /\ job'[q] = job[q] /\ Busy(q)
      BY <1>1, <2>1 DEF Busy
    <3> QED
      BY <1>3, <2>1, <3>1
  <2> QED
    BY <2>1 DEF CopiesKeep
<1>7. JobsSent'
  <2>1. /\ sent \subseteq sent'
        /\ \A m \in sent : taken[m.call] # 0 => taken'[m.call] # 0
    BY CallsKnown DEF Silent, Lasts, Known, Grows
  <2>2. ASSUME NEW q \in Procs, Busy(q)'
        PROVE  \E m \in sent' : /\ m.call = job'[q].call /\ FileOf(m) = job'[q].file
                                /\ m.kind = "register" => taken'[m.call] # 0
    <3>1. CASE q = p
      BY <1>1, <3>1
    <3>2. CASE q # p
      BY <1>1, <1>2, <2>1, <2>2, <3>2 DEF AppliedInv, JobsSent
    <3> QED
      BY <3>1, <3>2
  <2> QED
    BY <2>2 DEF JobsSent
<1>8. JobsApart'
  <2>1. disturbed \subseteq disturbed'
    BY DEF Silent, Lasts
  <2>2. ASSUME NEW q \in Procs, NEW r \in Procs, q # r, Busy(q)', Busy(r)',
               job'[q].file = job'[r].file
        PROVE  <<job'[q].call, job'[q].file>> \in disturbed'
    <3>1. CASE q = p
      BY <1>1, <1>2, <2>2, <3>1
    <3>2. CASE r = p
      BY <1>1, <1>2, <2>2, <3>2
    <3>3. CASE q # p /\ r # p
      BY <1>1, <1>2, <2>1, <2>2, <3>3 DEF AppliedInv, JobsApart
    <3> QED
      BY <3>1, <3>2, <3>3
  <2> QED
    BY <2>2 DEF JobsApart
<1> QED
  BY <1>4, <1>5, <1>6, <1>7, <1>8 DEF AppliedInv

\* The list of the operators or of the revoked, with one more device.
LEMMA ListKeeps ==
  ASSUME ServicesInv, AppliedInv, Silent,
         NEW f \in {"operators", "revocations"}, NEW n, NEW x, NEW content,
         content = file[f] \cup {x},
         \A m \in sent' : m.call = n => m.target = x
  PROVE  Keeps(f, n, content)'
<1>1. \A m : FileOf(m) = f => m.kind # "register"
  BY DEF FileOf
<1>2. ASSUME NEW m \in sent', Owed(f, n, m)' PROVE m.target \in content
  <2>1. CASE m.call = n
    BY <2>1
  <2>2. CASE m.call # n
    <3>1. Reported(m.call) /\ Apart(m) /\ FileOf(m) = f
      BY <1>2, <2>2 DEF Owed, Apart, Silent, Lasts
    <3>2. m \in sent
      BY <3>1 DEF Silent, HistoryOK, Named
    <3>3. Keeps(f, 0, file[f])
      BY DEF AppliedInv, FilesKeep, Files
    <3>4. Holds(m, file[f])
      BY <3>1, <3>2, <3>3 DEF Keeps, Owed
    <3> QED
      BY <1>1, <3>1, <3>4 DEF Holds
  <2> QED
    BY <2>1, <2>2
<1>3. \A m \in sent' : Owed(f, n, m)' => Holds(m, content)'
  BY <1>1, <1>2 DEF Holds, Owed
<1> QED
  BY <1>3 DEF Keeps

LEMMA TakeHistory ==
  ASSUME ServicesAssumption, ServicesInv, NumbersInv, AppliedInv,
         NEW m \in requests, m.kind \in {"register", "revoke"},
         taken' = [taken EXCEPT ![m.call] = now + 1], requests' = requests \ {m},
         UNCHANGED <<now, sent, calls, acked, replies>>,
         late \subseteq late', disturbed \subseteq disturbed'
  PROVE  /\ Silent /\ HistoryOK' /\ m \in sent /\ m.call \in Calls
         /\ taken[m.call] = 0 /\ taken'[m.call] = now + 1
<1>1. \A k \in requests : k.kind \in {"register", "revoke"} => k \in sent
  BY DEF ServicesInv, FramesOK, RequestOK
<1>2. m \in sent /\ m.call \in Calls /\ taken[m.call] = 0
  BY <1>1, CallsKnown DEF AppliedInv, HistoryOK
<1>3. \A n : taken'[n] = IF n = m.call THEN now + 1 ELSE taken[n]
  BY <1>2, TypesOfInv
<1>4. Known
  <2>1. taken \in [Calls -> Nat] /\ now \in Nat /\ calls \in Nat
    BY TypesOfInv
  <2>2. taken' \in [Calls -> Nat] /\ \A n \in Calls : taken[n] <= taken'[n]
    BY <1>2, <1>3, <2>1
  <2> QED
    BY <2>1, <2>2 DEF Known, Grows
<1>5. \A n : Reported(n)' <=> Reported(n)
  BY DEF Reported
<1>6. Silent
  BY <1>2, <1>3, <1>4, <1>5 DEF Silent, Lasts, AppliedInv
<1>7. HistoryOK'
  <2>1. \A k \in sent : taken[k.call] # 0 => taken'[k.call] # 0
    BY <1>2, <1>3
  <2>2. ASSUME NEW k \in requests', k.kind \in {"register", "revoke"}
        PROVE  taken'[k.call] = 0
    <3>1. k \in sent /\ k # m /\ taken[k.call] = 0
      BY <1>1, <2>2 DEF AppliedInv, HistoryOK
    <3>2. k.call # m.call
      BY <1>2, <3>1 DEF NumbersInv, CallsOnce
    <3> QED
      BY <1>3, <3>1, <3>2
  <2>3. /\ \A k \in sent' : k.kind = "register" => k.ttl \in Nat
        /\ \A n \in Calls : taken'[n] # 0 => \E k \in sent' : k.call = n
    BY <1>2, <1>3 DEF AppliedInv, HistoryOK
  <2>4. /\ \A n : Reported(n)' => \E k \in sent' : k.call = n
        /\ \A k \in sent' : k.kind = "register" /\ Reported(k.call)' => taken'[k.call] # 0
    BY <1>5, <2>1 DEF AppliedInv, HistoryOK
  <2> QED
    BY <2>2, <2>3, <2>4 DEF HistoryOK
<1>8. taken'[m.call] = now + 1
  BY <1>3
<1> QED
  BY <1>2, <1>6, <1>7, <1>8

\* A registration replaces what its device announced before; what prune drops
\* has had its time.
LEMMA RegisteredKeeps ==
  ASSUME ServicesAssumption, ServicesInv, NumbersInv, AppliedInv, Silent,
         NEW m \in sent, m.kind = "register", m.call \in Calls,
         taken'[m.call] = now + 1, sent' = sent, now' = now,
         late' = late \cup {k.call : k \in {j \in sent :
           j.kind = "register" /\ j.from = m.from /\ j.call > m.call
           /\ taken[j.call] # 0}},
         NEW content, content = Live(Registered(m))
  PROVE  Keeps("rendezvous", m.call, content)'
<1>1. /\ \A r : Exact(r) => Exact(r)'
      /\ \A k, c : Holds(k, c) => Holds(k, c)'
  BY HoldsLasts DEF Silent
<1>2. now \in Nat /\ Ttl(m.ttl) \in Nat /\ Ttl(m.ttl) > 0
  BY TtlBounded, TypesOfInv DEF AppliedInv, HistoryOK, ServicesAssumption
<1>3. PICK new : new = Record(m.from, m.call, now + Ttl(m.ttl))
  OBVIOUS
<1>4. /\ new.device = m.from /\ new.call = m.call
      /\ new.expires_at = now + Ttl(m.ttl) /\ new.expires_at > now
  BY <1>2, <1>3 DEF Record
<1>5. /\ new \in content
      /\ \A r \in content : r = new \/ r \in file["rendezvous"]
      /\ \A r \in file["rendezvous"] :
           r.device # m.from /\ r.expires_at > now => r \in content
  BY <1>3, <1>4 DEF Live, Registered
<1>6. PICK old : old = file["rendezvous"]
  OBVIOUS
<1>7. Keeps("rendezvous", 0, old)
  BY <1>6 DEF AppliedInv, FilesKeep, Files
<1>8. ASSUME NEW r \in content PROVE Exact(r)'
  <2>1. CASE r = new
    BY <1>2, <1>4, <2>1 DEF Exact
  <2>2. CASE r \in old
    BY <1>1, <1>7, <2>2 DEF Keeps
  <2> QED
    BY <1>5, <1>6, <2>1, <2>2
<1>9. ASSUME NEW k \in sent, Owed("rendezvous", m.call, k)' PROVE Holds(k, content)'
  <2>1. FileOf(k) = "rendezvous" /\ k.kind = "register"
    BY <1>9 DEF Owed, FileOf
  <2>2. k.call \in Nat /\ m.call \in Nat
    BY CallsKnown DEF Calls
  <2>3. CASE k.call = m.call
    <3>1. k = m
      BY <2>3 DEF NumbersInv, CallsOnce
    <3> QED
      BY <1>4, <1>5, <2>1, <2>2, <3>1 DEF Holds
  <2>4. CASE k.call # m.call
    <3>1. Reported(k.call) /\ Apart(k)
      BY <1>9, <2>4 DEF Owed, Apart, Silent, Lasts
    <3>2. Holds(k, old)
      BY <1>7, <2>1, <3>1 DEF Keeps, Owed
    <3>3. CASE Outlived(k) \/ k.call \in late
      <4>1. Holds(k, content)
        BY <2>1, <3>3 DEF Holds
      <4> QED
        BY <1>1, <4>1
    <3>4. ASSUME NEW r \in old, r.device = k.from, r.call >= k.call
          PROVE  Holds(k, content)'
      <4>1. CASE r.device # m.from /\ r.expires_at > now
        BY <1>5, <1>6, <2>1, <3>4, <4>1 DEF Holds
      <4>2. CASE ~(r.expires_at > now)
        <5>1. PICK j \in sent :
                /\ j.kind = "register" /\ j.call = r.call /\ j.from = r.device
                /\ taken[j.call] # 0 /\ r.expires_at = taken[j.call] - 1 + Ttl(j.ttl)
          BY <1>7, <3>4 DEF Keeps, Exact
        <5>2. r.expires_at <= now
          <6>1. r.expires_at \in Nat
            BY <1>6, <3>4, TypesOfInv
            DEF ServicesInv, FilesOK, Fits, Files, Announced, Records
          <6> QED
            BY <1>2, <4>2, <6>1
        <5>3. Holds(k, content)
          BY <2>1, <3>4, <5>1, <5>2 DEF Holds, Outlived
        <5> QED
          BY <1>1, <5>3
      <4>3. CASE r.device = m.from /\ m.call >= k.call
        BY <1>4, <1>5, <2>1, <3>4, <4>3 DEF Holds
      <4>4. CASE r.device = m.from /\ ~(m.call >= k.call)
        <5>1. taken[k.call] # 0 /\ k.call > m.call /\ k.from = m.from
          BY <2>1, <2>2, <3>1, <3>4, <4>4 DEF AppliedInv, HistoryOK
        <5>2. k.call \in late'
          BY <2>1, <5>1
        <5> QED
          BY <2>1, <5>2 DEF Holds
      <4> QED
        BY <4>1, <4>2, <4>3, <4>4
    <3> QED
      BY <2>1, <3>2, <3>3, <3>4 DEF Holds
  <2> QED
    BY <2>3, <2>4
<1> QED
  BY <1>8, <1>9 DEF Keeps

LEMMA LoadDisturbs ==
  ASSUME NEW p \in Procs, NEW f, NEW n, NEW d, NEW content, Load(p, f, n, d, content)
  PROVE  /\ ~Busy(p) /\ disturbed \subseteq disturbed'
         /\ \E j : /\ job' = [job EXCEPT ![p] = j] /\ j.pc = "loaded" /\ j.file = f
                   /\ j.call = n /\ j.content = content
         /\ \A q \in Procs : Busy(q) /\ job[q].file = f =>
              {<<job[q].call, f>>, <<n, f>>} \subseteq disturbed'
<1>1. PICK others : others = {q \in Procs : job[q].pc # "idle" /\ job[q].file = f}
  OBVIOUS
<1>2. disturbed' = disturbed \cup
        {<<k, f>> : k \in {job[q].call : q \in others}
                            \cup {i \in {n} : others # {}}}
  BY <1>1 DEF Load
<1>3. ASSUME NEW q \in Procs, Busy(q), job[q].file = f
      PROVE  <<job[q].call, f>> \in disturbed' /\ <<n, f>> \in disturbed'
  <2>1. q \in others
    BY <1>1, <1>3 DEF Busy
  <2> QED
    BY <1>2, <2>1
<1>4. PICK j : j = [pc |-> "loaded", file |-> f, call |-> n, from |-> d,
                    content |-> content]
  OBVIOUS
<1>5. job' = [job EXCEPT ![p] = j] /\ ~Busy(p)
  BY <1>4 DEF Load, Busy
<1>6. j.pc = "loaded" /\ j.file = f /\ j.call = n /\ j.content = content
  BY <1>4
<1> QED
  BY <1>2, <1>3, <1>5, <1>6

LEMMA TakeRegisterApplied ==
  ASSUME ServicesAssumption, ServicesInv, NumbersInv, AppliedInv,
         NEW p \in Procs, NEW m, TakeRegister(p, m)
  PROVE  AppliedInv'
<1> USE DEF disk, device, wire, history
<1>1. PICK content : content = Live(Registered(m))
  OBVIOUS
<1>2. /\ m \in requests /\ m.kind = "register" /\ requests' = requests \ {m}
      /\ Load(p, "rendezvous", m.call, m.from, content)
      /\ taken' = [taken EXCEPT ![m.call] = now + 1]
      /\ late' = late \cup {k.call : k \in {j \in sent :
           j.kind = "register" /\ j.from = m.from /\ j.call > m.call
           /\ taken[j.call] # 0}}
      /\ UNCHANGED <<now, file, tmp, calls, replies, sent, acked>>
  BY <1>1 DEF TakeRegister
<1>3. /\ ~Busy(p) /\ disturbed \subseteq disturbed'
      /\ \E j : /\ job' = [job EXCEPT ![p] = j] /\ j.pc = "loaded"
                /\ j.file = "rendezvous" /\ j.call = m.call /\ j.content = content
      /\ \A q \in Procs : Busy(q) /\ job[q].file = "rendezvous" =>
           {<<job[q].call, "rendezvous">>, <<m.call, "rendezvous">>} \subseteq disturbed'
  BY <1>2, LoadDisturbs
<1>4. /\ Silent /\ HistoryOK' /\ m \in sent /\ m.call \in Calls
      /\ taken[m.call] = 0 /\ taken'[m.call] = now + 1
  <2>1. late \subseteq late'
    BY <1>2
  <2> QED
    BY <1>2, <1>3, <2>1, TakeHistory
<1>5. Keeps("rendezvous", m.call, content)'
  BY <1>1, <1>2, <1>4, RegisteredKeeps
<1>6. PICK j : /\ job' = [job EXCEPT ![p] = j] /\ j.pc = "loaded"
               /\ j.file = "rendezvous" /\ j.call = m.call /\ j.content = content
  BY <1>3
<1>7. m \in sent' /\ FileOf(m) = "rendezvous" /\ taken'[m.call] # 0
  BY <1>2, <1>4, TypesOfInv DEF FileOf
<1>8. Keeps(j.file, j.call, j.content)'
  BY <1>5, <1>6
<1>9. \E k \in sent' : /\ k.call = j.call /\ FileOf(k) = j.file
                       /\ k.kind = "register" => taken'[k.call] # 0
  BY <1>6, <1>7
<1>10. /\ \A q \in Procs : Busy(q) /\ job[q].file = j.file =>
             {<<job[q].call, j.file>>, <<j.call, j.file>>} \subseteq disturbed'
       /\ UNCHANGED <<file, tmp>>
  BY <1>2, <1>3, <1>6
<1> QED
  BY <1>3, <1>4, <1>6, <1>8, <1>9, <1>10, LoadApplied

LEMMA TakeRevokeApplied ==
  ASSUME ServicesAssumption, ServicesInv, NumbersInv, AppliedInv,
         NEW p \in Procs, NEW m, TakeRevoke(p, m)
  PROVE  AppliedInv'
<1> USE DEF disk, device, wire, history
<1>1. PICK content : content = file["revocations"] \cup {m.target}
  OBVIOUS
<1>2. /\ m \in requests /\ m.kind = "revoke" /\ requests' = requests \ {m}
      /\ Load(p, "revocations", m.call, m.from, content)
      /\ taken' = [taken EXCEPT ![m.call] = now + 1]
      /\ UNCHANGED <<now, file, tmp, calls, replies, sent, acked, late>>
  BY <1>1 DEF TakeRevoke
<1>3. /\ ~Busy(p) /\ disturbed \subseteq disturbed'
      /\ \E j : /\ job' = [job EXCEPT ![p] = j] /\ j.pc = "loaded"
                /\ j.file = "revocations" /\ j.call = m.call /\ j.content = content
      /\ \A q \in Procs : Busy(q) /\ job[q].file = "revocations" =>
           {<<job[q].call, "revocations">>, <<m.call, "revocations">>}
             \subseteq disturbed'
  BY <1>2, LoadDisturbs
<1>4. /\ Silent /\ HistoryOK' /\ m \in sent
      /\ \A k \in sent' : k.call = m.call => k = m
  BY <1>2, <1>3, TakeHistory DEF NumbersInv, CallsOnce
<1>5. Keeps("revocations", m.call, content)'
  <2>1. PICK x : x = m.target
    OBVIOUS
  <2> QED
    BY <1>1, <1>4, <2>1, ListKeeps
<1>6. PICK j : /\ job' = [job EXCEPT ![p] = j] /\ j.pc = "loaded"
               /\ j.file = "revocations" /\ j.call = m.call /\ j.content = content
  BY <1>3
<1>7. m \in sent' /\ FileOf(m) = "revocations" /\ m.kind # "register"
  BY <1>2, <1>4 DEF FileOf
<1>8. Keeps(j.file, j.call, j.content)'
  BY <1>5, <1>6
<1>9. \E k \in sent' : /\ k.call = j.call /\ FileOf(k) = j.file
                       /\ k.kind = "register" => taken'[k.call] # 0
  BY <1>6, <1>7
<1>10. /\ \A q \in Procs : Busy(q) /\ job[q].file = j.file =>
             {<<job[q].call, j.file>>, <<j.call, j.file>>} \subseteq disturbed'
       /\ UNCHANGED <<file, tmp>>
  BY <1>2, <1>3, <1>6
<1> QED
  BY <1>3, <1>4, <1>6, <1>8, <1>9, <1>10, LoadApplied

LEMMA AddOperatorApplied ==
  ASSUME ServicesAssumption, ServicesInv, AppliedInv,
         NEW p \in Procs, NEW d, AddOperator(p, d)
  PROVE  AppliedInv'
<1> USE DEF disk, device, wire, history
<1>1. PICK content : content = file["operators"] \cup {d}
  OBVIOUS
<1>2. PICK o : o = Frame(calls + 1, NoDevice, "operator", d, 0, 0)
  OBVIOUS
<1>3. o.call = calls + 1 /\ o.kind = "operator" /\ o.target = d
  BY <1>2 DEF Frame
<1>4. /\ calls' = calls + 1 /\ calls < MaxCalls /\ sent' = sent \cup {o}
      /\ Load(p, "operators", calls + 1, NoDevice, content)
      /\ UNCHANGED <<now, file, tmp, requests, replies, taken, acked, late>>
  BY <1>1, <1>2 DEF AddOperator
<1>5. /\ ~Busy(p) /\ disturbed \subseteq disturbed'
      /\ \E j : /\ job' = [job EXCEPT ![p] = j] /\ j.pc = "loaded"
                /\ j.file = "operators" /\ j.call = calls + 1 /\ j.content = content
      /\ \A q \in Procs : Busy(q) /\ job[q].file = "operators" =>
           {<<job[q].call, "operators">>, <<calls + 1, "operators">>}
             \subseteq disturbed'
  BY <1>4, LoadDisturbs
<1>6. \A k \in sent : k.call # calls + 1
  BY CallsBefore
<1>7. ~Named(o.call) /\ o.call \in Calls
  BY <1>3, <1>4, <1>6, TypesOfInv DEF Named, Calls
<1>8. \A n : Reported(n)' <=> Reported(n)
  BY <1>4 DEF Reported
<1>9. Silent
  <2>1. Known
    BY <1>4, TypesOfInv DEF Known, Grows
  <2> QED
    BY <1>4, <1>5, <1>7, <1>8, <2>1 DEF Silent, Lasts, AppliedInv
<1>10. HistoryOK'
  BY <1>3, <1>4, <1>8 DEF AppliedInv, HistoryOK
<1>11. Keeps("operators", o.call, content)'
  <2>1. \A m \in sent' : m.call = o.call => m.target = d
    BY <1>3, <1>4, <1>6
  <2> QED
    BY <1>1, <1>9, <2>1, ListKeeps
<1>12. PICK j : /\ job' = [job EXCEPT ![p] = j] /\ j.pc = "loaded"
                /\ j.file = "operators" /\ j.call = calls + 1 /\ j.content = content
  BY <1>5
<1>13. Keeps(j.file, j.call, j.content)'
  BY <1>3, <1>11, <1>12
<1>14. \E k \in sent' : /\ k.call = j.call /\ FileOf(k) = j.file
                        /\ k.kind = "register" => taken'[k.call] # 0
  BY <1>3, <1>4, <1>12 DEF FileOf
<1>15. /\ \A q \in Procs : Busy(q) /\ job[q].file = j.file =>
             {<<job[q].call, j.file>>, <<j.call, j.file>>} \subseteq disturbed'
       /\ UNCHANGED <<file, tmp>>
  BY <1>4, <1>5, <1>12
<1> QED
  BY <1>5, <1>9, <1>10, <1>12, <1>13, <1>14, <1>15, LoadApplied

(***************************************************************************)
(* A process writes its copy, and renames whatever copy is there           *)
(***************************************************************************)
\* Nothing is owed to a call that was rewritten during another rewrite.
LEMMA DisturbedKeeps ==
  ASSUME NEW f, NEW n, NEW k, NEW content,
         Keeps(f, n, content), <<k, f>> \in disturbed
  PROVE  Keeps(f, k, content)
<1>1. \A m : Owed(f, k, m) => Owed(f, n, m)
  BY DEF Owed, Apart
<1> QED
  BY <1>1 DEF Keeps

LEMMA SameFacts ==
  ASSUME UNCHANGED <<now, sent, taken, late>>
  PROVE  /\ \A r : Exact(r)' <=> Exact(r)
         /\ \A m, content : Holds(m, content)' <=> Holds(m, content)
  BY DEF Exact, Holds, Outlived

LEMMA WriteApplied ==
  ASSUME ServicesAssumption, ServicesInv, AppliedInv, NEW p \in Procs, Write(p)
  PROVE  AppliedInv'
<1> USE DEF disk, device, wire, history
<1>1. /\ UNCHANGED <<now, file, calls, requests, replies, sent, taken, acked,
                     disturbed, late>>
      /\ job[p].pc = "loaded" /\ tmp' = [tmp EXCEPT ![job[p].file] = {job[p].content}]
      /\ job' = [job EXCEPT ![p].pc = "written"]
  BY DEF Write
<1>2. /\ DOMAIN tmp = Files /\ DOMAIN job = Procs /\ job[p].file \in Files
      /\ DOMAIN job[p] = {"pc", "file", "call", "from", "content"}
  BY DEF ServicesInv, FilesOK, JobsOK, JobOK
<1>3. \A q \in Procs : /\ job'[q].file = job[q].file /\ job'[q].call = job[q].call
                       /\ job'[q].content = job[q].content
                       /\ q # p => job'[q] = job[q]
  BY <1>1, <1>2
<1>4. \A q \in Procs : Busy(q)' <=> Busy(q)
  BY <1>1, <1>2, <1>3 DEF Busy
<1>5. Busy(p)
  BY <1>1 DEF Busy
<1>6. \A n : Reported(n)' <=> Reported(n)
  BY <1>1 DEF Reported
<1>7. \A f, n, content : Keeps(f, n, content) => Keeps(f, n, content)'
  <2>1. /\ \A r : Exact(r)' <=> Exact(r)
        /\ \A m, content : Holds(m, content)' <=> Holds(m, content)
    BY <1>1, SameFacts
  <2>2. \A f, n, m : Owed(f, n, m)' <=> Owed(f, n, m)
    BY <1>1, <1>6 DEF Owed, Apart
  <2> QED
    BY <1>1, <2>1, <2>2 DEF Keeps
<1>8. HistoryOK'
  BY <1>1, <1>6 DEF AppliedInv, HistoryOK
<1>9. JobsSent'
  BY <1>1, <1>3, <1>4 DEF AppliedInv, JobsSent
<1>10. FilesKeep'
  <2>1. \A f \in Files : \A content : content = file'[f] => Keeps(f, 0, content)'
    BY <1>1, <1>7 DEF AppliedInv, FilesKeep
  <2> QED
    BY <2>1 DEF FilesKeep
<1>11. JobsKeep'
  <2>1. \A q \in Procs : Busy(q)' => \A f, n, content :
          f = job'[q].file /\ n = job'[q].call /\ content = job'[q].content
            => Keeps(f, n, content)'
    BY <1>3, <1>4, <1>7 DEF AppliedInv, JobsKeep
  <2> QED
    BY <2>1 DEF JobsKeep
<1>12. CopiesKeep'
  <2>1. ASSUME NEW q \in Procs, job'[q].pc = "written", NEW f, NEW n, NEW content,
               f = job'[q].file, n = job'[q].call, content \in tmp'[f]
        PROVE  Keeps(f, n, content)
    <3>1. f = job[q].file /\ n = job[q].call /\ Busy(q)
      BY <1>3, <1>4, <2>1 DEF Busy
    <3>2. CASE f = job[p].file
      <4>1. content = job[p].content
        BY <1>1, <1>2, <2>1, <3>2
      <4>2. Keeps(f, job[p].call, content)
        BY <1>5, <3>2, <4>1 DEF AppliedInv, JobsKeep
      <4>3. q # p => <<n, f>> \in disturbed
        BY <1>5, <3>1, <3>2 DEF AppliedInv, JobsApart
      <4> QED
        BY <3>1, <4>2, <4>3, DisturbedKeeps
    <3>3. CASE f # job[p].file
      <4>1. job[q].pc = "written" /\ content \in tmp[f]
        BY <1>1, <1>2, <1>3, <2>1, <3>1, <3>3
      <4> QED
        BY <3>1, <4>1 DEF AppliedInv, CopiesKeep
    <3> QED
      BY <3>2, <3>3
  <2>2. \A q \in Procs : job'[q].pc = "written" => \A f, n, content :
          f = job'[q].file /\ n = job'[q].call /\ content \in tmp'[f]
            => Keeps(f, n, content)'
    BY <1>7, <2>1
  <2> QED
    BY <2>2 DEF CopiesKeep
<1>13. JobsApart'
  BY <1>1, <1>3, <1>4 DEF AppliedInv, JobsApart
<1> QED
  BY <1>8, <1>9, <1>10, <1>11, <1>12, <1>13 DEF AppliedInv

LEMMA RenameApplied ==
  ASSUME ServicesAssumption, ServicesInv, NumbersInv, AppliedInv, NEW p \in Procs,
         Rename(p)
  PROVE  AppliedInv'
<1> USE DEF disk, device, wire, history
<1>1. PICK f, n : f = job[p].file /\ n = job[p].call
  OBVIOUS
<1>2. /\ UNCHANGED <<now, calls, requests, sent, taken, disturbed, late>>
      /\ job[p].pc = "written" /\ tmp' = [tmp EXCEPT ![f] = {}]
      /\ job' = [job EXCEPT ![p] = NoJob]
  BY <1>1 DEF Rename
<1>3. PICK content \in tmp[f] : file' = [file EXCEPT ![f] = content]
  BY <1>1 DEF Rename
<1>4. /\ DOMAIN file = Files /\ DOMAIN tmp = Files /\ DOMAIN job = Procs /\ f \in Files
  BY <1>1 DEF ServicesInv, FilesOK, JobsOK, JobOK
<1>5. /\ Busy(p) /\ ~Busy(p)'
      /\ \A q \in Procs : Busy(q)' => q # p /\ Busy(q) /\ job'[q] = job[q]
  BY <1>2, <1>4 DEF Busy, NoJob
<1>6. PICK own \in sent : /\ own.call = n /\ FileOf(own) = f
                          /\ own.kind = "register" => taken[own.call] # 0
  BY <1>1, <1>5 DEF AppliedInv, JobsSent
<1>7. \A m \in sent : m.call = n => m = own
  BY <1>6 DEF NumbersInv, CallsOnce
<1>8. \A k : Reported(k)' => Reported(k) \/ k = n
  <2>1. CASE p \in Admins
    BY <1>1, <2>1 DEF Rename, Done, Reported
  <2>2. CASE p \notin Admins
    <3>1. acked' = acked /\ replies' = replies \cup
            {Reply(m, "done", {}) : m \in {o \in sent : o.call = n}}
      BY <1>1, <2>2 DEF Rename, Done
    <3>2. \A m : Reply(m, "done", {}).call = m.call
      BY DEF Reply
    <3>3. \A x \in replies' : x \in replies \/ x.call = n
      BY <3>1, <3>2
    <3> QED
      BY <3>1, <3>3 DEF Reported
  <2> QED
    BY <2>1, <2>2
<1>9. /\ \A r : Exact(r)' <=> Exact(r)
      /\ \A m, c : Holds(m, c)' <=> Holds(m, c)
  BY <1>2, SameFacts
<1>10. \A g, k, m : m \in sent /\ Owed(g, k, m)' => Owed(g, k, m) \/ (m.call = n /\ g = f)
  BY <1>2, <1>6, <1>7, <1>8 DEF Owed, Apart
<1>11. \A g, k, c : g # f \/ <<n, f>> \in disturbed =>
         (Keeps(g, k, c) => Keeps(g, k, c)')
  <2>1. \A m : FileOf(m) = f /\ m.call = n /\ Apart(m) => <<n, f>> \notin disturbed
    BY DEF Apart
  <2>2. \A g, k, m : m \in sent /\ Owed(g, k, m)' => Apart(m) /\ FileOf(m) = g
    BY <1>2 DEF Owed, Apart
  <2>3. \A g, k, m : (g # f \/ <<n, f>> \in disturbed) /\ m \in sent /\ Owed(g, k, m)'
          => Owed(g, k, m)
    BY <1>10, <2>1, <2>2
  <2> QED
    BY <1>2, <1>9, <2>3 DEF Keeps
<1>12. FilesKeep'
  <2>1. Keeps(f, 0, content)'
    <3>1. Keeps(f, n, content)
      BY <1>1, <1>2, <1>3 DEF AppliedInv, CopiesKeep
    <3>2. \A m \in sent : Owed(f, 0, m)' => Owed(f, n, m)
      BY <1>2, <1>8, CallsKnown DEF Owed, Apart, Calls
    <3> QED
      BY <1>2, <1>9, <3>1, <3>2 DEF Keeps
  <2>2. \A g \in Files : g # f => \A c : c = file[g] => Keeps(g, 0, c)'
    BY <1>11 DEF AppliedInv, FilesKeep
  <2>3. \A g \in Files : \A c : c = file'[g] => Keeps(g, 0, c)'
    BY <1>3, <1>4, <2>1, <2>2
  <2> QED
    BY <2>3 DEF FilesKeep
<1>13. \A q \in Procs : Busy(q)' /\ job[q].file = f => <<n, f>> \in disturbed
  BY <1>1, <1>5 DEF AppliedInv, JobsApart
<1>14. JobsKeep'
  <2>1. \A q \in Procs : Busy(q)' => \A g, k, c :
          g = job'[q].file /\ k = job'[q].call /\ c = job'[q].content
            => Keeps(g, k, c)'
    BY <1>5, <1>11, <1>13 DEF AppliedInv, JobsKeep
  <2> QED
    BY <2>1 DEF JobsKeep
<1>15. CopiesKeep'
  <2>1. ASSUME NEW q \in Procs, job'[q].pc = "written", NEW g, NEW k, NEW c,
               g = job'[q].file, k = job'[q].call, c \in tmp'[g]
        PROVE  Keeps(g, k, c)'
    <3>1. job'[q] = job[q] /\ job[q].file \in Files
      BY <1>5, <2>1 DEF Busy, ServicesInv, JobsOK, JobOK
    <3>2. g # f /\ c \in tmp[g]
      BY <1>2, <1>4, <2>1, <3>1
    <3>3. Keeps(g, k, c)
      BY <2>1, <3>1, <3>2 DEF AppliedInv, CopiesKeep
    <3> QED
      BY <1>11, <3>2, <3>3
  <2> QED
    BY <2>1 DEF CopiesKeep
<1>16. JobsSent' /\ JobsApart'
  BY <1>2, <1>5 DEF AppliedInv, JobsSent, JobsApart
<1>17. HistoryOK'
  <2>1. /\ \A m \in sent' : m.kind = "register" => m.ttl \in Nat
        /\ \A k \in Calls : taken'[k] # 0 => \E m \in sent' : m.call = k
        /\ \A m \in requests' : m.kind \in {"register", "revoke"} => taken'[m.call] = 0
    BY <1>2 DEF AppliedInv, HistoryOK
  <2>2. \A k : Reported(k)' => \E m \in sent' : m.call = k
    BY <1>2, <1>6, <1>8 DEF AppliedInv, HistoryOK
  <2>3. \A m \in sent' : m.kind = "register" /\ Reported(m.call)' => taken'[m.call] # 0
    BY <1>2, <1>6, <1>7, <1>8 DEF AppliedInv, HistoryOK
  <2> QED
    BY <2>1, <2>2, <2>3 DEF HistoryOK
<1> QED
  BY <1>12, <1>14, <1>15, <1>16, <1>17 DEF AppliedInv

(***************************************************************************)
(* The theorem                                                             *)
(***************************************************************************)
\* What a command or `operator add` was told is done is in the file of the
\* core, unless that file was rewritten twice at the same time or an older
\* registration of the device came later.
THEOREM AckedStaysApplied == ServicesSpec => []AckedIsApplied
<1>1. ServicesAssumption
  BY ServicesAssumption
<1>2. ServicesInit => AppliedInv
  BY AppliedInit
<1>3. ServicesInv /\ NumbersInv /\ AppliedInv /\ [Next]_vars => AppliedInv'
  <2> SUFFICES ASSUME ServicesInv, NumbersInv, AppliedInv, [Next]_vars
               PROVE  AppliedInv'
    OBVIOUS
  <2>1. CASE Tick \/ Lose \/ (\E p \in Procs : HandlerFails(p)) \/ UNCHANGED vars
    BY <1>1, <2>1, FaultsPlain, PlainApplied
  <2>2. ASSUME NEW p \in Procs, Write(p) \/ Rename(p) \/ RenameFails(p)
        PROVE  AppliedInv'
    BY <1>1, <2>2, WriteApplied, RenameApplied, FaultsPlain, PlainApplied
  <2>3. ASSUME NEW p \in Handlers, Handle(p) PROVE AppliedInv'
    <3>1. p \in Procs
      BY DEF Procs
    <3>2. ASSUME NEW m \in requests, TakeRegister(p, m) \/ TakeRevoke(p, m)
          PROVE  AppliedInv'
      BY <1>1, <3>1, <3>2, TakeRegisterApplied, TakeRevokeApplied
    <3>3. ASSUME NEW m \in requests,
                 TakeList(p, m) \/ TakeProbe(p, m) \/ RefuseRevoke(p, m)
          PROVE  AppliedInv'
      BY <1>1, <3>1, <3>3, AnswersPlain, PlainApplied
    <3> QED
      BY <2>2, <2>3, <3>1, <3>2, <3>3 DEF Handle
  <2>4. ASSUME NEW p \in Admins, NEW d \in Trusted, AddOperator(p, d)
        PROVE  AppliedInv'
    BY <1>1, <2>4, AddOperatorApplied DEF Procs
  <2>5. ASSUME NEW c \in Clients, Proceed(c) PROVE AppliedInv'
    <3>1. CASE Broadcast(c)
      BY <1>1, <3>1, BroadcastApplied
    <3>2. CASE ~Broadcast(c)
      <4>1. Plain
        BY <2>5, <3>2, CommandsPlain DEF Proceed
      <4> QED
        BY <1>1, <4>1, PlainApplied
    <3> QED
      BY <3>1, <3>2
  <2>6. ASSUME NEW c \in Clients, NEW ttl \in Ttls, Register(c, ttl)
        PROVE  AppliedInv'
    BY <1>1, <2>6, RegisterApplied
  <2>7. ASSUME NEW c \in Clients,
               \/ \E active \in BOOLEAN : Scan(c, active)
               \/ \E x \in Targets : Revoke(c, x)
               \/ Interrupt(c)
        PROVE  AppliedInv'
    <3>1. Plain
      BY <2>7, CommandsPlain
    <3> QED
      BY <1>1, <3>1, PlainApplied
  <2> QED
    BY <2>1, <2>2, <2>3, <2>4, <2>5, <2>6, <2>7 DEF Next, Procs
<1>4. ServicesInv /\ AppliedInv => AckedIsApplied
  BY <1>1, AppliedIsAcked
<1> QED
  BY <1>2, <1>3, <1>4, ServicesInvariance, NumbersInvariance, PTL DEF ServicesSpec
=============================================================================
