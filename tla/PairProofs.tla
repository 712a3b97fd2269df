----------------------------- MODULE PairProofs -----------------------------
(***************************************************************************)
(* Proofs about Pair, for any number of processes, devices and tokens:     *)
(* every device in a ledger has earned its place, a device that was told   *)
(* "paired" is in it, a token lets one presentation through as long as one *)
(* shell redeems, and is refused for a cause where only shells redeem.     *)
(***************************************************************************)
EXTENDS Pair, TLAPS

(***************************************************************************)
(* The invariant behind LedgerEarned                                       *)
(***************************************************************************)
\* A copy of a token that the device has generated, with its expiry.
Genuine(f) == f # NoFile => f.token \in 1 .. issued /\ f.expires_at = expiry[f.token]

IssuesOK == \A p \in Procs : issue[p].pc # "idle" => issue[p].token \in 1 .. issued

\* What a redemption holds between two of its steps.
RedeemsOK ==
  \A p \in Procs :
    /\ job[p].pc # "idle" => job[p].device \in Devices
    /\ job[p].pc \in {"checked", "marked"} =>
         /\ job[p].token \in Tokens /\ job[p].call \in 1 .. MaxCalls
         /\ job[p].read \in Pendings /\ Genuine(job[p].read)
         /\ job[p].read.token = job[p].token
         /\ <<job[p].token, job[p].device>> \in presented

TokensOK == \A d \in Dirs : Genuine(pending[d]) /\ Genuine(pendingTmp[d])

\* Whoever is in a ledger, in a copy of one, or about to be added, earned it.
RecordsOK ==
  /\ \A d \in Dirs : ledger[d] \subseteq Earned
  /\ \A d \in Dirs : \A list \in ledgerTmp[d] : list \subseteq Earned
  /\ \A p \in Procs :
       /\ job[p].paired \subseteq Earned
       /\ job[p].pc \in {"record", "loaded", "saved"} => job[p].device \in Earned

PairInv == PairTypeOK /\ IssuesOK /\ RedeemsOK /\ TokensOK /\ RecordsOK

LEMMA HomeDirs == \A p : Home(p) \in Dirs
  BY DEF Home, Dirs

LEMMA TtlBounded ==
  ASSUME PairAssumption, NEW ttl \in Nat PROVE Ttl(ttl) \in 1 .. MaxTtl
  BY DEF Ttl, PairAssumption

LEMMA PairInitInv ==
  ASSUME PairAssumption, PairInit PROVE PairInv
<1> USE DEF PairInit
<1>1. PairTypeOK
  BY DEF PairTypeOK, PairAssumption, NoIssue, NoJob, NoToken, JobPcs, Dirs, Tokens
<1>2. IssuesOK /\ RedeemsOK /\ TokensOK
  BY DEF IssuesOK, RedeemsOK, TokensOK, Genuine, NoIssue, NoJob
<1>3. RecordsOK
  BY DEF RecordsOK, NoJob
<1> QED
  BY <1>1, <1>2, <1>3 DEF PairInv

\* Nobody loses what it has earned.
LEMMA EarnedGrows ==
  ASSUME presented \subseteq presented', accepted \subseteq accepted',
         confirmed \subseteq confirmed'
  PROVE  Earned \subseteq Earned'
  BY DEF Earned

(***************************************************************************)
(* Steps outside the device, its clock and its shells                      *)
(***************************************************************************)
SameState == UNCHANGED <<tokenFiles, ledgerFiles, issue, job, tokens,
                         presented, accepted, confirmed>>

LEMMA SameStateInv ==
  ASSUME PairInv, PairTypeOK', SameState PROVE PairInv'
<1>1. IssuesOK' /\ RedeemsOK' /\ TokensOK'
  BY DEF PairInv, SameState, tokenFiles, tokens, IssuesOK, RedeemsOK, TokensOK, Genuine
<1>2. RecordsOK'
  BY DEF PairInv, SameState, ledgerFiles, RecordsOK, Earned
<1> QED
  BY <1>1, <1>2 DEF PairInv

\* What a `flash` call may be.
Phases == [n : 0 .. MaxCalls,
           status : {"idle", "waiting", "stopped", "paired", "refused", "failed"}]

LEMMA OutsideInv ==
  ASSUME PairAssumption, PairInv,
         \/ Tick \/ Lose
         \/ \E p \in Shells : Open(p)
         \/ \E d \in Devices : (\E t \in published : Flash(d, t)) \/ Interrupt(d)
         \/ \E m \in replies : Answer(m)
  PROVE  PairInv'
<1> USE DEF tokenFiles, ledgerFiles, wire, tokens, marks
<1>1. PairTypeOK
  BY DEF PairInv
<1>2. SameState
  BY DEF SameState, Tick, Lose, Open, Flash, Interrupt, Answer
<1>3. PairTypeOK'
  <2>1. CASE Tick
    BY <1>1, <2>1 DEF Tick, PairTypeOK, PairAssumption
  <2>2. CASE Lose
    BY <1>1, <2>2 DEF Lose, PairTypeOK, PairAssumption
  <2>3. ASSUME NEW p \in Shells, Open(p) PROVE PairTypeOK'
    BY <1>1, <2>3 DEF Open, PairTypeOK, Handlers
  <2>4. ASSUME NEW d \in Devices, NEW t \in published, Flash(d, t) PROVE PairTypeOK'
    BY <1>1, <2>4 DEF Flash, PairTypeOK, PairAssumption
  <2>5. ASSUME NEW d \in Devices, Interrupt(d) PROVE PairTypeOK'
    BY <1>1, <2>5 DEF Interrupt, PairTypeOK, PairAssumption
  <2>6. ASSUME NEW m \in replies, Answer(m) PROVE PairTypeOK'
    <3>1. /\ m.to \in Devices /\ m.outcome \in {"paired", "refused", "failed"}
          /\ call[m.to] \in Phases
      BY <1>1 DEF PairTypeOK, Phases
    <3>2. [call[m.to] EXCEPT !.status = m.outcome] \in Phases
      BY <3>1 DEF Phases
    <3>3. /\ \/ call' = [call EXCEPT ![m.to] = [call[m.to] EXCEPT !.status = m.outcome]]
             \/ call' = call
          /\ replies' \subseteq replies
          /\ UNCHANGED <<now, pending, pendingTmp, ledger, ledgerTmp, known, online,
                         issue, job, calls, redeems, issued, published, expiry,
                         presented, accepted, confirmed, overlapped, disturbed, faults>>
      BY <2>6 DEF Answer
    <3>4. call \in [Devices -> Phases]
      BY <1>1 DEF PairTypeOK, Phases
    <3>5. call' \in [Devices -> Phases]
      BY <3>2, <3>3, <3>4
    <3> QED
      BY <1>1, <3>3, <3>5 DEF PairTypeOK, Phases
  <2> QED
    BY <2>1, <2>2, <2>3, <2>4, <2>5, <2>6
<1> QED
  BY <1>2, <1>3, SameStateInv

(***************************************************************************)
(* A process is stopped                                                    *)
(***************************************************************************)
LEMMA KillInv ==
  ASSUME PairAssumption, PairInv, NEW p \in Procs, Kill(p) PROVE PairInv'
<1> USE DEF tokenFiles, ledgerFiles, wire, tokens, marks
<1>1. /\ PairTypeOK
      /\ issue' = [issue EXCEPT ![p] = NoIssue] /\ job' = [job EXCEPT ![p] = NoJob]
  BY DEF PairInv, Kill
<1>2. /\ issue' \in [Procs -> [pc : {"idle", "written", "bundle"},
                               token : Tokens \cup {NoToken}]]
      /\ job' \in [Procs -> [pc : JobPcs, device : Devices \cup {NoDevice},
                             call : 0 .. MaxCalls, token : Tokens \cup {NoToken},
                             read : Pendings \cup {NoFile}, paired : SUBSET Devices]]
  <2>1. NoIssue \in [pc : {"idle", "written", "bundle"}, token : Tokens \cup {NoToken}]
    BY DEF NoIssue
  <2>2. NoJob \in [pc : JobPcs, device : Devices \cup {NoDevice},
                   call : 0 .. MaxCalls, token : Tokens \cup {NoToken},
                   read : Pendings \cup {NoFile}, paired : SUBSET Devices]
    BY DEF NoJob, JobPcs, PairAssumption
  <2> QED
    BY <1>1, <2>1, <2>2 DEF PairTypeOK
<1>3. PairTypeOK'
  BY <1>1, <1>2 DEF Kill, PairTypeOK, PairAssumption
<1>4. IssuesOK' /\ RedeemsOK' /\ TokensOK'
  BY <1>1 DEF PairInv, Kill, PairTypeOK, IssuesOK, RedeemsOK, TokensOK, Genuine,
              NoIssue, NoJob
<1>5. RecordsOK'
  <2>1. Earned' = Earned
    BY DEF Kill, Earned
  <2>2. \A q \in Procs : job'[q] = job[q] \/ (job'[q].paired = {} /\ job'[q].pc = "idle")
    BY <1>1 DEF PairTypeOK, NoJob
  <2>3. UNCHANGED <<ledger, ledgerTmp>> /\ RecordsOK
    BY DEF Kill, PairInv
  <2> QED
    BY <2>1, <2>2, <2>3 DEF RecordsOK
<1> QED
  BY <1>3, <1>4, <1>5 DEF PairInv

(***************************************************************************)
(* issue_token                                                             *)
(***************************************************************************)
LEMMA IssueWriteInv ==
  ASSUME PairAssumption, PairInv, NEW p \in Procs, NEW ttl \in Nat, IssueWrite(p, ttl)
  PROVE  PairInv'
<1> USE DEF tokenFiles, ledgerFiles, wire, tokens, marks
<1> DEFINE t == issued + 1
<1> DEFINE f == [token |-> t, expires_at |-> now + Ttl(ttl), used |-> FALSE]
<1>1. /\ PairTypeOK /\ IssuesOK /\ RedeemsOK /\ TokensOK /\ RecordsOK
      /\ issued \in Nat /\ MaxTokens \in Nat /\ issued < MaxTokens
  BY DEF PairInv, IssueWrite, PairTypeOK, PairAssumption
<1>2. /\ issued' = t /\ t \in Tokens
      /\ expiry' = [expiry EXCEPT ![t] = now + Ttl(ttl)]
      /\ pendingTmp' = [pendingTmp EXCEPT !["root"] = f]
      /\ issue' = [issue EXCEPT ![p] = [pc |-> "written", token |-> t]]
  BY <1>1 DEF IssueWrite, Tokens
<1>3. now + Ttl(ttl) \in 1 .. MaxTime + MaxTtl /\ f \in Pendings
  BY <1>1, <1>2, TtlBounded DEF PairTypeOK, PairAssumption, Pendings
<1> HIDE DEF t, f
<1>4. overlapped' \subseteq Tokens
  <2>1. \A q \in Procs : Redeeming(q) => job[q].token \in Tokens
    BY <1>1 DEF Redeeming, RedeemsOK
  <2>2. Crossed(t) \subseteq Tokens
    BY <1>2, <2>1 DEF Crossed
  <2>3. overlapped' = overlapped \cup Crossed(t)
    BY <1>2 DEF IssueWrite
  <2> QED
    BY <1>1, <2>2, <2>3 DEF PairTypeOK
<1>5. PairTypeOK'
  <2>1. issued' \in 0 .. MaxTokens
    BY <1>1, <1>2 DEF Tokens
  <2>2. expiry' \in [Tokens -> 0 .. MaxTime + MaxTtl]
    BY <1>1, <1>2, <1>3 DEF PairTypeOK, PairAssumption
  <2>3. pendingTmp' \in [Dirs -> Pendings \cup {NoFile}]
    BY <1>1, <1>2, <1>3 DEF PairTypeOK
  <2>4. issue' \in [Procs -> [pc : {"idle", "written", "bundle"},
                              token : Tokens \cup {NoToken}]]
    BY <1>1, <1>2 DEF PairTypeOK
  <2> QED
    BY <1>1, <1>4, <2>1, <2>2, <2>3, <2>4 DEF IssueWrite, PairTypeOK
<1>6. \A g : g # NoFile /\ Genuine(g) => Genuine(g)'
  <2>1. \A u \in 1 .. issued : u \in 1 .. t /\ u \in Tokens /\ u # t
    BY <1>1 DEF Tokens, t
  <2>2. expiry \in [Tokens -> 0 .. MaxTime + MaxTtl]
    BY <1>1 DEF PairTypeOK
  <2>3. \A u \in 1 .. issued : u \in 1 .. issued' /\ expiry'[u] = expiry[u]
    BY <1>2, <2>1, <2>2
  <2> QED
    BY <2>3 DEF Genuine
<1>7. IssuesOK'
  BY <1>1, <1>2 DEF IssuesOK, PairTypeOK, t
<1>8. TokensOK'
  <2>1. f.token \in 1 .. issued' /\ f.expires_at = expiry'[f.token]
    BY <1>1, <1>2 DEF PairTypeOK, f, t
  <2>2. UNCHANGED pending /\ \A d \in Dirs : pendingTmp'[d] \in {pendingTmp[d], f}
    BY <1>1, <1>2 DEF IssueWrite, PairTypeOK
  <2>3. ASSUME NEW d \in Dirs PROVE Genuine(pending[d])' /\ Genuine(pendingTmp[d])'
    <3>1. Genuine(pending[d]) /\ Genuine(pendingTmp[d])
      BY <1>1 DEF TokensOK
    <3>2. Genuine(pending[d])'
      BY <1>6, <2>2, <3>1 DEF Genuine
    <3>3. CASE pendingTmp'[d] = f
      BY <2>1, <3>2, <3>3 DEF Genuine
    <3>4. CASE pendingTmp'[d] = pendingTmp[d]
      BY <1>6, <3>1, <3>2, <3>4 DEF Genuine
    <3> QED
      BY <2>2, <3>2, <3>3, <3>4
  <2> QED
    BY <2>3 DEF TokensOK
<1>9. RedeemsOK'
  BY <1>1, <1>6 DEF IssueWrite, RedeemsOK, Genuine
<1>10. RecordsOK'
  BY <1>1 DEF IssueWrite, RecordsOK, Earned
<1> QED
  BY <1>5, <1>7, <1>8, <1>9, <1>10 DEF PairInv

LEMMA IssueEndsInv ==
  ASSUME PairAssumption, PairInv, NEW p \in Procs,
         IssueRename(p) \/ IssueFails(p) \/ WriteBundle(p)
  PROVE  PairInv'
<1> USE DEF tokenFiles, ledgerFiles, wire, tokens, marks
<1>1. /\ PairTypeOK /\ IssuesOK /\ RedeemsOK /\ TokensOK /\ RecordsOK
      /\ UNCHANGED <<ledger, ledgerTmp, job, issued, expiry, presented, accepted,
                     confirmed>>
      /\ issue[p].pc # "idle"
  BY DEF PairInv, IssueRename, IssueFails, WriteBundle
<1>2. /\ issue' \in [Procs -> [pc : {"idle", "written", "bundle"},
                               token : Tokens \cup {NoToken}]]
      /\ \A q \in Procs : issue'[q].pc # "idle" =>
           issue[q].pc # "idle" /\ issue'[q].token = issue[q].token
  <2>1. NoIssue \in [pc : {"idle", "written", "bundle"}, token : Tokens \cup {NoToken}]
    BY DEF NoIssue
  <2>2. CASE issue' = [issue EXCEPT ![p] = NoIssue]
    BY <1>1, <2>1, <2>2 DEF PairTypeOK, NoIssue
  <2>3. CASE issue' = [issue EXCEPT ![p] = [@ EXCEPT !.pc = "bundle"]]
    BY <1>1, <2>3 DEF PairTypeOK
  <2> QED
    BY <2>2, <2>3 DEF IssueRename, IssueFails, WriteBundle
<1>3. published' \subseteq Tokens /\ online' \subseteq Handlers
  BY <1>1 DEF IssueRename, IssueFails, WriteBundle, PairTypeOK, IssuesOK, Tokens,
              Handlers
<1>4. /\ pending' \in [Dirs -> Pendings \cup {NoFile}]
      /\ pendingTmp' \in [Dirs -> Pendings \cup {NoFile}]
      /\ \A d \in Dirs : /\ pending'[d] \in {pending[d], pendingTmp[d]}
                         /\ pendingTmp'[d] \in {NoFile, pendingTmp[d]}
  BY <1>1 DEF IssueRename, IssueFails, WriteBundle, PairTypeOK, Dirs
<1>5. PairTypeOK'
  BY <1>1, <1>2, <1>3, <1>4 DEF IssueRename, IssueFails, WriteBundle, PairTypeOK
<1>6. IssuesOK' /\ RedeemsOK'
  BY <1>1, <1>2 DEF IssuesOK, RedeemsOK, Genuine
<1>7. TokensOK'
  BY <1>1, <1>4 DEF TokensOK, Genuine
<1>8. RecordsOK'
  BY <1>1 DEF RecordsOK, Earned
<1> QED
  BY <1>5, <1>6, <1>7, <1>8 DEF PairInv

(***************************************************************************)
(* consume_token                                                           *)
(***************************************************************************)
JobType == [pc : JobPcs, device : Devices \cup {NoDevice},
            call : 0 .. MaxCalls, token : Tokens \cup {NoToken},
            read : Pendings \cup {NoFile}, paired : SUBSET Devices]

\* A step of one job leaves the jobs of the other processes alone.
JobStep(p) == \E j \in JobType : job' = [job EXCEPT ![p] = j]

LEMMA JobStepType ==
  ASSUME PairTypeOK, NEW p \in Procs, JobStep(p)
  PROVE  /\ job' \in [Procs -> JobType]
         /\ \A q \in Procs : q # p => job'[q] = job[q]
  BY DEF PairTypeOK, JobStep, JobType

\* A step leaves a redemption as it was, or lets go of the token.
LEMMA RedeemsStay ==
  ASSUME RedeemsOK, UNCHANGED <<issued, expiry>>, presented \subseteq presented',
         NEW p \in Procs, \A q \in Procs : q # p => job'[q] = job[q],
         job'[p].pc # "idle" => job'[p].device \in Devices,
         job'[p].pc \in {"checked", "marked"} =>
           /\ job[p].pc \in {"checked", "marked"}
           /\ job'[p].token = job[p].token /\ job'[p].device = job[p].device
           /\ job'[p].call = job[p].call /\ job'[p].read = job[p].read
  PROVE  RedeemsOK'
<1>1. \A f : Genuine(f) => Genuine(f)'
  BY DEF Genuine
<1>2. ASSUME NEW q \in Procs
      PROVE  /\ job'[q].pc # "idle" => job'[q].device \in Devices
             /\ job'[q].pc \in {"checked", "marked"} =>
                  /\ job'[q].token \in Tokens /\ job'[q].call \in 1 .. MaxCalls
                  /\ job'[q].read \in Pendings /\ Genuine(job'[q].read)
                  /\ job'[q].read.token = job'[q].token
                  /\ <<job'[q].token, job'[q].device>> \in presented'
  <2>1. CASE q = p
    BY <2>1 DEF RedeemsOK
  <2>2. CASE q # p
    BY <2>2 DEF RedeemsOK
  <2> QED
    BY <2>1, <2>2
<1>3. \A q \in Procs : Genuine(job'[q].read) => Genuine(job[q].read)'
  BY <1>1 DEF Genuine
<1> QED
  BY <1>2, <1>3 DEF RedeemsOK

\* A step that changes no ledger and leaves a job that has nothing to record.
LEMMA RecordsStay ==
  ASSUME RecordsOK, UNCHANGED <<ledger, ledgerTmp, presented, accepted, confirmed>>,
         NEW p \in Procs, \A q \in Procs : q # p => job'[q] = job[q],
         job'[p].paired = {}, job'[p].pc \notin {"record", "loaded", "saved"}
  PROVE  RecordsOK'
<1>1. Earned' = Earned
  BY DEF Earned
<1>2. ASSUME NEW q \in Procs
      PROVE  /\ job'[q].paired \subseteq Earned
             /\ job'[q].pc \in {"record", "loaded", "saved"} => job'[q].device \in Earned
  <2>1. CASE q = p
    BY <2>1
  <2>2. CASE q # p
    BY <2>2 DEF RecordsOK
  <2> QED
    BY <2>1, <2>2
<1> QED
  BY <1>1, <1>2 DEF RecordsOK

LEMMA NoJobType == ASSUME PairAssumption PROVE NoJob \in JobType
  BY DEF NoJob, JobType, JobPcs, PairAssumption

LEMMA TakeRedeemInv ==
  ASSUME PairAssumption, PairInv, NEW p \in Handlers, NEW m \in redeems,
         TakeRedeem(p, m)
  PROVE  PairInv'
<1> USE DEF tokenFiles, ledgerFiles, wire, tokens, marks
<1> DEFINE f == pending[Home(p)]
<1> DEFINE j == [pc |-> "checked", device |-> m.from, call |-> m.call,
                 token |-> m.token, read |-> f, paired |-> {}]
<1>1. /\ PairTypeOK /\ IssuesOK /\ RedeemsOK /\ TokensOK /\ RecordsOK
      /\ p \in Procs /\ f \in Pendings \cup {NoFile} /\ Genuine(f)
      /\ m.from \in Devices /\ m.call \in 1 .. MaxCalls /\ m.token \in Tokens
      /\ UNCHANGED <<now, pending, pendingTmp, ledger, ledgerTmp, known, online, issue,
                     calls, call, issued, published, expiry, accepted, confirmed,
                     disturbed, faults>>
  BY HomeDirs DEF PairInv, PairTypeOK, Procs, Handlers, TokensOK, TakeRedeem
<1>2. /\ presented \subseteq presented' /\ presented' \subseteq Tokens \X Devices
      /\ m.token \in Tokens /\ now < expiry[m.token] => <<m.token, m.from>> \in presented'
  BY <1>1 DEF TakeRedeem, PairTypeOK
<1>3. redeems' \subseteq redeems
  BY DEF TakeRedeem
<1>4. CASE Redeemable(f, m.token) /\ job' = [job EXCEPT ![p] = j] /\ UNCHANGED replies
  <2>1. j \in JobType
    BY <1>1 DEF JobType, JobPcs
  <2>2. /\ job' \in [Procs -> JobType] /\ job'[p] = j
        /\ \A q \in Procs : q # p => job'[q] = job[q]
    BY <1>1, <1>4, <2>1 DEF PairTypeOK, JobType
  <2>3. f \in Pendings /\ f.token = m.token /\ now < expiry[m.token]
    BY <1>1, <1>4 DEF Redeemable, Genuine, Pendings, PairTypeOK, PairAssumption
  <2>4. overlapped' \subseteq Tokens
    <3>1. \A q \in Procs : q \in Issuing => issue[q].token \in Tokens
      <4>1. \A u \in 1 .. issued : u \in Tokens
        BY <1>1 DEF PairTypeOK, PairAssumption, Tokens
      <4> QED
        BY <1>1, <4>1 DEF Issuing, IssuesOK
    <3>2. \A t \in overlapped' :
            \/ t \in overlapped \/ t = m.token
            \/ \E q \in Procs : q \in Issuing /\ t = issue[q].token
      BY <1>4 DEF TakeRedeem, Issuing
    <3>3. overlapped \subseteq Tokens
      BY <1>1 DEF PairTypeOK
    <3> QED
      BY <1>1, <3>1, <3>2, <3>3
  <2>5. PairTypeOK'
    BY <1>1, <1>2, <1>3, <1>4, <2>2, <2>4 DEF PairTypeOK, JobType
  <2>6. RedeemsOK'
    <3> HIDE DEF f
    <3>1. Genuine(f)'
      BY <1>1 DEF Genuine, f
    <3> QED
      BY <1>1, <1>2, <2>2, <2>3, <3>1 DEF RedeemsOK, Genuine
  <2>7. RecordsOK'
    <3>1. Earned \subseteq Earned'
      BY <1>1, <1>2, EarnedGrows
    <3>2. job'[p].paired = {} /\ job'[p].pc = "checked"
      BY <2>2
    <3> QED
      BY <1>1, <2>2, <3>1, <3>2 DEF RecordsOK
  <2>8. IssuesOK' /\ TokensOK'
    BY <1>1 DEF IssuesOK, TokensOK, Genuine
  <2> QED
    BY <2>5, <2>6, <2>7, <2>8 DEF PairInv
<1>5. CASE /\ replies' = replies \cup {Reply(j, "refused")}
           /\ UNCHANGED <<job, overlapped>>
  <2>1. replies' \subseteq [to : Devices, call : 0 .. MaxCalls,
                            outcome : {"paired", "refused", "failed"}]
    BY <1>1, <1>5 DEF PairTypeOK, Reply, PairAssumption
  <2>2. PairTypeOK'
    BY <1>1, <1>2, <1>3, <1>5, <2>1 DEF PairTypeOK
  <2>3. RecordsOK'
    BY <1>1, <1>2, <1>5, EarnedGrows DEF RecordsOK
  <2>4. IssuesOK' /\ TokensOK' /\ RedeemsOK'
    BY <1>1, <1>2, <1>5 DEF IssuesOK, TokensOK, RedeemsOK, Genuine
  <2> QED
    BY <2>2, <2>3, <2>4 DEF PairInv
<1> QED
  BY <1>4, <1>5 DEF TakeRedeem

LEMMA MarkUsedInv ==
  ASSUME PairAssumption, PairInv, NEW p \in Procs, MarkUsed(p) PROVE PairInv'
<1> USE DEF tokenFiles, ledgerFiles, wire, tokens, marks
<1> DEFINE f == job[p].read
<1>1. /\ PairTypeOK /\ IssuesOK /\ RedeemsOK /\ TokensOK /\ RecordsOK
      /\ job[p].pc = "checked" /\ f \in Pendings /\ Genuine(f)
      /\ UNCHANGED <<now, pending, ledger, ledgerTmp, known, online, issue, calls, call,
                     redeems, replies, issued, published, expiry, presented, accepted,
                     confirmed, overlapped, disturbed, faults>>
  BY DEF PairInv, RedeemsOK, MarkUsed
<1>2. /\ Used(f) \in Pendings /\ Used(f).token = f.token
      /\ Used(f).expires_at = f.expires_at
  BY <1>1 DEF Used, Pendings
<1>3. /\ pendingTmp' = [pendingTmp EXCEPT ![Home(p)] = Used(f)]
      /\ pendingTmp' \in [Dirs -> Pendings \cup {NoFile}]
      /\ \A d \in Dirs : pendingTmp'[d] \in {pendingTmp[d], Used(f)}
  BY <1>1, <1>2 DEF MarkUsed, PairTypeOK
<1>4. [job[p] EXCEPT !.pc = "marked"] \in JobType
  <2>1. job[p] \in JobType
    BY <1>1 DEF PairTypeOK, JobType
  <2> QED
    BY <2>1 DEF JobType, JobPcs
<1>5. /\ job' \in [Procs -> JobType]
      /\ job'[p] = [job[p] EXCEPT !.pc = "marked"]
      /\ \A q \in Procs : q # p => job'[q] = job[q]
  BY <1>1, <1>4 DEF MarkUsed, PairTypeOK, JobType
<1>6. PairTypeOK'
  BY <1>1, <1>3, <1>5 DEF PairTypeOK, JobType
<1>7. TokensOK'
  <2>1. Used(f).token \in 1 .. issued' /\ Used(f).expires_at = expiry'[Used(f).token]
    BY <1>1, <1>2 DEF Genuine, PairAssumption
  <2> HIDE DEF f
  <2>2. ASSUME NEW d \in Dirs PROVE Genuine(pendingTmp[d])'
    BY <1>1, <1>3, <2>1 DEF TokensOK, Genuine
  <2> QED
    BY <1>1, <2>2 DEF TokensOK, Genuine
<1>8. RedeemsOK'
  <2>1. /\ job'[p].token = job[p].token /\ job'[p].device = job[p].device
        /\ job'[p].call = job[p].call /\ job'[p].read = job[p].read
    BY <1>1, <1>5 DEF PairTypeOK
  <2>2. job[p].device \in Devices
    BY <1>1 DEF RedeemsOK
  <2> QED
    BY <1>1, <1>5, <2>1, <2>2, RedeemsStay
<1>9. RecordsOK' /\ IssuesOK'
  <2>1. job'[p].paired = job[p].paired /\ job'[p].pc = "marked"
    BY <1>1, <1>5 DEF PairTypeOK
  <2>2. Earned' = Earned
    BY <1>1 DEF Earned
  <2>3. RecordsOK'
    BY <1>1, <1>5, <2>1, <2>2 DEF RecordsOK
  <2>4. IssuesOK'
    BY <1>1 DEF IssuesOK
  <2> QED
    BY <2>3, <2>4
<1> QED
  BY <1>6, <1>7, <1>8, <1>9 DEF PairInv

LEMMA ConsumeInv ==
  ASSUME PairAssumption, PairInv, NEW p \in Procs, Consume(p) PROVE PairInv'
<1> USE DEF tokenFiles, ledgerFiles, wire, tokens, marks
<1> DEFINE a == [token |-> job[p].token, device |-> job[p].device, call |-> job[p].call]
<1>1. /\ PairTypeOK /\ IssuesOK /\ RedeemsOK /\ TokensOK /\ RecordsOK
      /\ job[p].pc = "marked" /\ a \in [token : Tokens, device : Devices, call : 1 .. MaxCalls]
      /\ <<a.token, a.device>> \in presented
      /\ UNCHANGED <<now, ledger, ledgerTmp, known, online, issue, calls, call,
                     redeems, replies, issued, published, expiry, presented,
                     confirmed, overlapped, disturbed, faults>>
  BY DEF PairInv, RedeemsOK, Consume
<1>2. /\ pending' \in [Dirs -> Pendings \cup {NoFile}]
      /\ pendingTmp' \in [Dirs -> Pendings \cup {NoFile}]
      /\ \A d \in Dirs : /\ pending'[d] \in {pending[d], pendingTmp[d]}
                         /\ pendingTmp'[d] \in {NoFile, pendingTmp[d]}
  BY <1>1, HomeDirs DEF Consume, PairTypeOK
<1>3. [job[p] EXCEPT !.pc = "record"] \in JobType
  <2>1. job[p] \in JobType
    BY <1>1 DEF PairTypeOK, JobType
  <2> QED
    BY <2>1 DEF JobType, JobPcs
<1>4. /\ job' \in [Procs -> JobType]
      /\ job'[p] = [job[p] EXCEPT !.pc = "record"]
      /\ \A q \in Procs : q # p => job'[q] = job[q]
  BY <1>1, <1>3 DEF Consume, PairTypeOK, JobType
<1>5. /\ job'[p].pc = "record" /\ job'[p].device = job[p].device
      /\ job'[p].paired = job[p].paired
  BY <1>1, <1>4 DEF PairTypeOK
<1>6. accepted' = accepted \cup {a}
  BY DEF Consume
<1>7. PairTypeOK'
  <2> HIDE DEF a
  <2> QED
    BY <1>1, <1>2, <1>4, <1>6 DEF PairTypeOK, JobType
<1>8. RecordsOK'
  <2>1. Earned \subseteq Earned'
    BY <1>1, <1>6, EarnedGrows
  <2>2. job[p].device \in Earned'
    BY <1>1, <1>6 DEF Earned
  <2> QED
    BY <1>1, <1>4, <1>5, <2>1, <2>2 DEF RecordsOK
<1>9. TokensOK'
  BY <1>1, <1>2 DEF TokensOK, Genuine
<1>10. RedeemsOK' /\ IssuesOK'
  <2>1. IssuesOK'
    BY <1>1 DEF IssuesOK
  <2>2. job[p].device \in Devices
    BY <1>1 DEF RedeemsOK
  <2>3. RedeemsOK'
    BY <1>1, <1>4, <1>5, <2>2, RedeemsStay
  <2> QED
    BY <2>1, <2>3
<1> QED
  BY <1>7, <1>8, <1>9, <1>10 DEF PairInv

\* The job ends without having changed a file.
LEMMA JobEndsInv ==
  ASSUME PairAssumption, PairInv, NEW p \in Procs,
         ConsumeFails(p) \/ RecordFails(p) \/ Decline(p)
  PROVE  PairInv'
<1> USE DEF tokenFiles, ledgerFiles, wire, tokens, marks
<1>1. /\ PairTypeOK /\ IssuesOK /\ RedeemsOK /\ TokensOK /\ RecordsOK
      /\ job[p].pc # "idle" /\ job' = [job EXCEPT ![p] = NoJob]
      /\ UNCHANGED <<now, pending, pendingTmp, ledger, ledgerTmp, known, online, issue,
                     calls, call, redeems, issued, published, expiry,
                     presented, accepted, confirmed, overlapped, disturbed>>
  BY DEF PairInv, ConsumeFails, RecordFails, Decline
<1>2. /\ job' \in [Procs -> JobType] /\ job'[p] = NoJob
      /\ \A q \in Procs : q # p => job'[q] = job[q]
  BY <1>1, NoJobType DEF PairTypeOK, JobType
<1>3. faults' \in 0 .. MaxFaults
  BY <1>1 DEF ConsumeFails, RecordFails, Decline, PairTypeOK, PairAssumption
<1>4. replies' \subseteq [to : Devices, call : 0 .. MaxCalls,
                          outcome : {"paired", "refused", "failed"}]
  <2>1. Reply(job[p], "failed") \in [to : Devices, call : 0 .. MaxCalls,
                                     outcome : {"paired", "refused", "failed"}]
    BY <1>1 DEF Reply, PairTypeOK, RedeemsOK
  <2>2. replies' \subseteq replies \cup {Reply(job[p], "failed")}
    BY DEF ConsumeFails, RecordFails, Decline
  <2> QED
    BY <1>1, <2>1, <2>2 DEF PairTypeOK
<1>5. PairTypeOK'
  BY <1>1, <1>2, <1>3, <1>4 DEF PairTypeOK, JobType
<1>6. IssuesOK' /\ TokensOK' /\ RedeemsOK'
  BY <1>1, <1>2 DEF IssuesOK, TokensOK, RedeemsOK, Genuine, NoJob
<1>7. RecordsOK'
  BY <1>1, <1>2 DEF RecordsOK, Earned, NoJob
<1> QED
  BY <1>5, <1>6, <1>7 DEF PairInv

(***************************************************************************)
(* record_pairing                                                          *)
(***************************************************************************)
\* Finish ends the job or leaves an adoption the entry in devices.json.
LEMMA FinishJob ==
  ASSUME PairAssumption, PairTypeOK, NEW p \in Procs, Finish(p),
         job[p].device \in Devices
  PROVE  /\ job' \in [Procs -> JobType]
         /\ \A q \in Procs : q # p => job'[q] = job[q]
         /\ \/ job'[p] = NoJob
            \/ /\ job'[p].pc = "paired" /\ job'[p].device = job[p].device
               /\ job'[p].paired = job[p].paired
         /\ replies' \subseteq [to : Devices, call : 0 .. MaxCalls,
                                outcome : {"paired", "refused", "failed"}]
<1>1. job[p] \in JobType /\ job \in [Procs -> JobType]
  BY DEF PairTypeOK, JobType
<1>2. CASE p \in Adopters
  <2>1. [job[p] EXCEPT !.pc = "paired"] \in JobType
    BY <1>1 DEF JobType, JobPcs
  <2>2. job' = [job EXCEPT ![p] = [job[p] EXCEPT !.pc = "paired"]] /\ UNCHANGED replies
    BY <1>2 DEF Finish
  <2>3. job'[p] = [job[p] EXCEPT !.pc = "paired"]
    BY <1>1, <2>2
  <2>4. /\ job'[p].pc = "paired" /\ job'[p].device = job[p].device
        /\ job'[p].paired = job[p].paired
    BY <1>1, <2>3 DEF JobType
  <2> QED
    BY <1>1, <2>1, <2>2, <2>4 DEF PairTypeOK
<1>3. CASE p \notin Adopters
  <2>1. job' = [job EXCEPT ![p] = NoJob] /\ replies' = replies \cup {Reply(job[p], "paired")}
    BY <1>3 DEF Finish
  <2>2. Reply(job[p], "paired") \in [to : Devices, call : 0 .. MaxCalls,
                                     outcome : {"paired", "refused", "failed"}]
    BY <1>1 DEF Reply, JobType
  <2> QED
    BY <1>1, <2>1, <2>2, NoJobType DEF PairTypeOK
<1> QED
  BY <1>2, <1>3

LEMMA LoadLedgerInv ==
  ASSUME PairAssumption, PairInv, NEW p \in Procs, LoadLedger(p) PROVE PairInv'
<1> USE DEF tokenFiles, ledgerFiles, wire, tokens, marks
<1>1. /\ PairTypeOK /\ IssuesOK /\ RedeemsOK /\ TokensOK /\ RecordsOK
      /\ job[p].pc = "record" /\ job[p].device \in Devices /\ job[p].device \in Earned
      /\ job[p] \in JobType /\ job \in [Procs -> JobType]
      /\ UNCHANGED <<now, pending, pendingTmp, ledger, ledgerTmp, known, online, issue,
                     calls, call, redeems, issued, published, expiry, presented,
                     accepted, confirmed, overlapped, faults>>
  BY DEF PairInv, RedeemsOK, RecordsOK, LoadLedger, PairTypeOK, JobType
<1>2. Earned' = Earned
  BY <1>1 DEF Earned
<1>3. disturbed' \subseteq Devices
  BY <1>1 DEF LoadLedger, PairTypeOK
<1>4. IssuesOK' /\ TokensOK'
  BY <1>1 DEF IssuesOK, TokensOK, Genuine
<1>5. CASE Finish(p)
  <2>1. PairTypeOK'
    BY <1>1, <1>3, <1>5, FinishJob DEF PairTypeOK, JobType
  <2>2. RedeemsOK'
    BY <1>1, <1>5, FinishJob DEF RedeemsOK, Genuine, NoJob
  <2>3. RecordsOK'
    BY <1>1, <1>2, <1>5, FinishJob DEF RecordsOK, NoJob
  <2> QED
    BY <1>4, <2>1, <2>2, <2>3 DEF PairInv
<1>6. CASE /\ job' = [job EXCEPT ![p].pc = "loaded", ![p].paired = Extended(p)]
           /\ UNCHANGED replies
  <2>1. Extended(p) \subseteq Devices /\ Extended(p) \subseteq Earned
    BY <1>1, HomeDirs DEF Extended, PairTypeOK, RecordsOK
  <2>2. [job[p] EXCEPT !.pc = "loaded", !.paired = Extended(p)] \in JobType
    BY <1>1, <2>1 DEF JobType, JobPcs
  <2>3. /\ job' \in [Procs -> JobType]
        /\ job'[p] = [job[p] EXCEPT !.pc = "loaded", !.paired = Extended(p)]
        /\ \A q \in Procs : q # p => job'[q] = job[q]
    BY <1>1, <1>6, <2>2
  <2>4. /\ job'[p].pc = "loaded" /\ job'[p].device = job[p].device
        /\ job'[p].paired = Extended(p)
    BY <1>1, <2>3 DEF JobType
  <2>5. PairTypeOK'
    BY <1>1, <1>3, <1>6, <2>3 DEF PairTypeOK, JobType
  <2>6. RedeemsOK'
    BY <1>1, <2>3, <2>4, RedeemsStay
  <2>7. RecordsOK'
    <3>1. \A d \in Dirs : ledger'[d] \subseteq Earned'
      BY <1>1, <1>2 DEF RecordsOK
    <3>2. \A d \in Dirs : \A list \in ledgerTmp'[d] : list \subseteq Earned'
      BY <1>1, <1>2 DEF RecordsOK
    <3>3. ASSUME NEW q \in Procs
          PROVE  /\ job'[q].paired \subseteq Earned'
                 /\ job'[q].pc \in {"record", "loaded", "saved"} =>
                      job'[q].device \in Earned'
      <4>1. CASE q = p
        BY <1>1, <1>2, <2>1, <2>4, <4>1
      <4>2. CASE q # p
        BY <1>1, <1>2, <2>3, <4>2 DEF RecordsOK
      <4> QED
        BY <4>1, <4>2
    <3> QED
      BY <3>1, <3>2, <3>3 DEF RecordsOK
  <2> QED
    BY <1>4, <2>5, <2>6, <2>7 DEF PairInv
<1> QED
  BY <1>5, <1>6 DEF LoadLedger

LEMMA SaveLedgerInv ==
  ASSUME PairAssumption, PairInv, NEW p \in Procs, SaveLedger(p) PROVE PairInv'
<1> USE DEF tokenFiles, ledgerFiles, wire, tokens, marks
<1>1. /\ PairTypeOK /\ IssuesOK /\ RedeemsOK /\ TokensOK /\ RecordsOK
      /\ job[p].pc = "loaded" /\ job[p].device \in Devices /\ job[p].device \in Earned
      /\ job[p].paired \subseteq Earned /\ job[p].paired \subseteq Devices
      /\ job[p] \in JobType /\ job \in [Procs -> JobType]
      /\ UNCHANGED <<now, pending, pendingTmp, ledger, known, online, issue,
                     calls, call, redeems, replies, issued, published, expiry,
                     presented, accepted, confirmed, overlapped, disturbed, faults>>
  BY DEF PairInv, RedeemsOK, RecordsOK, SaveLedger, PairTypeOK, JobType
<1>2. Earned' = Earned
  BY <1>1 DEF Earned
<1>3. /\ ledgerTmp' \in [Dirs -> SUBSET SUBSET Devices]
      /\ \A d \in Dirs : ledgerTmp'[d] \in {ledgerTmp[d], {job[p].paired}}
  <2>1. ledgerTmp' = [ledgerTmp EXCEPT ![Home(p)] = {job[p].paired}]
    BY DEF SaveLedger
  <2>2. ledgerTmp \in [Dirs -> SUBSET SUBSET Devices]
    BY <1>1 DEF PairTypeOK
  <2>3. {job[p].paired} \in SUBSET SUBSET Devices
    BY <1>1
  <2> QED
    BY <2>1, <2>2, <2>3
<1>4. [job[p] EXCEPT !.pc = "saved"] \in JobType
  BY <1>1 DEF JobType, JobPcs
<1>5. /\ job' \in [Procs -> JobType]
      /\ job'[p] = [job[p] EXCEPT !.pc = "saved"]
      /\ \A q \in Procs : q # p => job'[q] = job[q]
  BY <1>1, <1>4 DEF SaveLedger
<1>6. /\ job'[p].pc = "saved" /\ job'[p].device = job[p].device
      /\ job'[p].paired = job[p].paired
  BY <1>1, <1>5 DEF JobType
<1>7. PairTypeOK'
  BY <1>1, <1>3, <1>5 DEF PairTypeOK, JobType
<1>8. IssuesOK' /\ TokensOK' /\ RedeemsOK'
  <2>1. IssuesOK' /\ TokensOK'
    BY <1>1 DEF IssuesOK, TokensOK, Genuine
  <2>2. RedeemsOK'
    BY <1>1, <1>5, <1>6, RedeemsStay
  <2> QED
    BY <2>1, <2>2
<1>9. RecordsOK'
  <2>1. \A d \in Dirs : \A list \in ledgerTmp'[d] : list \subseteq Earned
    BY <1>1, <1>3 DEF RecordsOK
  <2> QED
    BY <1>1, <1>2, <1>5, <1>6, <2>1 DEF RecordsOK
<1> QED
  BY <1>7, <1>8, <1>9 DEF PairInv

LEMMA RenameLedgerInv ==
  ASSUME PairAssumption, PairInv, NEW p \in Procs, RenameLedger(p) PROVE PairInv'
<1> USE DEF tokenFiles, ledgerFiles, wire, tokens, marks
<1>1. /\ PairTypeOK /\ IssuesOK /\ RedeemsOK /\ TokensOK /\ RecordsOK
      /\ job[p].pc = "saved" /\ job[p].device \in Devices /\ Finish(p)
      /\ UNCHANGED <<now, pending, pendingTmp, known, online, issue, calls, call,
                     redeems, issued, published, expiry, presented, accepted,
                     confirmed, overlapped, disturbed, faults>>
  BY DEF PairInv, RedeemsOK, RenameLedger
<1>2. Earned' = Earned
  BY <1>1 DEF Earned
<1>3. PICK list \in ledgerTmp[Home(p)] :
        /\ ledger' = [ledger EXCEPT ![Home(p)] = list]
        /\ ledgerTmp' = [ledgerTmp EXCEPT ![Home(p)] = {}]
  BY DEF RenameLedger
<1>4. list \subseteq Devices /\ list \subseteq Earned
  BY <1>1, <1>3, HomeDirs DEF PairTypeOK, RecordsOK
<1>5. /\ ledger' \in [Dirs -> SUBSET Devices]
      /\ ledgerTmp' \in [Dirs -> SUBSET SUBSET Devices]
      /\ \A d \in Dirs : ledger'[d] \in {ledger[d], list} /\ ledgerTmp'[d] \in {ledgerTmp[d], {}}
  BY <1>1, <1>3, <1>4 DEF PairTypeOK
<1>6. PairTypeOK'
  BY <1>1, <1>5, FinishJob DEF PairTypeOK, JobType
<1>7. IssuesOK' /\ TokensOK'
  BY <1>1 DEF IssuesOK, TokensOK, Genuine
<1>8. RedeemsOK'
  BY <1>1, FinishJob DEF RedeemsOK, Genuine, NoJob
<1>9. RecordsOK'
  <2>1. \A d \in Dirs : ledger'[d] \subseteq Earned
    BY <1>1, <1>4, <1>5 DEF RecordsOK
  <2>2. \A d \in Dirs : \A l \in ledgerTmp'[d] : l \subseteq Earned
    BY <1>1, <1>5 DEF RecordsOK
  <2> QED
    BY <1>1, <1>2, <2>1, <2>2, FinishJob DEF RecordsOK, NoJob
<1> QED
  BY <1>6, <1>7, <1>8, <1>9 DEF PairInv

(***************************************************************************)
(* adopt                                                                   *)
(***************************************************************************)
LEMMA ReadBundleInv ==
  ASSUME PairAssumption, PairInv, NEW p \in Procs, NEW d \in Drives, ReadBundle(p, d)
  PROVE  PairInv'
<1> USE DEF tokenFiles, ledgerFiles, wire, tokens, marks
<1> DEFINE j == [NoJob EXCEPT !.pc = "confirming", !.device = d]
<1>1. /\ PairTypeOK /\ IssuesOK /\ RedeemsOK /\ TokensOK /\ RecordsOK
      /\ job' = [job EXCEPT ![p] = j] /\ d \in Devices
  BY DEF PairInv, ReadBundle, PairAssumption
<1>2. j \in JobType /\ j.pc = "confirming" /\ j.device = d /\ j.paired = {}
  BY <1>1, NoJobType DEF JobType, JobPcs, NoJob
<1> HIDE DEF j
<1>3. /\ job' \in [Procs -> JobType] /\ job'[p] = j
      /\ \A q \in Procs : q # p => job'[q] = job[q]
  BY <1>1, <1>2 DEF PairTypeOK, JobType
<1>4. PairTypeOK'
  BY <1>1, <1>3 DEF ReadBundle, PairTypeOK, JobType
<1>5. IssuesOK' /\ TokensOK'
  BY <1>1 DEF ReadBundle, IssuesOK, TokensOK, Genuine
<1>6. RedeemsOK'
  <2>1. UNCHANGED <<issued, expiry, presented>>
    BY DEF ReadBundle
  <2> QED
    BY <1>1, <1>2, <1>3, <2>1, RedeemsStay
<1>7. RecordsOK'
  <2>1. UNCHANGED <<ledger, ledgerTmp, presented, accepted, confirmed>>
    BY DEF ReadBundle
  <2> QED
    BY <1>1, <1>2, <1>3, <2>1, RecordsStay
<1> QED
  BY <1>4, <1>5, <1>6, <1>7 DEF PairInv

LEMMA ConfirmInv ==
  ASSUME PairAssumption, PairInv, NEW p \in Procs, Confirm(p) PROVE PairInv'
<1> USE DEF tokenFiles, ledgerFiles, wire, tokens, marks
<1>1. /\ PairTypeOK /\ IssuesOK /\ RedeemsOK /\ TokensOK /\ RecordsOK
      /\ job[p].device \in Devices /\ confirmed' = confirmed \cup {job[p].device}
      /\ job[p] \in JobType /\ job \in [Procs -> JobType]
  BY DEF PairInv, Confirm, RedeemsOK, PairTypeOK, JobType
<1>2. [job[p] EXCEPT !.pc = "record"] \in JobType
  BY <1>1 DEF JobType, JobPcs
<1>3. /\ job' \in [Procs -> JobType] /\ job'[p] = [job[p] EXCEPT !.pc = "record"]
      /\ \A q \in Procs : q # p => job'[q] = job[q]
  BY <1>1, <1>2 DEF Confirm
<1>4. /\ job'[p].pc = "record" /\ job'[p].device = job[p].device
      /\ job'[p].paired = job[p].paired
  BY <1>1, <1>3 DEF JobType
<1>5. PairTypeOK'
  BY <1>1, <1>3 DEF Confirm, PairTypeOK, JobType
<1>6. IssuesOK' /\ TokensOK'
  BY <1>1 DEF Confirm, IssuesOK, TokensOK, Genuine
<1>7. RedeemsOK'
  BY <1>1, <1>3, <1>4 DEF Confirm, RedeemsOK, Genuine
<1>8. RecordsOK'
  <2>1. Earned \subseteq Earned'
    BY <1>1, EarnedGrows DEF Confirm
  <2>2. job[p].device \in Earned'
    BY <1>1 DEF Earned
  <2> QED
    BY <1>1, <1>3, <1>4, <2>1, <2>2 DEF Confirm, RecordsOK
<1> QED
  BY <1>5, <1>6, <1>7, <1>8 DEF PairInv

LEMMA AddDeviceInv ==
  ASSUME PairAssumption, PairInv, NEW p \in Procs, AddDevice(p) PROVE PairInv'
<1> USE DEF tokenFiles, ledgerFiles, wire, tokens, marks
<1>1. /\ PairTypeOK /\ IssuesOK /\ RedeemsOK /\ TokensOK /\ RecordsOK
      /\ job' = [job EXCEPT ![p] = NoJob]
  BY DEF PairInv, AddDevice
<1>2. /\ job' \in [Procs -> JobType] /\ job'[p] = NoJob
      /\ \A q \in Procs : q # p => job'[q] = job[q]
  BY <1>1, NoJobType DEF PairTypeOK, JobType
<1>3. known' \in [Devices -> {"unknown", "named", "flashed"}]
  BY <1>1 DEF AddDevice, PairTypeOK
<1>4. PairTypeOK'
  BY <1>1, <1>2, <1>3 DEF AddDevice, PairTypeOK, JobType
<1>5. IssuesOK' /\ TokensOK' /\ RedeemsOK'
  <2>1. UNCHANGED <<pending, pendingTmp, issue, issued, expiry, presented>>
    BY DEF AddDevice
  <2>2. IssuesOK' /\ TokensOK'
    BY <1>1, <2>1 DEF IssuesOK, TokensOK, Genuine
  <2>3. job'[p].pc = "idle"
    BY <1>2 DEF NoJob
  <2>4. RedeemsOK'
    BY <1>1, <1>2, <2>1, <2>3, RedeemsStay
  <2> QED
    BY <2>2, <2>4
<1>6. RecordsOK'
  <2>1. UNCHANGED <<ledger, ledgerTmp, presented, accepted, confirmed>>
    BY DEF AddDevice
  <2>2. job'[p].paired = {} /\ job'[p].pc = "idle"
    BY <1>2 DEF NoJob
  <2> QED
    BY <1>1, <1>2, <2>1, <2>2, RecordsStay
<1> QED
  BY <1>4, <1>5, <1>6 DEF PairInv

LEMMA PairNextInv ==
  ASSUME PairAssumption, PairInv, [Next]_vars PROVE PairInv'
<1>1. CASE \/ Tick \/ Lose
           \/ \E p \in Shells : Open(p)
           \/ \E d \in Devices : (\E t \in published : Flash(d, t)) \/ Interrupt(d)
           \/ \E m \in replies : Answer(m)
  BY <1>1, OutsideInv
<1>2. ASSUME NEW p \in Procs, Kill(p) PROVE PairInv'
  BY <1>2, KillInv
<1>3. ASSUME NEW p \in Procs, NEW ttl \in Ttls, IssueWrite(p, ttl) PROVE PairInv'
  BY <1>3, IssueWriteInv DEF PairAssumption
<1>4. ASSUME NEW p \in Procs, IssueWrite(p, DefaultTtl) PROVE PairInv'
  BY <1>4, IssueWriteInv DEF PairAssumption
<1>5. ASSUME NEW p \in Procs, IssueRename(p) \/ IssueFails(p) \/ WriteBundle(p)
      PROVE  PairInv'
  BY <1>5, IssueEndsInv
<1>6. ASSUME NEW p \in Procs, NEW m \in redeems, TakeRedeem(p, m) PROVE PairInv'
  <2>1. p \in Handlers
    BY <1>6 DEF TakeRedeem, PairInv, PairTypeOK
  <2> QED
    BY <1>6, <2>1, TakeRedeemInv
<1>7. ASSUME NEW p \in Procs, MarkUsed(p) \/ Consume(p) PROVE PairInv'
  BY <1>7, MarkUsedInv, ConsumeInv
<1>8. ASSUME NEW p \in Procs, ConsumeFails(p) \/ RecordFails(p) \/ Decline(p)
      PROVE  PairInv'
  BY <1>8, JobEndsInv
<1>9. ASSUME NEW p \in Procs, LoadLedger(p) \/ SaveLedger(p) \/ RenameLedger(p)
      PROVE  PairInv'
  BY <1>9, LoadLedgerInv, SaveLedgerInv, RenameLedgerInv
<1>10. ASSUME NEW p \in Procs, \/ \E d \in Drives : ReadBundle(p, d)
                               \/ Confirm(p) \/ AddDevice(p)
       PROVE  PairInv'
  BY <1>10, ReadBundleInv, ConfirmInv, AddDeviceInv
<1>11. CASE UNCHANGED vars
  <2> USE DEF vars, tokenFiles, ledgerFiles, wire, tokens, marks
  <2>1. PairTypeOK'
    BY <1>11 DEF PairInv, PairTypeOK
  <2>2. SameState
    BY <1>11 DEF SameState
  <2> QED
    BY <2>1, <2>2, SameStateInv
<1> QED
  BY <1>1, <1>2, <1>3, <1>4, <1>5, <1>6, <1>7, <1>8, <1>9, <1>10, <1>11 DEF Next

\* The invariant of the files of a device and of the tasks that rewrite them.
THEOREM PairInvariance == PairSpec => []PairInv
<1>1. PairInit => PairInv
  BY PairInitInv, PairAssumption
<1>2. PairInv /\ [Next]_vars => PairInv'
  BY PairNextInv, PairAssumption
<1> QED
  BY <1>1, <1>2, PTL DEF PairSpec

\* Types; and no token outlives MAX_TTL_SECS, whatever lifetime was asked for.
THEOREM PairTypeCorrect == PairSpec => []PairTypeOK
<1>1. PairInv => PairTypeOK
  BY DEF PairInv
<1> QED
  BY <1>1, PairInvariance, PTL

\* Whoever is in a ledger of record_pairing presented a live token that it
\* used up, or had its drive confirmed by a person.
THEOREM LedgersEarned == PairSpec => []LedgerEarned
<1>1. PairInv => LedgerEarned
  BY DEF PairInv, RecordsOK, LedgerEarned
<1> QED
  BY <1>1, PairInvariance, PTL

(***************************************************************************)
(* A token lets one presentation through                                   *)
(***************************************************************************)
\* The shells of one home share its pair.json, and two of them may redeem one
\* token at the same time: the guarantee is that of a single shell.  The
\* daemons of `neonet pair` read another directory and redeem nothing.
OneShell == \A p, q \in Shells : p = q

Consuming(p) == job[p].pc \in {"checked", "marked"}

Dead(f, t) == f # NoFile /\ f.token = t => f.used

\* An unused copy that waits to be renamed is a token nobody has seen yet.
FreshOK ==
  LET f == pendingTmp["root"] IN
  f # NoFile /\ ~f.used =>
    /\ pending["root"] # NoFile => pending["root"].token # f.token
    /\ \A p \in Procs : Consuming(p) => job[p].token # f.token

DeadOK ==
  \A a \in accepted :
    /\ a.token \in 1 .. issued
    /\ Dead(pending["root"], a.token) /\ Dead(pendingTmp["root"], a.token)
    /\ \A p \in Procs : Consuming(p) => job[p].token # a.token

OnceInv ==
  /\ pending["identity"] = NoFile /\ pendingTmp["identity"] = NoFile
  /\ \A p \in Procs : Consuming(p) => p \in Shells
  /\ FreshOK /\ DeadOK /\ RedeemedOnce

\* Steps that leave pair.json alone and let no job consume.
LEMMA ElsewhereOnce ==
  ASSUME OnceInv, UNCHANGED <<pending, pendingTmp, issued, accepted>>,
         \A p \in Procs : Consuming(p)' => Consuming(p) /\ job'[p].token = job[p].token
  PROVE  OnceInv'
<1>1. FreshOK'
  BY DEF OnceInv, FreshOK
<1>2. DeadOK'
  BY DEF OnceInv, DeadOK, Dead
<1>3. RedeemedOnce'
  BY DEF OnceInv, RedeemedOnce
<1> QED
  BY <1>1, <1>2, <1>3 DEF OnceInv

LEMMA IssueOnce ==
  ASSUME PairAssumption, PairInv, OnceInv, NEW p \in Procs,
         \/ \E ttl \in Nat : IssueWrite(p, ttl)
         \/ IssueRename(p)
  PROVE  OnceInv'
<1> USE DEF tokenFiles, ledgerFiles, wire, tokens, marks
<1>1. PairTypeOK /\ RedeemsOK /\ TokensOK /\ issued \in Nat /\ UNCHANGED <<job, accepted>>
  BY DEF PairInv, PairTypeOK, IssueWrite, IssueRename, PairAssumption
<1>2. \A q \in Procs : Consuming(q) => job[q].token \in 1 .. issued
  BY <1>1 DEF RedeemsOK, Genuine, Consuming, PairAssumption
<1>3. RedeemedOnce' /\ \A q \in Procs : Consuming(q)' => q \in Shells
  BY <1>1 DEF OnceInv, RedeemedOnce, Consuming
<1>4. ASSUME NEW ttl \in Nat, IssueWrite(p, ttl) PROVE OnceInv'
  <2>1. /\ issued' = issued + 1 /\ UNCHANGED pending
        /\ pendingTmp'["root"].token = issued + 1
        /\ pendingTmp'["identity"] = pendingTmp["identity"]
    BY <1>1, <1>4 DEF IssueWrite, PairTypeOK, Dirs
  <2>2. pending["root"] # NoFile => pending["root"].token \in 1 .. issued
    BY <1>1 DEF TokensOK, Genuine, Dirs
  <2>3. FreshOK'
    BY <1>1, <1>2, <2>1, <2>2 DEF FreshOK, Consuming
  <2>4. DeadOK'
    BY <1>1, <2>1 DEF OnceInv, DeadOK, Dead, Consuming
  <2> QED
    BY <1>3, <2>1, <2>3, <2>4 DEF OnceInv
<1>5. CASE IssueRename(p)
  <2>1. /\ pending'["root"] = pendingTmp["root"] /\ pendingTmp'["root"] = NoFile
        /\ pending'["identity"] = pending["identity"]
        /\ pendingTmp'["identity"] = pendingTmp["identity"]
        /\ UNCHANGED issued
    BY <1>1, <1>5 DEF IssueRename, PairTypeOK, Dirs
  <2>2. FreshOK'
    BY <2>1 DEF FreshOK
  <2>3. DeadOK'
    BY <1>1, <2>1 DEF OnceInv, DeadOK, Dead, Consuming
  <2> QED
    BY <1>3, <2>1, <2>2, <2>3 DEF OnceInv
<1> QED
  BY <1>4, <1>5

LEMMA TakeRedeemOnce ==
  ASSUME PairAssumption, PairInv, OnceInv, NEW p \in Handlers, NEW m \in redeems,
         TakeRedeem(p, m)
  PROVE  OnceInv'
<1> USE DEF tokenFiles, ledgerFiles, wire, tokens, marks
<1> DEFINE f == pending[Home(p)]
<1>1. PairTypeOK /\ p \in Procs /\ UNCHANGED <<pending, pendingTmp, issued, accepted>>
  BY DEF PairInv, TakeRedeem, Procs, Handlers
<1>2. CASE UNCHANGED job
  BY <1>1, <1>2, ElsewhereOnce DEF Consuming
<1>3. CASE /\ Redeemable(f, m.token)
           /\ job' = [job EXCEPT ![p] = [pc |-> "checked", device |-> m.from,
                        call |-> m.call, token |-> m.token, read |-> f, paired |-> {}]]
  <2>1. f # NoFile /\ ~f.used /\ f.token = m.token
    BY <1>3 DEF Redeemable
  <2>2. Home(p) = "root" /\ p \in Shells
    BY <2>1 DEF Home, OnceInv, Handlers
  <2>3. /\ job'[p].token = m.token
        /\ \A q \in Procs : q # p => job'[q] = job[q]
    BY <1>1, <1>3 DEF PairTypeOK
  <2>4. FreshOK'
    BY <1>1, <2>1, <2>2, <2>3 DEF OnceInv, FreshOK, Consuming
  <2>5. \A a \in accepted : a.token # m.token
    BY <2>1, <2>2 DEF OnceInv, DeadOK, Dead
  <2>6. DeadOK'
    BY <1>1, <2>3, <2>5 DEF OnceInv, DeadOK, Dead, Consuming
  <2>7. RedeemedOnce' /\ \A q \in Procs : Consuming(q)' => q \in Shells
    BY <1>1, <2>2, <2>3 DEF OnceInv, RedeemedOnce, Consuming
  <2> QED
    BY <1>1, <2>4, <2>6, <2>7 DEF OnceInv
<1> QED
  BY <1>2, <1>3 DEF TakeRedeem

LEMMA MarkUsedOnce ==
  ASSUME PairAssumption, PairInv, OnceInv, NEW p \in Procs, MarkUsed(p) PROVE OnceInv'
<1> USE DEF tokenFiles, ledgerFiles, wire, tokens, marks
<1>1. /\ PairTypeOK /\ RedeemsOK /\ UNCHANGED <<pending, issued, accepted>>
      /\ job[p].pc = "checked"
      /\ pendingTmp' = [pendingTmp EXCEPT ![Home(p)] = Used(job[p].read)]
      /\ job' = [job EXCEPT ![p].pc = "marked"]
  BY DEF PairInv, MarkUsed
<1>2. p \in Shells /\ Home(p) = "root"
  BY <1>1 DEF OnceInv, Consuming, Home, PairAssumption
<1>3. /\ pendingTmp'["root"].used /\ pendingTmp'["identity"] = pendingTmp["identity"]
  BY <1>1, <1>2 DEF PairTypeOK, Dirs, RedeemsOK, Used, Pendings
<1>4. \A q \in Procs : Consuming(q)' => Consuming(q) /\ job'[q].token = job[q].token
  BY <1>1 DEF PairTypeOK, Consuming
<1>5. FreshOK'
  BY <1>3 DEF FreshOK
<1>6. DeadOK'
  BY <1>1, <1>3, <1>4 DEF OnceInv, DeadOK, Dead
<1>7. RedeemedOnce'
  BY <1>1 DEF OnceInv, RedeemedOnce
<1> QED
  BY <1>1, <1>3, <1>4, <1>5, <1>6, <1>7 DEF OnceInv

LEMMA ConsumeOnce ==
  ASSUME PairAssumption, OneShell, PairInv, OnceInv, NEW p \in Procs, Consume(p)
  PROVE  OnceInv'
<1> USE DEF tokenFiles, ledgerFiles, wire, tokens, marks
<1> DEFINE a == [token |-> job[p].token, device |-> job[p].device, call |-> job[p].call]
<1>1. /\ PairTypeOK /\ RedeemsOK /\ job[p].pc = "marked"
      /\ accepted' = accepted \cup {a} /\ UNCHANGED issued
      /\ job' = [job EXCEPT ![p].pc = "record"]
  BY DEF PairInv, Consume
<1>2. Consuming(p) /\ p \in Shells /\ Home(p) = "root" /\ a.token \in 1 .. issued
  BY <1>1 DEF OnceInv, Consuming, Home, PairAssumption, RedeemsOK, Genuine
<1>3. \A q \in Procs : ~Consuming(q)'
  <2>1. ASSUME NEW q \in Procs, q # p PROVE ~Consuming(q)
    BY <1>2, <2>1 DEF OnceInv, OneShell
  <2>2. job'[p].pc = "record" /\ \A q \in Procs : q # p => job'[q] = job[q]
    BY <1>1 DEF PairTypeOK
  <2> QED
    BY <2>1, <2>2 DEF Consuming
<1>4. /\ pending'["root"] = pendingTmp["root"] /\ pendingTmp'["root"] = NoFile
      /\ pending'["identity"] = pending["identity"]
      /\ pendingTmp'["identity"] = pendingTmp["identity"]
  BY <1>1, <1>2 DEF Consume, PairTypeOK, Dirs
<1>5. Dead(pendingTmp["root"], a.token)
  BY <1>2 DEF OnceInv, FreshOK, Dead
<1>6. FreshOK'
  BY <1>4 DEF FreshOK
<1>7. DeadOK'
  <2> HIDE DEF a
  <2>1. ASSUME NEW b \in accepted'
        PROVE  b.token \in 1 .. issued /\ Dead(pendingTmp["root"], b.token)
    BY <1>1, <1>2, <1>5, <2>1 DEF OnceInv, DeadOK
  <2> QED
    BY <1>1, <1>3, <1>4, <2>1 DEF DeadOK, Dead
<1>8. RedeemedOnce'
  <2>1. \A b \in accepted : b.token # a.token
    BY <1>2 DEF OnceInv, DeadOK
  <2> HIDE DEF a
  <2> QED
    BY <1>1, <2>1 DEF OnceInv, RedeemedOnce
<1> QED
  BY <1>3, <1>4, <1>6, <1>7, <1>8 DEF OnceInv

LEMMA OthersOnce ==
  ASSUME PairAssumption, PairInv, OnceInv, NEW p \in Procs,
         \/ Kill(p) \/ IssueFails(p) \/ WriteBundle(p)
         \/ ConsumeFails(p) \/ RecordFails(p) \/ Decline(p)
         \/ LoadLedger(p) \/ SaveLedger(p) \/ RenameLedger(p)
         \/ \E d \in Drives : ReadBundle(p, d)
         \/ Confirm(p) \/ AddDevice(p)
  PROVE  OnceInv'
<1> USE DEF tokenFiles, ledgerFiles, wire, tokens, marks
<1>1. PairTypeOK /\ RedeemsOK
  BY DEF PairInv
<1>2. UNCHANGED <<pending, pendingTmp, issued, accepted>>
  BY DEF Kill, IssueFails, WriteBundle, ConsumeFails, RecordFails, Decline, LoadLedger,
         SaveLedger, RenameLedger, ReadBundle, Confirm, AddDevice
<1>3. \A q \in Procs : Consuming(q)' => Consuming(q) /\ job'[q].token = job[q].token
  <2>1. CASE job' = [job EXCEPT ![p] = NoJob] \/ UNCHANGED job
    <3>1. \A q \in Procs : job'[q] = job[q] \/ job'[q].pc = "idle"
      BY <1>1, <2>1 DEF PairTypeOK, NoJob
    <3> QED
      BY <3>1 DEF Consuming
  <2>2. CASE Finish(p) /\ job[p].device \in Devices
    BY <1>1, <2>2, FinishJob DEF Consuming, NoJob
  <2>3. CASE job' = [job EXCEPT ![p].pc = "loaded", ![p].paired = Extended(p)]
    BY <1>1, <2>3 DEF PairTypeOK, Consuming
  <2>4. CASE \E x \in {"saved", "record"} : job' = [job EXCEPT ![p].pc = x]
    BY <1>1, <2>4 DEF PairTypeOK, Consuming
  <2>5. ASSUME NEW d \in Drives, ReadBundle(p, d)
        PROVE  \A q \in Procs : Consuming(q)' => Consuming(q) /\ job'[q].token = job[q].token
    BY <1>1, <2>5 DEF ReadBundle, PairTypeOK, Consuming, NoJob
  <2>6. job[p].pc # "idle" => job[p].device \in Devices
    BY <1>1 DEF RedeemsOK
  <2> QED
    BY <2>1, <2>2, <2>3, <2>4, <2>5, <2>6
       DEF Kill, IssueFails, WriteBundle, ConsumeFails, RecordFails, Decline, LoadLedger,
           SaveLedger, RenameLedger, Confirm, AddDevice
<1> QED
  BY <1>2, <1>3, ElsewhereOnce

LEMMA OnceNext ==
  ASSUME PairAssumption, OneShell, PairInv, OnceInv, [Next]_vars PROVE OnceInv'
<1>1. CASE \/ Tick \/ Lose
           \/ \E p \in Shells : Open(p)
           \/ \E d \in Devices : (\E t \in published : Flash(d, t)) \/ Interrupt(d)
           \/ \E m \in replies : Answer(m)
           \/ UNCHANGED vars
  <2>1. UNCHANGED <<pending, pendingTmp, issued, accepted, job>>
    BY <1>1 DEF Tick, Lose, Open, Flash, Interrupt, Answer, vars, tokenFiles,
                ledgerFiles, wire, tokens, marks
  <2> QED
    BY <2>1, ElsewhereOnce DEF Consuming
<1>2. ASSUME NEW p \in Procs,
             \/ \E ttl \in Ttls : IssueWrite(p, ttl)
             \/ IssueWrite(p, DefaultTtl)
             \/ IssueRename(p)
      PROVE  OnceInv'
  BY <1>2, IssueOnce DEF PairAssumption
<1>3. ASSUME NEW p \in Procs, NEW m \in redeems, TakeRedeem(p, m) PROVE OnceInv'
  <2>1. p \in Handlers
    BY <1>3 DEF TakeRedeem, PairInv, PairTypeOK
  <2> QED
    BY <1>3, <2>1, TakeRedeemOnce
<1>4. ASSUME NEW p \in Procs, MarkUsed(p) \/ Consume(p) PROVE OnceInv'
  BY <1>4, MarkUsedOnce, ConsumeOnce
<1>5. ASSUME NEW p \in Procs,
             \/ Kill(p) \/ IssueFails(p) \/ WriteBundle(p)
             \/ ConsumeFails(p) \/ RecordFails(p) \/ Decline(p)
             \/ LoadLedger(p) \/ SaveLedger(p) \/ RenameLedger(p)
             \/ \E d \in Drives : ReadBundle(p, d)
             \/ Confirm(p) \/ AddDevice(p)
      PROVE  OnceInv'
  BY <1>5, OthersOnce
<1> QED
  BY <1>1, <1>2, <1>3, <1>4, <1>5 DEF Next

\* With one shell, whatever authors, adoptions and daemons run beside it, "after
\* one redemption the token is dead" (consume_token), across kills and failed
\* writes between its steps.
THEOREM TokenRedeemedOnce ==
  ASSUME OneShell PROVE PairSpec => []RedeemedOnce
<1>1. PairInit => OnceInv
  BY DEF PairInit, OnceInv, FreshOK, DeadOK, RedeemedOnce, Consuming, NoJob, Dirs
<1>2. PairInv /\ OnceInv /\ [Next]_vars => OnceInv'
  BY OnceNext, PairAssumption, OneShell
<1>3. OnceInv => RedeemedOnce
  BY DEF OnceInv
<1> QED
  BY <1>1, <1>2, <1>3, PairInvariance, PTL DEF PairSpec

(***************************************************************************)
(* Who was told "paired" stays in the allow-list                           *)
(***************************************************************************)
\* `neonet pair` reads the pair.json of another directory than the one tokens
\* are issued in, and so redeems nothing: all jobs rewrite the files of
\* NEONET_HOME.
AtRoot ==
  /\ pending["identity"] = NoFile /\ pendingTmp["identity"] = NoFile
  /\ \A p \in Procs : job[p].pc # "idle" => Home(p) = "root"

LEMMA AtRootNext ==
  ASSUME PairAssumption, PairInv, AtRoot, [Next]_vars PROVE AtRoot'
<1> USE DEF tokenFiles, ledgerFiles, wire, tokens, marks
<1> DEFINE Goal == AtRoot'
<1>1. PairTypeOK
  BY DEF PairInv
<1>2. ASSUME UNCHANGED <<pending, pendingTmp, job>> PROVE Goal
  BY <1>2 DEF AtRoot
<1>3. ASSUME NEW p \in Procs, Home(p) = "root",
             \A q \in Procs : q # p => job'[q] = job[q],
             pending'["identity"] = pending["identity"],
             pendingTmp'["identity"] = pendingTmp["identity"]
      PROVE  Goal
  BY <1>3 DEF AtRoot
<1> HIDE DEF Goal
<1>4. CASE \/ Tick \/ Lose
           \/ \E p \in Shells : Open(p)
           \/ \E d \in Devices : (\E t \in published : Flash(d, t)) \/ Interrupt(d)
           \/ \E m \in replies : Answer(m)
           \/ UNCHANGED vars
  <2>1. UNCHANGED <<pending, pendingTmp, job>>
    BY <1>4 DEF Tick, Lose, Open, Flash, Interrupt, Answer, vars
  <2> QED
    BY <1>2, <2>1 DEF Goal
<1>5. ASSUME NEW p \in Procs,
             \/ \E ttl : IssueWrite(p, ttl)
             \/ IssueRename(p) \/ IssueFails(p) \/ WriteBundle(p)
      PROVE  Goal
  <2>1. /\ UNCHANGED job
        /\ pending'["identity"] = pending["identity"]
        /\ pendingTmp'["identity"] = pendingTmp["identity"]
    BY <1>1, <1>5 DEF IssueWrite, IssueRename, IssueFails, WriteBundle, PairTypeOK, Dirs
  <2> QED
    BY <2>1 DEF AtRoot, Goal
<1>6. ASSUME NEW p \in Procs, Kill(p) PROVE Goal
  <2>1. /\ UNCHANGED <<pending, pendingTmp>>
        /\ \A q \in Procs : job'[q] = job[q] \/ job'[q].pc = "idle"
    BY <1>1, <1>6 DEF Kill, PairTypeOK, NoJob
  <2> QED
    BY <2>1 DEF AtRoot, Goal
<1>7. ASSUME NEW p \in Procs, NEW m \in redeems, TakeRedeem(p, m) PROVE Goal
  <2>1. UNCHANGED <<pending, pendingTmp>>
    BY <1>7 DEF TakeRedeem
  <2>2. CASE Redeemable(pending[Home(p)], m.token)
    <3>1. Home(p) = "root"
      BY <2>2 DEF Redeemable, AtRoot, Home
    <3>2. \A q \in Procs : q # p => job'[q] = job[q]
      BY <1>1, <1>7, <2>2 DEF TakeRedeem, PairTypeOK
    <3> QED
      BY <1>3, <2>1, <3>1, <3>2
  <2>3. CASE ~Redeemable(pending[Home(p)], m.token)
    BY <1>2, <1>7, <2>1, <2>3 DEF TakeRedeem
  <2> QED
    BY <2>2, <2>3
<1>8. ASSUME NEW p \in Procs,
             \/ MarkUsed(p) \/ Consume(p) \/ ConsumeFails(p)
             \/ LoadLedger(p) \/ SaveLedger(p) \/ RenameLedger(p) \/ RecordFails(p)
             \/ Confirm(p) \/ Decline(p) \/ AddDevice(p)
      PROVE  Goal
  <2>1. job[p].pc # "idle"
    BY <1>8 DEF MarkUsed, Consume, ConsumeFails, LoadLedger, SaveLedger, RenameLedger,
                RecordFails, Confirm, Decline, AddDevice
  <2>2. Home(p) = "root"
    BY <2>1 DEF AtRoot
  <2>3. /\ pending'["identity"] = pending["identity"]
        /\ pendingTmp'["identity"] = pendingTmp["identity"]
    BY <1>1, <1>8, <2>2 DEF MarkUsed, Consume, ConsumeFails, LoadLedger, SaveLedger,
         RenameLedger, RecordFails, Confirm, Decline, AddDevice, PairTypeOK, Dirs
  <2>4. \E j : job' = [job EXCEPT ![p] = j]
    BY <1>8 DEF MarkUsed, Consume, ConsumeFails, LoadLedger, SaveLedger,
         RenameLedger, RecordFails, Confirm, Decline, AddDevice, Finish
  <2>5. \A q \in Procs : q # p => job'[q] = job[q]
    BY <1>1, <2>4 DEF PairTypeOK
  <2> QED
    BY <1>3, <2>2, <2>3, <2>5
<1>9. ASSUME NEW p \in Procs, NEW d \in Drives, ReadBundle(p, d) PROVE Goal
  <2>1. Home(p) = "root"
    BY <1>9 DEF ReadBundle, Home, PairAssumption, Handlers
  <2>2. /\ UNCHANGED <<pending, pendingTmp>>
        /\ \A q \in Procs : q # p => job'[q] = job[q]
    BY <1>1, <1>9 DEF ReadBundle, PairTypeOK
  <2> QED
    BY <1>3, <2>1, <2>2
<1> QED
  BY <1>4, <1>5, <1>6, <1>7, <1>8, <1>9 DEF Next, Goal

\* Told, or listed, or about to be listed.
Settled(d) ==
  \/ call[d].status = "paired"
  \/ \E m \in replies : m.to = d /\ m.outcome = "paired"
  \/ known[d] = "flashed"
  \/ \E p \in Procs : job[p].pc = "paired" /\ job[p].device = d

Kept == AllowList \cup disturbed

\* A list that may replace the ledger on behalf of a device.
Renews(list, d) ==
  /\ d \in list \cup disturbed
  /\ AllowList \subseteq list \cup disturbed
  /\ list \subseteq Kept \cup {d}

SettledOK == \A d \in Devices : Settled(d) => d \in Kept

CopiesOK == \A p \in Procs : Recording(p) => Renews(job[p].paired, job[p].device)

SavedOK ==
  \A p \in Procs : job[p].pc = "saved" =>
    \A list \in ledgerTmp["root"] : Renews(list, job[p].device)

AloneOK ==
  \A p, q \in Procs : Recording(p) /\ Recording(q) /\ p # q =>
    job[p].device \in disturbed /\ job[q].device \in disturbed

RecordedInv == SettledOK /\ CopiesOK /\ SavedOK /\ AloneOK

\* Steps that leave the ledger alone and start no recording.
LEMMA QuietRecorded ==
  ASSUME RecordedInv, UNCHANGED <<ledger, ledgerTmp>>, disturbed \subseteq disturbed',
         \A d \in Devices : Settled(d)' => Settled(d) \/ d \in Kept,
         \A q \in Procs : Recording(q)' => job'[q] = job[q]
  PROVE  RecordedInv'
<1>1. Kept \subseteq Kept' /\ UNCHANGED AllowList
  BY DEF Kept, AllowList
<1>2. \A list, d : Renews(list, d) => Renews(list, d)'
  BY <1>1 DEF Renews
<1>3. SettledOK'
  BY <1>1 DEF RecordedInv, SettledOK
<1>4. \A q \in Procs : Recording(q)' => Recording(q)
  BY DEF Recording
<1>5. ASSUME NEW q \in Procs, Recording(q)'
      PROVE  Renews(job[q].paired, job[q].device)'
  <2>1. job'[q] = job[q] /\ Renews(job[q].paired, job[q].device)
    BY <1>4, <1>5 DEF RecordedInv, CopiesOK
  <2>2. \A list, d : list = job'[q].paired /\ d = job'[q].device => Renews(list, d)'
    BY <1>2, <2>1
  <2> QED
    BY <2>2 DEF Renews
<1>6. CopiesOK'
  BY <1>5 DEF CopiesOK
<1>7. ASSUME NEW q \in Procs, job'[q].pc = "saved", NEW list \in ledgerTmp'["root"]
      PROVE  Renews(list, job[q].device)'
  <2>1. Recording(q)' /\ job'[q] = job[q]
    BY <1>7 DEF Recording
  <2>2. Renews(list, job[q].device)
    BY <1>7, <2>1 DEF RecordedInv, SavedOK
  <2>3. \A d : d = job'[q].device => Renews(list, d)'
    BY <1>2, <2>1, <2>2
  <2> QED
    BY <2>3 DEF Renews
<1>8. SavedOK'
  BY <1>7 DEF SavedOK
<1>9. AloneOK'
  BY <1>4 DEF RecordedInv, AloneOK
<1> QED
  BY <1>3, <1>6, <1>8, <1>9 DEF RecordedInv

\* Finish tells the device or leaves it to be listed.
LEMMA FinishSettles ==
  ASSUME PairTypeOK, NEW p \in Procs, Finish(p), UNCHANGED <<call, known>>
  PROVE  /\ \A d \in Devices : Settled(d)' => Settled(d) \/ d = job[p].device
         /\ \A q \in Procs : Recording(q)' => q # p /\ job'[q] = job[q]
<1>1. job \in [Procs -> JobType]
  BY DEF PairTypeOK, JobType
<1>2. CASE p \in Adopters
  <2>1. UNCHANGED replies /\ job' = [job EXCEPT ![p].pc = "paired"]
    BY <1>2 DEF Finish
  <2>2. /\ job'[p].pc = "paired" /\ job'[p].device = job[p].device
        /\ \A q \in Procs : q # p => job'[q] = job[q]
    BY <1>1, <2>1 DEF JobType
  <2> QED
    BY <2>1, <2>2 DEF Settled, Recording
<1>3. CASE p \notin Adopters
  <2>1. /\ replies' = replies \cup {Reply(job[p], "paired")}
        /\ job' = [job EXCEPT ![p] = NoJob]
    BY <1>3 DEF Finish
  <2>2. /\ job'[p].pc = "idle"
        /\ \A q \in Procs : q # p => job'[q] = job[q]
    BY <1>1, <2>1 DEF NoJob
  <2>3. \A m \in replies' : m \in replies \/ m.to = job[p].device
    BY <2>1 DEF Reply
  <2> QED
    BY <2>2, <2>3 DEF Settled, Recording
<1> QED
  BY <1>2, <1>3

LEMMA LoadLedgerRecorded ==
  ASSUME PairAssumption, PairInv, AtRoot, RecordedInv, NEW p \in Procs, LoadLedger(p)
  PROVE  RecordedInv'
<1> USE DEF tokenFiles, ledgerFiles, wire, tokens, marks
<1>1. /\ PairTypeOK /\ job \in [Procs -> JobType] /\ job[p].pc = "record"
      /\ job[p].device \in Devices
      /\ Home(p) = "root" /\ UNCHANGED <<ledger, ledgerTmp, call, known>>
  BY DEF PairInv, PairTypeOK, JobType, RedeemsOK, AtRoot, LoadLedger
<1>2. CASE /\ job[p].device \in ledger[Home(p)] /\ Finish(p)
           /\ UNCHANGED disturbed
  <2>1. job[p].device \in Kept
    BY <1>1, <1>2 DEF Kept, AllowList
  <2> QED
    BY <1>1, <1>2, <2>1, FinishSettles, QuietRecorded
<1>3. ASSUME job[p].device \notin ledger[Home(p)],
             job' = [job EXCEPT ![p].pc = "loaded", ![p].paired = Extended(p)],
             disturbed' = disturbed \cup
               {d \in Devices : \E q \in {r \in Procs : Recording(r) /\ Home(r) = Home(p)} :
                                  d \in {job[p].device, job[q].device}},
             UNCHANGED replies
      PROVE  RecordedInv'
  <2>1. /\ job'[p].pc = "loaded" /\ job'[p].device = job[p].device
        /\ job'[p].paired = AllowList \cup {job[p].device}
        /\ \A q \in Procs : q # p => job'[q] = job[q]
    BY <1>1, <1>3 DEF JobType, Extended, AllowList
  <2>2. disturbed \subseteq disturbed' /\ UNCHANGED AllowList /\ Kept \subseteq Kept'
    BY <1>1, <1>3 DEF AllowList, Kept
  <2>3. \A list, d : Renews(list, d) => Renews(list, d)'
    BY <2>2 DEF Renews
  <2>4. ASSUME NEW q \in Procs, q # p, Recording(q)
        PROVE  job[p].device \in disturbed' /\ job[q].device \in disturbed'
    <3>1. Home(q) = Home(p) /\ job[q].device \in Devices
      BY <1>1, <2>4 DEF AtRoot, Recording, PairInv, RedeemsOK
    <3> QED
      BY <1>1, <1>3, <2>4, <3>1
  <2>5. SettledOK'
    <3>1. \A d \in Devices : Settled(d)' => Settled(d)
      BY <1>1, <1>3, <2>1 DEF Settled
    <3> QED
      BY <2>2, <3>1 DEF RecordedInv, SettledOK
  <2>6. ASSUME NEW q \in Procs, Recording(q)'
        PROVE  Renews(job[q].paired, job[q].device)'
    <3>1. CASE q = p
      BY <2>1, <2>2, <3>1 DEF Renews, Kept
    <3>2. CASE q # p
      <4>1. job'[q] = job[q] /\ Recording(q)
        BY <2>1, <2>6, <3>2 DEF Recording
      <4>2. Renews(job[q].paired, job[q].device)
        BY <4>1 DEF RecordedInv, CopiesOK
      <4>3. \A list, d : list = job'[q].paired /\ d = job'[q].device => Renews(list, d)'
        BY <2>3, <4>1, <4>2
      <4> QED
        BY <4>3 DEF Renews
    <3> QED
      BY <3>1, <3>2
  <2>7. ASSUME NEW q \in Procs, job'[q].pc = "saved", NEW list \in ledgerTmp'["root"]
        PROVE  Renews(list, job[q].device)'
    <3>1. job'[q] = job[q] /\ list \in ledgerTmp["root"]
      BY <1>1, <2>1, <2>7
    <3>2. Renews(list, job[q].device)
      BY <2>7, <3>1 DEF RecordedInv, SavedOK
    <3>3. \A d : d = job'[q].device => Renews(list, d)'
      BY <2>3, <3>1, <3>2
    <3> QED
      BY <3>3 DEF Renews
  <2>8. AloneOK'
    <3>1. \A q \in Procs : Recording(q)' /\ q # p => Recording(q) /\ job'[q] = job[q]
      BY <2>1 DEF Recording
    <3> QED
      BY <2>1, <2>2, <2>4, <3>1 DEF RecordedInv, AloneOK
  <2> QED
    BY <2>5, <2>6, <2>7, <2>8 DEF RecordedInv, CopiesOK, SavedOK
<1> QED
  BY <1>2, <1>3 DEF LoadLedger

LEMMA SaveLedgerRecorded ==
  ASSUME PairAssumption, PairInv, AtRoot, RecordedInv, NEW p \in Procs, SaveLedger(p)
  PROVE  RecordedInv'
<1> USE DEF tokenFiles, ledgerFiles, wire, tokens, marks
<1>1. /\ PairTypeOK /\ job \in [Procs -> JobType] /\ Recording(p) /\ Home(p) = "root"
      /\ UNCHANGED <<ledger, disturbed, call, known, replies>>
      /\ job' = [job EXCEPT ![p].pc = "saved"]
      /\ ledgerTmp' = [ledgerTmp EXCEPT ![Home(p)] = {job[p].paired}]
  BY DEF PairInv, PairTypeOK, JobType, AtRoot, SaveLedger, Recording
<1>2. /\ ledgerTmp'["root"] = {job[p].paired}
      /\ job'[p].pc = "saved"
      /\ \A q \in Procs : /\ job'[q].device = job[q].device
                          /\ job'[q].paired = job[q].paired
                          /\ Recording(q)' => Recording(q)
                          /\ q # p => job'[q] = job[q]
  BY <1>1 DEF PairTypeOK, JobType, Dirs, Recording
<1>3. \A list, d : Renews(list, d)' <=> Renews(list, d)
  BY <1>1 DEF Renews, Kept, AllowList
<1>4. SettledOK'
  <2>1. \A q \in Procs : job'[q].pc = "paired" => job[q].pc = "paired"
    BY <1>2
  <2>2. \A d \in Devices : Settled(d)' => Settled(d)
    BY <1>1, <1>2, <2>1 DEF Settled
  <2> QED
    BY <1>1, <2>2 DEF RecordedInv, SettledOK, Kept, AllowList
<1>5. ASSUME NEW q \in Procs, Recording(q)' PROVE Renews(job[q].paired, job[q].device)'
  <2>1. Renews(job[q].paired, job[q].device)
    BY <1>2, <1>5 DEF RecordedInv, CopiesOK
  <2>2. \A list, d : list = job'[q].paired /\ d = job'[q].device => Renews(list, d)'
    BY <1>2, <1>3, <2>1
  <2> QED
    BY <2>2 DEF Renews
<1>6. ASSUME NEW q \in Procs, job'[q].pc = "saved" PROVE Renews(job[p].paired, job[q].device)
  <2>1. Recording(q) /\ Recording(p)
    BY <1>1, <1>2, <1>6 DEF Recording
  <2>2. Renews(job[p].paired, job[p].device)
    BY <2>1 DEF RecordedInv, CopiesOK
  <2>3. q # p => job[p].device \in disturbed /\ job[q].device \in disturbed
    BY <2>1 DEF RecordedInv, AloneOK
  <2> QED
    BY <2>2, <2>3 DEF Renews, Kept
<1>7. ASSUME NEW q \in Procs, job'[q].pc = "saved", NEW list \in ledgerTmp'["root"]
      PROVE  Renews(list, job[q].device)'
  <2>1. \A d : d = job'[q].device => Renews(list, d)'
    BY <1>2, <1>3, <1>6, <1>7
  <2> QED
    BY <2>1 DEF Renews
<1>8. AloneOK'
  BY <1>1, <1>2 DEF RecordedInv, AloneOK
<1> QED
  BY <1>4, <1>5, <1>7, <1>8 DEF RecordedInv, CopiesOK, SavedOK

LEMMA RenameLedgerRecorded ==
  ASSUME PairAssumption, PairInv, AtRoot, RecordedInv, NEW p \in Procs, RenameLedger(p)
  PROVE  RecordedInv'
<1> USE DEF tokenFiles, ledgerFiles, wire, tokens, marks
<1>1. /\ PairTypeOK /\ job[p].pc = "saved" /\ Recording(p) /\ Home(p) = "root"
      /\ Finish(p) /\ UNCHANGED <<disturbed, call, known>>
  BY DEF PairInv, AtRoot, RenameLedger, Recording
<1>2. PICK list \in ledgerTmp["root"] :
        /\ ledger' = [ledger EXCEPT !["root"] = list]
        /\ ledgerTmp' = [ledgerTmp EXCEPT !["root"] = {}]
  BY <1>1 DEF RenameLedger
<1>3. AllowList' = list /\ ledgerTmp'["root"] = {}
  BY <1>1, <1>2 DEF PairTypeOK, Dirs, AllowList
<1>4. Renews(list, job[p].device)
  BY <1>1, <1>2 DEF RecordedInv, SavedOK
<1>5. Kept \subseteq Kept' /\ job[p].device \in Kept'
  BY <1>1, <1>3, <1>4 DEF Renews, Kept
<1>6. /\ \A d \in Devices : Settled(d)' => Settled(d) \/ d = job[p].device
      /\ \A q \in Procs : Recording(q)' => q # p /\ job'[q] = job[q] /\ Recording(q)
  BY <1>1, FinishSettles DEF Recording
<1>7. SettledOK'
  BY <1>5, <1>6 DEF RecordedInv, SettledOK
<1>8. ASSUME NEW q \in Procs, Recording(q)' PROVE Renews(job[q].paired, job[q].device)'
  <2>1. job[p].device \in disturbed
    BY <1>1, <1>6, <1>8 DEF RecordedInv, AloneOK
  <2>2. Renews(job[q].paired, job[q].device)
    BY <1>6, <1>8 DEF RecordedInv, CopiesOK
  <2>3. list \subseteq job[q].paired \cup disturbed
    BY <1>4, <2>1, <2>2 DEF Renews, Kept
  <2>4. job[q].paired \subseteq Kept' \cup {job[q].device}
    BY <1>5, <2>2 DEF Renews
  <2>5. \A copy, d : copy = job'[q].paired /\ d = job'[q].device => Renews(copy, d)'
    BY <1>1, <1>3, <1>6, <1>8, <2>2, <2>3, <2>4 DEF Renews
  <2> QED
    BY <2>5 DEF Renews
<1>9. SavedOK'
  BY <1>3 DEF SavedOK
<1>10. AloneOK'
  BY <1>1, <1>6 DEF RecordedInv, AloneOK
<1> QED
  BY <1>7, <1>8, <1>9, <1>10 DEF RecordedInv, CopiesOK

LEMMA JobsRecorded ==
  ASSUME PairAssumption, PairInv, AtRoot, RecordedInv, NEW p \in Procs,
         \/ Kill(p) \/ MarkUsed(p) \/ Consume(p) \/ ConsumeFails(p) \/ RecordFails(p)
         \/ \E m \in redeems : TakeRedeem(p, m)
         \/ \E d \in Drives : ReadBundle(p, d)
         \/ Confirm(p) \/ Decline(p)
  PROVE  RecordedInv'
<1> USE DEF tokenFiles, ledgerFiles, wire, tokens, marks
<1>1. job \in [Procs -> JobType]
  BY DEF PairInv, PairTypeOK, JobType
<1>2. UNCHANGED <<ledger, ledgerTmp, disturbed, call, known>>
  BY DEF Kill, MarkUsed, Consume, ConsumeFails, RecordFails, TakeRedeem, ReadBundle,
         Confirm, Decline
<1>3. \A m \in replies' : m \in replies \/ m.outcome # "paired"
  <2>1. ASSUME NEW m \in redeems, TakeRedeem(p, m)
        PROVE  \A r \in replies' : r \in replies \/ r.outcome # "paired"
    BY <2>1 DEF TakeRedeem, Reply
  <2>2. CASE ConsumeFails(p)
    BY <2>2 DEF ConsumeFails, Reply
  <2> QED
    BY <2>1, <2>2 DEF Kill, MarkUsed, Consume, RecordFails, ReadBundle, Confirm, Decline
<1>4. \/ UNCHANGED job \/ job' = [job EXCEPT ![p] = NoJob]
      \/ \E x \in {"marked", "record"} : job' = [job EXCEPT ![p].pc = x]
      \/ \E j : j.pc \in {"checked", "confirming"} /\ job' = [job EXCEPT ![p] = j]
  <2>1. ASSUME NEW d \in Drives, ReadBundle(p, d)
        PROVE  \E j : j.pc = "confirming" /\ job' = [job EXCEPT ![p] = j]
    <3> DEFINE k == [NoJob EXCEPT !.pc = "confirming", !.device = d]
    <3>1. k.pc = "confirming"
      BY DEF NoJob
    <3>2. job' = [job EXCEPT ![p] = k]
      BY <2>1 DEF ReadBundle
    <3> HIDE DEF k
    <3> QED
      BY <3>1, <3>2
  <2>2. ASSUME NEW m \in redeems, TakeRedeem(p, m)
        PROVE  \/ UNCHANGED job
               \/ \E j : j.pc = "checked" /\ job' = [job EXCEPT ![p] = j]
    BY <2>2 DEF TakeRedeem
  <2>3. CASE \/ Kill(p) \/ MarkUsed(p) \/ Consume(p) \/ ConsumeFails(p) \/ RecordFails(p)
             \/ Confirm(p) \/ Decline(p)
    BY <2>3 DEF Kill, MarkUsed, Consume, ConsumeFails, RecordFails, Confirm, Decline
  <2> QED
    BY <2>1, <2>2, <2>3
<1>5. \A q \in Procs :
        \/ job'[q] = job[q]
        \/ job'[q].pc \in {"idle", "checked", "marked", "record", "confirming"}
  <2>1. CASE \E x \in {"marked", "record"} : job' = [job EXCEPT ![p].pc = x]
    BY <1>1, <2>1 DEF JobType
  <2>2. CASE UNCHANGED job \/ job' = [job EXCEPT ![p] = NoJob]
    BY <1>1, <2>2 DEF NoJob
  <2>3. CASE \E j : j.pc \in {"checked", "confirming"} /\ job' = [job EXCEPT ![p] = j]
    BY <1>1, <2>3
  <2> QED
    BY <1>4, <2>1, <2>2, <2>3
<1>6. \A d \in Devices : Settled(d)' => Settled(d)
  BY <1>2, <1>3, <1>5 DEF Settled
<1>7. \A q \in Procs : Recording(q)' => job'[q] = job[q]
  BY <1>5 DEF Recording
<1> QED
  BY <1>2, <1>6, <1>7, QuietRecorded

LEMMA ElsewhereRecorded ==
  ASSUME PairInv, RecordedInv,
         \/ Tick \/ Lose \/ UNCHANGED vars
         \/ \E p \in Procs : \/ Open(p) \/ \E ttl : IssueWrite(p, ttl)
                             \/ IssueRename(p) \/ IssueFails(p) \/ WriteBundle(p)
         \/ \E d \in Devices : (\E t \in published : Flash(d, t)) \/ Interrupt(d)
         \/ \E m \in replies : Answer(m)
  PROVE  RecordedInv'
<1> USE DEF tokenFiles, ledgerFiles, wire, tokens, marks
<1>1. UNCHANGED <<ledger, ledgerTmp, disturbed, known, job>> /\ replies' \subseteq replies
  BY DEF Tick, Lose, vars, Open, IssueWrite, IssueRename, IssueFails, WriteBundle, Flash,
         Interrupt, Answer
<1>2. call \in [Devices -> Phases]
  BY DEF PairInv, PairTypeOK, Phases
<1>3. \A d \in Devices : call'[d].status = "paired" => Settled(d)
  <2>1. CASE UNCHANGED call
    BY <2>1 DEF Settled
  <2>2. ASSUME NEW d \in Devices, (\E t \in published : Flash(d, t)) \/ Interrupt(d)
        PROVE  \A e \in Devices : call'[e] = call[e] \/ call'[e].status # "paired"
    BY <1>2, <2>2 DEF Flash, Interrupt, Phases
  <2>3. ASSUME NEW m \in replies, Answer(m), ~UNCHANGED call
        PROVE  \A d \in Devices : call'[d].status = "paired" => Settled(d)
    <3>1. m.to \in Devices /\ call' = [call EXCEPT ![m.to].status = m.outcome]
      BY <2>3 DEF Answer, PairInv, PairTypeOK
    <3>2. \A d \in Devices : call'[d] = call[d] \/ (d = m.to /\ call'[d].status = m.outcome)
      BY <1>2, <3>1 DEF Phases
    <3> QED
      BY <2>3, <3>2 DEF Settled
  <2> QED
    BY <2>1, <2>2, <2>3 DEF Settled, Tick, Lose, vars, Open, IssueWrite, IssueRename,
         IssueFails, WriteBundle
<1>4. \A d \in Devices : Settled(d)' => Settled(d)
  BY <1>1, <1>3 DEF Settled
<1> QED
  BY <1>1, <1>4, QuietRecorded

LEMMA AddDeviceRecorded ==
  ASSUME PairInv, RecordedInv, NEW p \in Procs, AddDevice(p)
  PROVE  RecordedInv'
<1> USE DEF tokenFiles, ledgerFiles, wire, tokens, marks
<1>1. /\ UNCHANGED <<ledger, ledgerTmp, disturbed, call, replies>>
      /\ job[p].pc = "paired"
      /\ \A q \in Procs : job'[q] = job[q] \/ job'[q].pc = "idle"
  BY DEF AddDevice, PairInv, PairTypeOK, NoJob
<1>2. \A d \in Devices : known'[d] = "flashed" => d = job[p].device
  BY DEF AddDevice, PairInv, PairTypeOK
<1>3. \A d \in Devices : Settled(d)' => Settled(d)
  BY <1>1, <1>2 DEF Settled
<1>4. \A q \in Procs : Recording(q)' => job'[q] = job[q]
  BY <1>1 DEF Recording
<1> QED
  BY <1>1, <1>3, <1>4, QuietRecorded

LEMMA RecordedNext ==
  ASSUME PairAssumption, PairInv, AtRoot, RecordedInv, [Next]_vars PROVE RecordedInv'
<1>1. CASE \/ Tick \/ Lose \/ UNCHANGED vars
           \/ \E p \in Procs : \/ p \in Shells /\ Open(p)
                               \/ \E ttl \in Ttls : IssueWrite(p, ttl)
                               \/ IssueWrite(p, DefaultTtl)
                               \/ IssueRename(p) \/ IssueFails(p) \/ WriteBundle(p)
           \/ \E d \in Devices : (\E t \in published : Flash(d, t)) \/ Interrupt(d)
           \/ \E m \in replies : Answer(m)
  BY <1>1, ElsewhereRecorded
<1>2. ASSUME NEW p \in Procs,
             \/ Kill(p) \/ MarkUsed(p) \/ Consume(p) \/ ConsumeFails(p) \/ RecordFails(p)
             \/ \E m \in redeems : TakeRedeem(p, m)
             \/ \E d \in Drives : ReadBundle(p, d)
             \/ Confirm(p) \/ Decline(p)
      PROVE  RecordedInv'
  BY <1>2, JobsRecorded
<1>3. ASSUME NEW p \in Procs,
             LoadLedger(p) \/ SaveLedger(p) \/ RenameLedger(p) \/ AddDevice(p)
      PROVE  RecordedInv'
  BY <1>3, LoadLedgerRecorded, SaveLedgerRecorded, RenameLedgerRecorded, AddDeviceRecorded
<1> QED
  BY <1>1, <1>2, <1>3 DEF Next

\* A device that was told "paired", or that adopt listed, is in the ledger the
\* operator's allow-list is made of, for any number of shells, commands and
\* adoptions: record_pairing loses nobody but devices whose recording met
\* another one between its read and its rename.
THEOREM PairedStaysRecorded == PairSpec => []PairedIsRecorded
<1>1. PairInit => AtRoot /\ RecordedInv
  BY DEF PairInit, AtRoot, RecordedInv, SettledOK, CopiesOK, SavedOK, AloneOK, Settled,
         Recording, NoJob, Dirs
<1>2. PairInv /\ AtRoot /\ RecordedInv /\ [Next]_vars => AtRoot' /\ RecordedInv'
  BY AtRootNext, RecordedNext, PairAssumption
<1>3. RecordedInv => PairedIsRecorded
  BY DEF RecordedInv, SettledOK, Settled, Kept, PairedIsRecorded, Acknowledged
<1> QED
  BY <1>1, <1>2, <1>3, PairInvariance, PTL DEF PairSpec

(***************************************************************************)
(* A token is refused for a cause                                          *)
(***************************************************************************)
\* Nothing crossed the issue of the last token, and nobody used it up.
Live ==
  /\ issued \in Tokens /\ issued \notin overlapped
  /\ \A a \in accepted : a.token # issued

Writing(p) == issue[p].pc = "written" /\ issue[p].token = issued

\* Renamed to pair.json: shown, or about to be written to a drive.
Out ==
  \/ issued \in published
  \/ \E p \in Procs : issue[p].pc = "bundle" /\ issue[p].token = issued

Latest(f) == f # NoFile /\ f.token = issued /\ ~f.used

ShownOK ==
  /\ published \subseteq 1 .. issued
  /\ \A m \in redeems : m.token \in published

\* Before the rename, the temporary file can only hold the last token ...
BeforeOut ==
  Live => \A p \in Procs : Writing(p) =>
            /\ pendingTmp["root"] # NoFile => Latest(pendingTmp["root"])
            /\ \A q \in Procs : ~Consuming(q)

\* ... and after it pair.json does, until a redemption renames its own copy.
OnceOut ==
  Live /\ Out =>
    /\ Latest(pending["root"])
    /\ \A p \in Procs : Consuming(p) => job[p].token = issued /\ Issuing = {}
    /\ Issuing # {} => pendingTmp["root"] = NoFile

HeldInv == ShownOK /\ BeforeOut /\ OnceOut

\* Steps that leave pair.json alone, begin nothing and show nothing new.
LEMMA ElsewhereHeld ==
  ASSUME HeldInv, UNCHANGED <<pending, pendingTmp, issued>>,
         overlapped \subseteq overlapped', accepted \subseteq accepted',
         \A q \in Procs : Consuming(q)' => Consuming(q) /\ job'[q].token = job[q].token,
         \A q \in Procs : issue'[q].pc = "written" => issue'[q] = issue[q],
         published' \subseteq 1 .. issued, Out' => Out,
         \A m \in redeems' : m.token \in published'
  PROVE  HeldInv'
<1>1. Live' => Live
  BY DEF Live
<1>2. Issuing' \subseteq Issuing
  BY DEF Issuing
<1>3. \A q \in Procs : Writing(q)' => Writing(q)
  BY DEF Writing
<1>4. ShownOK'
  BY DEF ShownOK
<1>5. BeforeOut'
  BY <1>1, <1>3 DEF HeldInv, BeforeOut, Latest
<1>6. OnceOut'
  BY <1>1, <1>2 DEF HeldInv, OnceOut, Latest
<1> QED
  BY <1>4, <1>5, <1>6 DEF HeldInv

LEMMA IssueWriteHeld ==
  ASSUME PairAssumption, PairInv, HeldInv, AtRoot, NEW p \in Procs, NEW ttl \in Nat,
         IssueWrite(p, ttl)
  PROVE  HeldInv'
<1> USE DEF tokenFiles, ledgerFiles, wire, tokens, marks
<1>1. /\ PairTypeOK /\ IssuesOK /\ issued \in Nat
      /\ issued' = issued + 1 /\ UNCHANGED <<published, redeems, job, accepted>>
      /\ issue' = [issue EXCEPT ![p] = [pc |-> "written", token |-> issued']]
      /\ overlapped' = overlapped \cup Crossed(issued')
  BY DEF PairInv, PairTypeOK, IssueWrite, PairAssumption
<1>2. Latest(pendingTmp["root"])'
  <2> DEFINE f == [token |-> issued', expires_at |-> now + Ttl(ttl), used |-> FALSE]
  <2>1. pendingTmp'["root"] = f
    BY <1>1 DEF IssueWrite, PairTypeOK, Dirs
  <2>2. f \in Pendings
    <3>1. PICK e : e = now + Ttl(ttl)
      OBVIOUS
    <3>2. e \in 1 .. MaxTime + MaxTtl
      <4>1. /\ now \in 0 .. MaxTime /\ Ttl(ttl) \in 1 .. MaxTtl
            /\ MaxTime \in Nat /\ MaxTtl \in Nat
        BY <1>1, TtlBounded DEF PairTypeOK, PairAssumption
      <4> QED
        BY <3>1, <4>1
    <3>3. issued' \in Tokens
      BY <1>1 DEF IssueWrite, Tokens, PairAssumption
    <3> QED
      BY <3>1, <3>2, <3>3 DEF Pendings
  <2>3. f # NoFile
    BY <2>2 DEF PairAssumption
  <2> QED
    BY <2>1, <2>3 DEF Latest
<1>3. Live' => \A q \in Procs : ~Consuming(q)
  <2>1. ASSUME NEW q \in Procs, Consuming(q) PROVE issued' \in overlapped'
    <3>1. Redeeming(q)
      BY <2>1 DEF Consuming, Redeeming, AtRoot
    <3> QED
      BY <1>1, <3>1 DEF Crossed
  <2> QED
    BY <2>1 DEF Live
<1>4. ~Out'
  <2>1. issued + 1 \notin published
    BY <1>1 DEF HeldInv, ShownOK
  <2>2. \A q \in Procs : issue'[q].pc = "bundle" => issue'[q].token \in 1 .. issued
    <3>1. /\ issue'[p].pc = "written"
          /\ \A q \in Procs : q # p => issue'[q] = issue[q]
      BY <1>1 DEF PairTypeOK
    <3> QED
      BY <1>1, <3>1 DEF IssuesOK
  <2> QED
    BY <1>1, <2>1, <2>2 DEF Out
<1>5. ShownOK'
  BY <1>1 DEF HeldInv, ShownOK
<1>6. BeforeOut'
  BY <1>1, <1>2, <1>3 DEF BeforeOut, Consuming
<1>7. OnceOut'
  BY <1>4 DEF OnceOut
<1> QED
  BY <1>5, <1>6, <1>7 DEF HeldInv

LEMMA IssueRenameHeld ==
  ASSUME PairAssumption, PairInv, HeldInv, NEW p \in Procs, IssueRename(p)
  PROVE  HeldInv'
<1> USE DEF tokenFiles, ledgerFiles, wire, tokens, marks
<1>1. /\ PairTypeOK /\ issue[p].pc = "written" /\ pendingTmp["root"] # NoFile
      /\ issue[p].token \in 1 .. issued
      /\ UNCHANGED <<issued, redeems, job, accepted, overlapped>>
      /\ published' = published \cup {t \in {issue[p].token} : p \notin Authors}
  BY DEF PairInv, IssuesOK, IssueRename
<1>2. pending'["root"] = pendingTmp["root"] /\ pendingTmp'["root"] = NoFile
  BY <1>1 DEF IssueRename, PairTypeOK, Dirs
<1>3. /\ issue'[p].pc \in {"idle", "bundle"}
      /\ issue'[p].pc = "bundle" => issue'[p].token = issue[p].token
      /\ \A q \in Procs : q # p => issue'[q] = issue[q]
  <2>1. \/ issue' = [issue EXCEPT ![p] = [issue[p] EXCEPT !.pc = "bundle"]]
        \/ issue' = [issue EXCEPT ![p] = NoIssue]
    BY DEF IssueRename
  <2> QED
    BY <1>1, <2>1 DEF PairTypeOK, NoIssue
<1>4. Live' <=> Live
  BY <1>1 DEF Live
<1>5. ShownOK'
  BY <1>1 DEF HeldInv, ShownOK
<1>6. BeforeOut'
  <2>1. \A q \in Procs : Writing(q)' => Writing(q)
    BY <1>1, <1>3 DEF Writing
  <2> QED
    BY <1>1, <1>2, <1>4, <2>1 DEF HeldInv, BeforeOut, Consuming
<1>7. CASE issue[p].token = issued
  <2>1. Live => Latest(pendingTmp["root"]) /\ \A q \in Procs : ~Consuming(q)
    BY <1>1, <1>7 DEF HeldInv, BeforeOut, Writing
  <2>2. OnceOut'
    BY <1>1, <1>2, <1>4, <2>1 DEF OnceOut, Latest, Consuming
  <2> QED
    BY <1>5, <1>6, <2>2 DEF HeldInv
<1>8. CASE issue[p].token # issued
  <2>1. Out' => Out
    BY <1>1, <1>3, <1>8 DEF Out
  <2>2. ~(Live /\ Out)
    <3>1. Issuing # {}
      BY <1>1 DEF Issuing
    <3> QED
      BY <1>1, <3>1 DEF HeldInv, OnceOut
  <2>3. OnceOut'
    BY <1>4, <2>1, <2>2 DEF OnceOut
  <2> QED
    BY <1>5, <1>6, <2>3 DEF HeldInv
<1> QED
  BY <1>7, <1>8

LEMMA TakeRedeemHeld ==
  ASSUME PairAssumption, PairInv, HeldInv, AtRoot, NEW p \in Procs, NEW m \in redeems,
         TakeRedeem(p, m)
  PROVE  HeldInv'
<1> USE DEF tokenFiles, ledgerFiles, wire, tokens, marks
<1> DEFINE f == pending[Home(p)]
<1>1. /\ PairTypeOK /\ job[p].pc = "idle" /\ redeems' = redeems \ {m}
      /\ UNCHANGED <<pending, pendingTmp, issued, issue, published, accepted>>
  BY DEF PairInv, TakeRedeem
<1>2. ShownOK'
  BY <1>1 DEF HeldInv, ShownOK
<1>3. Out' => Out
  BY <1>1 DEF Out
<1>4. CASE UNCHANGED <<job, overlapped>>
  <2>1. \A q \in Procs : Consuming(q)' => Consuming(q) /\ job'[q].token = job[q].token
    BY <1>4 DEF Consuming
  <2> QED
    BY <1>1, <1>2, <1>3, <1>4, <2>1, ElsewhereHeld DEF ShownOK
<1>5. CASE /\ Redeemable(f, m.token)
           /\ job' = [job EXCEPT ![p] = [pc |-> "checked", device |-> m.from,
                        call |-> m.call, token |-> m.token, read |-> f, paired |-> {}]]
           /\ overlapped' = overlapped \cup
                LET issues == {issue[q].token : q \in Issuing} IN
                issues \cup {t \in {m.token} : issues # {}}
  <2>1. f # NoFile /\ f.token = m.token /\ Home(p) = "root"
    BY <1>5 DEF Redeemable, AtRoot, Home
  <2>2. /\ job'[p].token = m.token
        /\ \A q \in Procs : q # p => job'[q] = job[q]
    BY <1>1, <1>5 DEF PairTypeOK
  <2>3. /\ overlapped \subseteq overlapped'
        /\ \A q \in Issuing : issue[q].token \in overlapped'
        /\ Issuing # {} => m.token \in overlapped'
    BY <1>5
  <2>4. Live' => Live
    BY <1>1, <2>3 DEF Live
  <2>5. Live' => \A q \in Procs : ~Writing(q)
    BY <1>1, <2>3 DEF Live, Writing, Issuing
  <2>6. BeforeOut'
    BY <1>1, <2>5 DEF BeforeOut, Writing
  <2>7. Live' /\ Out' => m.token = issued /\ Latest(pending["root"]) /\ Issuing = {}
    BY <1>1, <1>3, <2>1, <2>3, <2>4 DEF HeldInv, OnceOut, Latest, Live
  <2>8. Live' /\ Out' => \A q \in Procs : Consuming(q)' => job'[q].token = issued
    BY <1>3, <2>2, <2>4, <2>7 DEF HeldInv, OnceOut, Consuming
  <2>9. OnceOut'
    BY <1>1, <2>7, <2>8 DEF OnceOut, Latest, Issuing
  <2> QED
    BY <1>2, <2>6, <2>9 DEF HeldInv
<1> QED
  BY <1>1, <1>4, <1>5 DEF TakeRedeem

LEMMA MarkUsedHeld ==
  ASSUME PairAssumption, PairInv, HeldInv, AtRoot, NEW p \in Procs, MarkUsed(p)
  PROVE  HeldInv'
<1> USE DEF tokenFiles, ledgerFiles, wire, tokens, marks
<1>1. /\ PairTypeOK /\ job[p].pc = "checked" /\ Consuming(p)
      /\ job' = [job EXCEPT ![p].pc = "marked"]
      /\ UNCHANGED <<pending, issued, issue, published, redeems, accepted, overlapped>>
  BY DEF PairInv, MarkUsed, Consuming
<1>2. \A q \in Procs : Consuming(q)' => Consuming(q) /\ job'[q].token = job[q].token
  BY <1>1 DEF PairTypeOK, Consuming
<1>3. ShownOK' /\ (Live' <=> Live) /\ (Out' <=> Out) /\ Issuing' = Issuing
  BY <1>1 DEF HeldInv, ShownOK, Live, Out, Issuing
<1>4. Live => \A q \in Procs : ~Writing(q)
  BY <1>1 DEF HeldInv, BeforeOut
<1>5. BeforeOut'
  BY <1>1, <1>3, <1>4 DEF BeforeOut, Writing
<1>6. Live /\ Out => Issuing = {}
  BY <1>1 DEF HeldInv, OnceOut
<1>7. OnceOut'
  BY <1>1, <1>2, <1>3, <1>6 DEF HeldInv, OnceOut, Latest
<1> QED
  BY <1>3, <1>5, <1>7 DEF HeldInv

LEMMA ConsumeHeld ==
  ASSUME PairAssumption, PairInv, HeldInv, AtRoot, NEW p \in Procs, Consume(p)
  PROVE  HeldInv'
<1> USE DEF tokenFiles, ledgerFiles, wire, tokens, marks
<1> DEFINE a == [token |-> job[p].token, device |-> job[p].device, call |-> job[p].call]
<1>1. /\ PairTypeOK /\ job[p].pc = "marked" /\ Consuming(p)
      /\ job' = [job EXCEPT ![p].pc = "record"]
      /\ accepted' = accepted \cup {a}
      /\ UNCHANGED <<issued, issue, published, redeems, overlapped>>
  BY DEF PairInv, Consume, Consuming
<1>2. ShownOK' /\ (Live' => Live) /\ (Out' <=> Out)
  BY <1>1 DEF HeldInv, ShownOK, Live, Out
<1>3. Live => \A q \in Procs : ~Writing(q)
  BY <1>1 DEF HeldInv, BeforeOut
<1>4. BeforeOut'
  BY <1>1, <1>2, <1>3 DEF BeforeOut, Writing
<1>5. ~(Live' /\ Out')
  <2>1. Live /\ Out => a.token = issued
    BY <1>1 DEF HeldInv, OnceOut
  <2> HIDE DEF a
  <2> QED
    BY <1>1, <1>2, <2>1 DEF Live
<1>6. OnceOut'
  BY <1>5 DEF OnceOut
<1> QED
  BY <1>2, <1>4, <1>6 DEF HeldInv

LEMMA OthersHeld ==
  ASSUME PairAssumption, PairInv, HeldInv, NEW p \in Procs,
         \/ Kill(p) \/ IssueFails(p) \/ WriteBundle(p)
         \/ ConsumeFails(p) \/ RecordFails(p) \/ Decline(p)
         \/ LoadLedger(p) \/ SaveLedger(p) \/ RenameLedger(p)
         \/ \E d \in Drives : ReadBundle(p, d)
         \/ Confirm(p) \/ AddDevice(p)
  PROVE  HeldInv'
<1> USE DEF tokenFiles, ledgerFiles, wire, tokens, marks
<1>1. PairTypeOK /\ IssuesOK /\ RedeemsOK
  BY DEF PairInv
<1>2. UNCHANGED <<pending, pendingTmp, issued, overlapped, accepted, redeems>>
  BY DEF Kill, IssueFails, WriteBundle, ConsumeFails, RecordFails, Decline, LoadLedger,
         SaveLedger, RenameLedger, ReadBundle, Confirm, AddDevice
<1>3. \A q \in Procs : Consuming(q)' => Consuming(q) /\ job'[q].token = job[q].token
  <2>1. CASE job' = [job EXCEPT ![p] = NoJob] \/ UNCHANGED job
    <3>1. \A q \in Procs : job'[q] = job[q] \/ job'[q].pc = "idle"
      BY <1>1, <2>1 DEF PairTypeOK, NoJob
    <3> QED
      BY <3>1 DEF Consuming
  <2>2. CASE Finish(p) /\ job[p].device \in Devices
    BY <1>1, <2>2, FinishJob DEF Consuming, NoJob
  <2>3. CASE job' = [job EXCEPT ![p].pc = "loaded", ![p].paired = Extended(p)]
    BY <1>1, <2>3 DEF PairTypeOK, Consuming
  <2>4. CASE \E x \in {"saved", "record"} : job' = [job EXCEPT ![p].pc = x]
    BY <1>1, <2>4 DEF PairTypeOK, Consuming
  <2>5. ASSUME NEW d \in Drives, ReadBundle(p, d)
        PROVE  \A q \in Procs : Consuming(q)' => Consuming(q) /\ job'[q].token = job[q].token
    BY <1>1, <2>5 DEF ReadBundle, PairTypeOK, Consuming, NoJob
  <2>6. job[p].pc # "idle" => job[p].device \in Devices
    BY <1>1 DEF RedeemsOK
  <2> QED
    BY <2>1, <2>2, <2>3, <2>4, <2>5, <2>6
       DEF Kill, IssueFails, WriteBundle, ConsumeFails, RecordFails, Decline, LoadLedger,
           SaveLedger, RenameLedger, Confirm, AddDevice
<1>4. \/ UNCHANGED <<issue, published>>
      \/ issue' = [issue EXCEPT ![p] = NoIssue] /\ UNCHANGED published
      \/ /\ issue' = [issue EXCEPT ![p] = NoIssue] /\ issue[p].pc = "bundle"
         /\ published' = published \cup {issue[p].token}
  BY DEF Kill, IssueFails, WriteBundle, ConsumeFails, RecordFails, Decline, LoadLedger,
         SaveLedger, RenameLedger, ReadBundle, Confirm, AddDevice
<1>5. \A q \in Procs : issue'[q] = issue[q] \/ issue'[q].pc = "idle"
  BY <1>1, <1>4 DEF PairTypeOK, NoIssue
<1>6. /\ published' \subseteq 1 .. issued /\ published \subseteq published'
      /\ Out' => Out
  BY <1>1, <1>2, <1>4, <1>5 DEF HeldInv, ShownOK, IssuesOK, Out
<1>7. \A m \in redeems' : m.token \in published'
  BY <1>2, <1>6 DEF HeldInv, ShownOK
<1> QED
  BY <1>2, <1>3, <1>5, <1>6, <1>7, ElsewhereHeld

LEMMA HeldNext ==
  ASSUME PairAssumption, PairInv, AtRoot, HeldInv, [Next]_vars PROVE HeldInv'
<1>1. CASE \/ Tick \/ Lose
           \/ \E p \in Shells : Open(p)
           \/ \E d \in Devices : (\E t \in published : Flash(d, t)) \/ Interrupt(d)
           \/ \E m \in replies : Answer(m)
           \/ UNCHANGED vars
  <2> USE DEF tokenFiles, ledgerFiles, wire, tokens, marks
  <2>1. UNCHANGED <<pending, pendingTmp, issued, accepted, overlapped, published, issue, job>>
    BY <1>1 DEF Tick, Lose, Open, Flash, Interrupt, Answer, vars
  <2>2. \A m \in redeems' : m \in redeems \/ m.token \in published
    <3>1. ASSUME NEW d \in Devices, NEW t \in published, Flash(d, t)
          PROVE  \A m \in redeems' : m \in redeems \/ m.token \in published
      <4>1. PICK r : r.token = t /\ redeems' = redeems \cup {r}
        BY <3>1 DEF Flash
      <4> QED
        BY <4>1
    <3>2. ~(\E d \in Devices : \E t \in published : Flash(d, t)) => redeems' \subseteq redeems
      BY <1>1 DEF Tick, Lose, Open, Interrupt, Answer, vars
    <3> QED
      BY <3>1, <3>2
  <2>3. Out' => Out
    BY <2>1 DEF Out
  <2>4. published \subseteq 1 .. issued /\ \A m \in redeems' : m.token \in published
    BY <2>2 DEF HeldInv, ShownOK
  <2> QED
    BY <2>1, <2>3, <2>4, ElsewhereHeld DEF Consuming
<1>2. ASSUME NEW p \in Procs,
             \/ \E ttl \in Ttls : IssueWrite(p, ttl)
             \/ IssueWrite(p, DefaultTtl)
      PROVE  HeldInv'
  BY <1>2, IssueWriteHeld DEF PairAssumption
<1>3. ASSUME NEW p \in Procs, IssueRename(p) PROVE HeldInv'
  BY <1>3, IssueRenameHeld
<1>4. ASSUME NEW p \in Procs, NEW m \in redeems, TakeRedeem(p, m) PROVE HeldInv'
  BY <1>4, TakeRedeemHeld
<1>5. ASSUME NEW p \in Procs, MarkUsed(p) \/ Consume(p) PROVE HeldInv'
  BY <1>5, MarkUsedHeld, ConsumeHeld
<1>6. ASSUME NEW p \in Procs,
             \/ Kill(p) \/ IssueFails(p) \/ WriteBundle(p)
             \/ ConsumeFails(p) \/ RecordFails(p) \/ Decline(p)
             \/ LoadLedger(p) \/ SaveLedger(p) \/ RenameLedger(p)
             \/ \E d \in Drives : ReadBundle(p, d)
             \/ Confirm(p) \/ AddDevice(p)
      PROVE  HeldInv'
  BY <1>6, OthersHeld
<1> QED
  BY <1>1, <1>2, <1>3, <1>4, <1>5, <1>6 DEF Next

\* Where no `neonet pair` runs, a shell refuses a token only if it was used up
\* or expired, if a later one was issued, or if an issue crossed a redemption.
THEOREM RefusedWithCause ==
  ASSUME PairDaemons = {} PROVE PairSpec => RefusedForCause
<1>1. PairInit => AtRoot /\ HeldInv
  BY DEF PairInit, AtRoot, HeldInv, ShownOK, BeforeOut, OnceOut, Out, Writing, NoJob,
    NoIssue, Dirs
<1>2. PairInv /\ AtRoot /\ HeldInv /\ [Next]_vars => AtRoot' /\ HeldInv'
  BY AtRootNext, HeldNext, PairAssumption
<1>3. PairInv /\ AtRoot /\ HeldInv /\ [Next]_vars
        => [\A p \in Procs, m \in redeems :
              TakeRedeem(p, m) /\ job' = job => Cause(m.token)]_vars
  <2> SUFFICES ASSUME PairInv, AtRoot, HeldInv, NEW p \in Procs, NEW m \in redeems,
                      TakeRedeem(p, m), job' = job, ~Cause(m.token)
               PROVE  FALSE
    OBVIOUS
  <2>1. PairTypeOK /\ TokensOK
    BY DEF PairInv
  <2>2. m.token \in published /\ m.token \in 1 .. issued /\ m.token \in Tokens
    BY <2>1 DEF HeldInv, ShownOK, PairTypeOK
  <2>3. m.token = issued /\ Live /\ Out
    <3>1. issued \in Nat /\ ~(m.token < issued)
      BY <2>1 DEF Cause, PairTypeOK, PairAssumption
    <3>2. m.token = issued
      BY <2>2, <3>1
    <3> QED
      BY <2>2, <3>2 DEF Cause, Live, Out
  <2>4. /\ pending["root"] # NoFile /\ ~pending["root"].used
        /\ pending["root"].token = m.token
        /\ pending["root"].expires_at = expiry[m.token]
    BY <2>1, <2>3 DEF HeldInv, OnceOut, Latest, TokensOK, Genuine, Dirs
  <2>5. expiry[m.token] > now
    <3>1. expiry[m.token] \in Nat /\ now \in Nat
      BY <2>1, <2>2, PairAssumption DEF PairTypeOK, PairAssumption
    <3> QED
      BY <3>1 DEF Cause
  <2>6. Home(p) = "root"
    BY PairDaemons = {} DEF Home
  <2>7. Redeemable(pending[Home(p)], m.token)
    BY <2>4, <2>5, <2>6 DEF Redeemable
  <2>8. job'[p].pc = "checked" /\ job[p].pc = "idle"
    BY <2>1, <2>7 DEF TakeRedeem, PairTypeOK
  <2> QED
    BY <2>8
<1> QED
  BY <1>1, <1>2, <1>3, PairInvariance, PTL DEF PairSpec, RefusedForCause
=============================================================================
