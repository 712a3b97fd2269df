-------------------------------- MODULE Pair --------------------------------
(***************************************************************************)
(* Pairing tokens and the pairing ledger (src/src/pair.rs,                 *)
(* src/src/app/pair.rs, src/src/flasher.rs).  The processes of one device  *)
(* share its files: shells and `neonet pair` issue a token and redeem it   *)
(* for the devices that present it, `flasher author` issues one for a      *)
(* drive, `flasher adopt` pairs with the device a drive comes from, and a  *)
(* core reads the allow-list made of the ledger.                           *)
(*                                                                         *)
(* Every read, write and rename of a file is a step of its own, and both   *)
(* pair.json and paired.json are written through one temporary name that   *)
(* all processes share.  A write of these few bytes is one step.           *)
(***************************************************************************)
EXTENDS Naturals

CONSTANTS Shells, PairDaemons, Authors, Adopters,   \* processes
          Devices,                                  \* the other devices,
          Drives, Named,                            \* those with a drive here, and
                                                    \* those in devices.json
          NoFile, NoDevice,
          Ttls, DefaultTtl, MaxTtl,                 \* lifetimes
          MaxTime, MaxTokens, MaxCalls, MaxFaults   \* bounds

Procs == Shells \cup PairDaemons \cup Authors \cup Adopters
Handlers == Shells \cup PairDaemons
Dirs == {"root", "identity"}
NoToken == 0
Tokens == 1 .. MaxTokens
Pendings ==
  [token : Tokens, expires_at : 1 .. MaxTime + MaxTtl, used : BOOLEAN]

ASSUME PairAssumption ==
  /\ Handlers \cap (Authors \cup Adopters) = {}
  /\ Shells \cap PairDaemons = {} /\ Authors \cap Adopters = {}
  /\ Drives \subseteq Devices /\ Named \subseteq Devices /\ NoDevice \notin Devices
  /\ NoFile \notin Pendings
  /\ Ttls \subseteq Nat /\ DefaultTtl \in Nat /\ MaxTtl \in Nat \ {0}
  /\ {MaxTime, MaxTokens, MaxCalls, MaxFaults} \subseteq Nat

VARIABLES
  now,
  pending, pendingTmp,   \* pair.json and pair.tmp of each directory
  ledger,                \* paired.json; a missing one counts as empty
  ledgerTmp,             \* paired.tmp: no content, or one
  known,                 \* devices.json: how a device is listed
  online,                \* the shells and daemons that take Redeem frames
  issue,                 \* process -> its issue_token under way
  job,                   \* process -> its Redeem or adoption under way
  calls, call,           \* their number; device -> its last `flash` call
  redeems, replies,      \* frames under way
  issued,                \* number of tokens generated
  published,             \* those shown to a person or written to a drive
  expiry,                \* history: token -> its expires_at
  presented,             \* history: <<token, device>> shown while it was live
  accepted,              \* history: redemptions that used up their token
  confirmed,             \* history: devices whose drive was adopted
  overlapped,            \* history: tokens issued or redeemed while another
                         \* task rewrote pair.json
  disturbed,             \* history: devices recorded during another recording
  faults

tokenFiles == <<pending, pendingTmp>>
ledgerFiles == <<ledger, ledgerTmp>>
wire == <<calls, call, redeems, replies>>
tokens == <<issued, published, expiry>>
marks == <<presented, accepted, confirmed, overlapped, disturbed>>
vars == <<now, tokenFiles, ledgerFiles, known, online, issue, job, wire,
          tokens, marks, faults>>

\* mesh_client and ShellMesh give the node NEONET_HOME; Node::new takes the
\* directory of the key file, NEONET_HOME/identity.
Home(p) == IF p \in PairDaemons THEN "identity" ELSE "root"

NoIssue == [pc |-> "idle", token |-> NoToken]
NoJob == [pc |-> "idle", device |-> NoDevice, call |-> 0, token |-> NoToken,
          read |-> NoFile, paired |-> {}]

JobPcs == {"idle", "checked", "marked", "record", "loaded", "saved",
           "confirming", "paired"}

PairInit ==
  /\ now = 0
  /\ pending = [d \in Dirs |-> NoFile] /\ pendingTmp = [d \in Dirs |-> NoFile]
  /\ ledger = [d \in Dirs |-> {}] /\ ledgerTmp = [d \in Dirs |-> {}]
  /\ known = [d \in Devices |-> IF d \in Named THEN "named" ELSE "unknown"]
  /\ online = {}
  /\ issue = [p \in Procs |-> NoIssue]
  /\ job = [p \in Procs |-> NoJob]
  /\ calls = 0
  /\ call = [d \in Devices |-> [n |-> 0, status |-> "idle"]]
  /\ redeems = {} /\ replies = {}
  /\ issued = 0 /\ published = {}
  /\ expiry = [t \in Tokens |-> 0]
  /\ presented = {} /\ accepted = {} /\ confirmed = {}
  /\ overlapped = {} /\ disturbed = {}
  /\ faults = 0

(***************************************************************************)
(* Processes and the clock                                                 *)
(***************************************************************************)
Tick ==
  /\ now < MaxTime
  /\ now' = now + 1
  /\ UNCHANGED <<tokenFiles, ledgerFiles, known, online, issue, job, wire,
                 tokens, marks, faults>>

\* A shell is reachable from its start (ShellMesh::open).
Open(p) ==
  /\ p \notin online
  /\ online' = online \cup {p}
  /\ UNCHANGED <<now, tokenFiles, ledgerFiles, known, issue, job, wire,
                 tokens, marks, faults>>

\* A process is killed between two of its steps, or a frame is lost.
Kill(p) ==
  /\ p \in online \/ issue[p].pc # "idle" \/ job[p].pc # "idle"
  /\ faults < MaxFaults
  /\ faults' = faults + 1
  /\ online' = online \ {p}
  /\ issue' = [issue EXCEPT ![p] = NoIssue]
  /\ job' = [job EXCEPT ![p] = NoJob]
  /\ UNCHANGED <<now, tokenFiles, ledgerFiles, known, wire, tokens, marks>>

Lose ==
  /\ faults < MaxFaults
  /\ faults' = faults + 1
  /\ \/ \E m \in redeems : redeems' = redeems \ {m} /\ UNCHANGED replies
     \/ \E m \in replies : replies' = replies \ {m} /\ UNCHANGED redeems
  /\ UNCHANGED <<now, tokenFiles, ledgerFiles, known, online, issue, job,
                 calls, call, tokens, marks>>

(***************************************************************************)
(* issue_token, always in NEONET_HOME                                      *)
(***************************************************************************)
\* Mutant: the requested lifetime is taken as it is.
TtlUnclamped(ttl) == ttl

Ttl(ttl) == IF ttl < 1 THEN 1 ELSE IF ttl > MaxTtl THEN MaxTtl ELSE ttl

Redeeming(p) == job[p].pc \in {"checked", "marked"} /\ Home(p) = "root"

Crossed(t) ==
  LET others == {q \in Procs : Redeeming(q)} IN
  {job[q].token : q \in others} \cup {u \in {t} : others # {}}

IssueWrite(p, ttl) ==
  /\ issue[p].pc = "idle"
  /\ p \in online <=> p \in Shells
  /\ issued < MaxTokens
  /\ issued' = issued + 1
  /\ expiry' = [expiry EXCEPT ![issued'] = now + Ttl(ttl)]
  /\ pendingTmp' = [pendingTmp EXCEPT !["root"] =
        [token |-> issued', expires_at |-> now + Ttl(ttl), used |-> FALSE]]
  /\ issue' = [issue EXCEPT ![p] = [pc |-> "written", token |-> issued']]
  /\ overlapped' = overlapped \cup Crossed(issued')
  /\ UNCHANGED <<now, pending, ledgerFiles, known, online, job, wire, published,
                 presented, accepted, confirmed, disturbed, faults>>

\* `pair` in a shell prints the token, `neonet pair` prints it and goes
\* online, `flasher author` still has to write its bundle.
IssueRename(p) ==
  /\ issue[p].pc = "written"
  /\ pendingTmp["root"] # NoFile
  /\ pending' = [pending EXCEPT !["root"] = pendingTmp["root"]]
  /\ pendingTmp' = [pendingTmp EXCEPT !["root"] = NoFile]
  /\ issue' = [issue EXCEPT ![p] =
        IF p \in Authors THEN [@ EXCEPT !.pc = "bundle"] ELSE NoIssue]
  /\ published' = published \cup {t \in {issue[p].token} : p \notin Authors}
  /\ online' = online \cup {q \in {p} : p \in PairDaemons}
  /\ UNCHANGED <<now, ledgerFiles, known, job, wire, issued, expiry, marks,
                 faults>>

\* Another process has renamed the shared temporary file: rename fails.
IssueFails(p) ==
  /\ issue[p].pc = "written"
  /\ pendingTmp["root"] = NoFile
  /\ issue' = [issue EXCEPT ![p] = NoIssue]
  /\ UNCHANGED <<now, tokenFiles, ledgerFiles, known, online, job, wire, tokens,
                 marks, faults>>

\* author writes flashed.json to the drive, and its process ends.
WriteBundle(p) ==
  /\ issue[p].pc = "bundle"
  /\ published' = published \cup {issue[p].token}
  /\ issue' = [issue EXCEPT ![p] = NoIssue]
  /\ UNCHANGED <<now, tokenFiles, ledgerFiles, known, online, job, wire, issued,
                 expiry, marks, faults>>

(***************************************************************************)
(* `flash` on another device                                               *)
(***************************************************************************)
Flash(d, t) ==
  /\ call[d].status # "waiting" /\ calls < MaxCalls
  /\ calls' = calls + 1
  /\ call' = [call EXCEPT ![d] = [n |-> calls', status |-> "waiting"]]
  /\ redeems' = redeems \cup {[from |-> d, call |-> calls', token |-> t]}
  /\ UNCHANGED <<now, tokenFiles, ledgerFiles, known, online, issue, job,
                 replies, tokens, marks, faults>>

\* The waiting call has no timeout; only its process can be stopped.
Interrupt(d) ==
  /\ call[d].status = "waiting"
  /\ faults < MaxFaults
  /\ faults' = faults + 1
  /\ call' = [call EXCEPT ![d].status = "stopped"]
  /\ UNCHANGED <<now, tokenFiles, ledgerFiles, known, online, issue, job,
                 calls, redeems, replies, tokens, marks>>

\* Mutant: an error is no answer to the call that waits.
AnswerPaired(m) ==
  /\ m \in replies
  /\ replies' = replies \ {m}
  /\ IF call[m.to] = [n |-> m.call, status |-> "waiting"] /\ m.outcome = "paired"
       THEN call' = [call EXCEPT ![m.to].status = m.outcome]
       ELSE UNCHANGED call
  /\ UNCHANGED <<now, tokenFiles, ledgerFiles, known, online, issue, job,
                 calls, redeems, tokens, marks, faults>>

\* Client: a reply goes to the call that waits under its id, or nowhere.
Answer(m) ==
  /\ m \in replies
  /\ replies' = replies \ {m}
  /\ IF call[m.to] = [n |-> m.call, status |-> "waiting"]
       THEN call' = [call EXCEPT ![m.to].status = m.outcome]
       ELSE UNCHANGED call
  /\ UNCHANGED <<now, tokenFiles, ledgerFiles, known, online, issue, job,
                 calls, redeems, tokens, marks, faults>>

(***************************************************************************)
(* Redeem at the acceptor: consume_token                                   *)
(***************************************************************************)
Reply(j, outcome) == [to |-> j.device, call |-> j.call, outcome |-> outcome]

\* Mutant: the expiry of the token is not looked at.
RedeemableForever(f, t) == f # NoFile /\ ~f.used /\ f.token = t

\* Mutant: the boundary of the lifetime is on the other side.
RedeemableLate(f, t) ==
  f # NoFile /\ ~f.used /\ f.expires_at > now + 1 /\ f.token = t

Redeemable(f, t) ==
  f # NoFile /\ ~f.used /\ f.expires_at > now /\ f.token = t

Issuing == {q \in Procs : issue[q].pc = "written"}

TakeRedeem(p, m) ==
  /\ p \in online /\ job[p].pc = "idle"
  /\ m \in redeems
  /\ redeems' = redeems \ {m}
  /\ presented' = presented \cup
       {<<t, m.from>> : t \in {u \in Tokens : u = m.token /\ now < expiry[u]}}
  /\ LET f == pending[Home(p)]
         j == [pc |-> "checked", device |-> m.from, call |-> m.call,
               token |-> m.token, read |-> f, paired |-> {}] IN
     \/ /\ Redeemable(f, m.token)
        /\ job' = [job EXCEPT ![p] = j]
        /\ overlapped' = overlapped \cup
             LET issues == {issue[q].token : q \in Issuing} IN
             issues \cup {t \in {m.token} : issues # {}}
        /\ UNCHANGED replies
     \/ /\ ~Redeemable(f, m.token)
        /\ replies' = replies \cup {Reply(j, "refused")}
        /\ UNCHANGED <<job, overlapped>>
  /\ UNCHANGED <<now, tokenFiles, ledgerFiles, known, online, issue, calls,
                 call, tokens, accepted, confirmed, disturbed, faults>>

\* Mutant: the token is written back as it was.
Marked(f) == f

Used(f) == [f EXCEPT !.used = TRUE]

MarkUsed(p) ==
  /\ job[p].pc = "checked"
  /\ pendingTmp' = [pendingTmp EXCEPT ![Home(p)] = Used(job[p].read)]
  /\ job' = [job EXCEPT ![p].pc = "marked"]
  /\ UNCHANGED <<now, pending, ledgerFiles, known, online, issue, wire, tokens,
                 marks, faults>>

Consume(p) ==
  /\ job[p].pc = "marked"
  /\ LET d == Home(p) IN
     /\ pendingTmp[d] # NoFile
     /\ pending' = [pending EXCEPT ![d] = pendingTmp[d]]
     /\ pendingTmp' = [pendingTmp EXCEPT ![d] = NoFile]
  /\ accepted' = accepted \cup {[token |-> job[p].token, device |-> job[p].device,
                                call |-> job[p].call]}
  /\ job' = [job EXCEPT ![p].pc = "record"]
  /\ UNCHANGED <<now, ledgerFiles, known, online, issue, wire, tokens, presented,
                 confirmed, overlapped, disturbed, faults>>

\* consume_token returns Err: the write fails, or the temporary file is gone.
ConsumeFails(p) ==
  /\ \/ job[p].pc = "checked" /\ faults < MaxFaults /\ faults' = faults + 1
     \/ job[p].pc = "marked" /\ pendingTmp[Home(p)] = NoFile /\ UNCHANGED faults
  /\ replies' = replies \cup {Reply(job[p], "failed")}
  /\ job' = [job EXCEPT ![p] = NoJob]
  /\ UNCHANGED <<now, tokenFiles, ledgerFiles, known, online, issue, calls,
                 call, redeems, tokens, marks>>

(***************************************************************************)
(* record_pairing, and the reply to a Redeem                               *)
(***************************************************************************)
Recording(p) == job[p].pc \in {"loaded", "saved"}

\* What follows a recorded pairing: a reply, or the entry in devices.json.
Finish(p) ==
  IF p \in Adopters
    THEN job' = [job EXCEPT ![p].pc = "paired"] /\ UNCHANGED replies
    ELSE /\ job' = [job EXCEPT ![p] = NoJob]
         /\ replies' = replies \cup {Reply(job[p], "paired")}

\* Mutant: the ledger starts over.
FreshLedger(p) == {job[p].device}

Extended(p) == ledger[Home(p)] \cup {job[p].device}

LoadLedger(p) ==
  /\ job[p].pc = "record"
  /\ \/ /\ job[p].device \in ledger[Home(p)]
        /\ Finish(p)
        /\ UNCHANGED disturbed
     \/ /\ job[p].device \notin ledger[Home(p)]
        /\ job' = [job EXCEPT ![p].pc = "loaded", ![p].paired = Extended(p)]
        /\ LET others == {q \in Procs : Recording(q) /\ Home(q) = Home(p)} IN
           disturbed' = disturbed \cup
             {d \in Devices : \E q \in others : d \in {job[p].device, job[q].device}}
        /\ UNCHANGED replies
  /\ UNCHANGED <<now, tokenFiles, ledgerFiles, known, online, issue, calls,
                 call, redeems, tokens, presented, accepted, confirmed, overlapped, faults>>

SaveLedger(p) ==
  /\ job[p].pc = "loaded"
  /\ ledgerTmp' = [ledgerTmp EXCEPT ![Home(p)] = {job[p].paired}]
  /\ job' = [job EXCEPT ![p].pc = "saved"]
  /\ UNCHANGED <<now, tokenFiles, ledger, known, online, issue, wire, tokens,
                 marks, faults>>

RenameLedger(p) ==
  /\ job[p].pc = "saved"
  /\ LET d == Home(p) IN
     /\ \E list \in ledgerTmp[d] : ledger' = [ledger EXCEPT ![d] = list]
     /\ ledgerTmp' = [ledgerTmp EXCEPT ![d] = {}]
  /\ Finish(p)
  /\ UNCHANGED <<now, tokenFiles, known, online, issue, calls, call, redeems,
                 tokens,
                 marks, faults>>

\* record_pairing fails: the handler returns at `?` without a reply, and an
\* adoption ends.
RecordFails(p) ==
  /\ \/ job[p].pc = "loaded" /\ faults < MaxFaults /\ faults' = faults + 1
     \/ job[p].pc = "saved" /\ ledgerTmp[Home(p)] = {} /\ UNCHANGED faults
  /\ job' = [job EXCEPT ![p] = NoJob]
  /\ UNCHANGED <<now, tokenFiles, ledgerFiles, known, online, issue, wire, tokens,
                 marks>>

(***************************************************************************)
(* adopt: pair with the device a drive was flashed from                    *)
(***************************************************************************)
ReadBundle(p, d) ==
  /\ p \in Adopters /\ job[p].pc = "idle"
  /\ job' = [job EXCEPT ![p] = [NoJob EXCEPT !.pc = "confirming", !.device = d]]
  /\ UNCHANGED <<now, tokenFiles, ledgerFiles, known, online, issue, wire,
                 tokens, marks, faults>>

Confirm(p) ==
  /\ job[p].pc = "confirming"
  /\ job' = [job EXCEPT ![p].pc = "record"]
  /\ confirmed' = confirmed \cup {job[p].device}
  /\ UNCHANGED <<now, tokenFiles, ledgerFiles, known, online, issue, wire,
                 tokens, presented, accepted, overlapped, disturbed, faults>>

Decline(p) ==
  /\ job[p].pc = "confirming"
  /\ job' = [job EXCEPT ![p] = NoJob]
  /\ UNCHANGED <<now, tokenFiles, ledgerFiles, known, online, issue, wire, tokens,
                 marks, faults>>

\* ResolutionDirectory::add drops the entries with the same identity or the
\* same alias, and every adopted device has the alias "flashed-from".
AddDevice(p) ==
  /\ job[p].pc = "paired"
  /\ known' = [d \in Devices |-> IF d = job[p].device THEN "flashed"
                                 ELSE IF known[d] = "flashed" THEN "unknown"
                                 ELSE known[d]]
  /\ job' = [job EXCEPT ![p] = NoJob]
  /\ UNCHANGED <<now, tokenFiles, ledgerFiles, online, issue, wire,
                 tokens, marks, faults>>

\* `pairs --as-allow`, the list that a core enforces when it is started with
\* that output as its --allow-file.
AllowList == ledger["root"]

-----------------------------------------------------------------------------
Next ==
  \/ Tick \/ Lose
  \/ \E p \in Procs :
       \/ p \in Shells /\ Open(p)
       \/ Kill(p)
       \/ p \in Shells \cup PairDaemons /\ \E ttl \in Ttls : IssueWrite(p, ttl)
       \/ p \in Authors /\ IssueWrite(p, DefaultTtl)
       \/ IssueRename(p) \/ IssueFails(p) \/ WriteBundle(p)
       \/ \E m \in redeems : TakeRedeem(p, m)
       \/ MarkUsed(p) \/ Consume(p) \/ ConsumeFails(p)
       \/ LoadLedger(p) \/ SaveLedger(p) \/ RenameLedger(p) \/ RecordFails(p)
       \/ \E d \in Drives : ReadBundle(p, d)
       \/ Confirm(p) \/ Decline(p) \/ AddDevice(p)
  \/ \E d \in Devices :
       \/ \E t \in published : Flash(d, t)
       \/ Interrupt(d)
  \/ \E m \in replies : Answer(m)

PairSpec == PairInit /\ [][Next]_vars

\* The pump of a running shell, the network and the waiting call keep moving;
\* nobody has to issue, present or adopt anything.
Redeem(p) ==
  \/ \E m \in redeems : TakeRedeem(p, m)
  \/ MarkUsed(p) \/ Consume(p) \/ LoadLedger(p) \/ SaveLedger(p) \/ RenameLedger(p)
  \/ job[p].pc = "marked" /\ ConsumeFails(p)
  \/ job[p].pc = "saved" /\ RecordFails(p)

FairPairSpec ==
  /\ PairSpec
  /\ \A p \in Handlers : WF_vars(Redeem(p))
  /\ WF_vars(\E m \in replies : Answer(m))

-----------------------------------------------------------------------------
(* Properties *)

\* Types and ranges.  An expires_at is at most MAX_TTL_SECS away, whatever
\* lifetime was asked for.
PairTypeOK ==
  /\ now \in 0 .. MaxTime
  /\ pending \in [Dirs -> Pendings \cup {NoFile}]
  /\ pendingTmp \in [Dirs -> Pendings \cup {NoFile}]
  /\ ledger \in [Dirs -> SUBSET Devices]
  /\ ledgerTmp \in [Dirs -> SUBSET SUBSET Devices]
  /\ known \in [Devices -> {"unknown", "named", "flashed"}]
  /\ online \subseteq Handlers
  /\ issue \in [Procs -> [pc : {"idle", "written", "bundle"},
                          token : Tokens \cup {NoToken}]]
  /\ job \in [Procs -> [pc : JobPcs, device : Devices \cup {NoDevice},
                        call : 0 .. MaxCalls, token : Tokens \cup {NoToken},
                        read : Pendings \cup {NoFile}, paired : SUBSET Devices]]
  /\ calls \in 0 .. MaxCalls
  /\ call \in [Devices -> [n : 0 .. MaxCalls,
        status : {"idle", "waiting", "stopped", "paired", "refused", "failed"}]]
  /\ redeems \subseteq [from : Devices, call : 1 .. MaxCalls,
                        token : Tokens]
  /\ replies \subseteq [to : Devices, call : 0 .. MaxCalls,
                        outcome : {"paired", "refused", "failed"}]
  /\ issued \in 0 .. MaxTokens /\ published \subseteq Tokens
  /\ expiry \in [Tokens -> 0 .. MaxTime + MaxTtl]
  /\ presented \subseteq Tokens \X Devices
  /\ accepted \subseteq [token : Tokens, device : Devices, call : 1 .. MaxCalls]
  /\ confirmed \subseteq Devices /\ overlapped \subseteq Tokens
  /\ disturbed \subseteq Devices
  /\ faults \in 0 .. MaxFaults

\* "After one redemption the token is dead" (pair.rs): no token lets two
\* presentations through, with crashes, retries and other processes issuing
\* tokens through the same temporary file, as long as one process redeems.
RedeemedOnce == \A a, b \in accepted : a.token = b.token => a = b

Earned == confirmed \cup
  {d \in Devices : \E a \in accepted : a.device = d /\ <<a.token, d>> \in presented}

\* Nobody is in a ledger, and so in an allow-list made of it, unless it used
\* up a token it presented before its expiry, or a person confirmed the drive
\* that came from it.
LedgerEarned == \A d \in Dirs : ledger[d] \subseteq Earned

\* A token is refused for a reason its holder can know: it was used, is out
\* of time or was replaced by a later one; or an issue and a redemption
\* rewrote pair.json at the same time.
Cause(t) ==
  \/ \E a \in accepted : a.token = t
  \/ expiry[t] <= now
  \/ t < issued
  \/ t \in overlapped

RefusedForCause ==
  [][\A p \in Procs, m \in redeems :
       TakeRedeem(p, m) /\ job' = job => Cause(m.token)]_vars

\* A device that was told "paired", and one that adopt listed, are in the
\* list the operator composes, unless two processes recorded a pairing at the
\* same time.
Acknowledged ==
  {d \in Devices : call[d].status = "paired" \/
     \E m \in replies : m.to = d /\ m.outcome = "paired"}

PairedIsRecorded ==
  Acknowledged \cup {d \in Devices : known[d] = "flashed"}
    \subseteq AllowList \cup disturbed

\* A `flash` is answered, unless a fault or another recording hit it, or nobody
\* redeems: the call itself has no timeout.
FlashEnds ==
  \A d \in Devices :
    call[d].status = "waiting" ~>
      \/ call[d].status # "waiting"
      \/ faults > 0 \/ d \in disturbed
      \/ online = {}
=============================================================================
