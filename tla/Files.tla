-------------------------------- MODULE Files --------------------------------
(***************************************************************************)
(* File transfer (src/src/app/files.rs over src/src/files/mod.rs): a       *)
(* sender process runs send_file_and_wait, a receiving node handles its    *)
(* frames one at a time and keeps what it verified under incoming/<id>/.   *)
(*                                                                         *)
(* Modelled: the source file may be edited while its manifest is built;    *)
(* frames may be lost or damaged under way; the receiver may crash or fail *)
(* between any two of its file operations; the sender may be killed and    *)
(* run again.  A manifest stands for its id, the hash of its bytes.        *)
(***************************************************************************)
EXTENDS Naturals, Sequences

CONSTANTS Versions,     \* successive contents of the source file
          First,        \* its content at the start
          NumChunks,    \* version -> number of chunks build_manifest cuts
          FileSize,     \* version -> its size
          NoManifest, NoState,
          MaxRuns, MaxEdits, MaxLosses, MaxAlters, MaxFaults  \* bounds

ASSUME FilesAssumption ==
  /\ First \in Versions
  /\ NumChunks \in [Versions -> Nat]
  /\ FileSize \in [Versions -> Nat]
  /\ {MaxRuns, MaxEdits, MaxLosses, MaxAlters, MaxFaults} \subseteq Nat

\* FileManifest: the chunk hashes of the content that was read, and the size
\* the file had when it was opened.
Manifests ==
  [content : Versions, total_size : {FileSize[v] : v \in Versions}]

ASSUME NoneAssumption ==
  /\ NoManifest \notin Manifests
  /\ NoState \notin Seq(Nat)

Indices(m) == 0 .. NumChunks[m.content] - 1

Elems(s) == {s[k] : k \in DOMAIN s}

VARIABLES
  source,      \* the version now in the source file
  pc,          \* where send_file_and_wait is
  run,         \* number of the sender process, the id space of its calls
  size,        \* total_size read by the build_manifest under way
  planned,     \* the manifest whose status is polled
  target,      \* the manifest whose chunks are streamed
  queue,       \* the chunks still to stream
  expired,     \* the deadline has passed
  toReceiver,  \* frames under way
  toSender,
  received,    \* manifests with a manifest.json
  cached,      \* manifest -> chunk -> "absent", "good", "bad" (chunks/*.chunk)
  verified,    \* manifest -> verified_chunks of state.json, or NoState
  out,         \* manifest -> the output file: "absent", "partial", "full"
  step,        \* where receive_chunk is
  arrived,     \* the chunk it handles
  confirmed,   \* history: manifests for which Complete was sent
  told,        \* history: manifests the sender reported complete
  edits, losses, alters, faults

sender == <<pc, run, size, planned, target, queue, expired>>
wire == <<toReceiver, toSender>>
disk == <<received, cached, verified, out>>
task == <<step, arrived>>
bounds == <<edits, losses, alters, faults>>
vars == <<source, sender, wire, disk, task, confirmed, told, bounds>>

Ended == {"idle", "done", "failed", "killed"}
Streaming == {"streaming", "resending"}
Pcs == Ended \cup Streaming \cup {"build", "read", "announced", "polling"}
Steps == {"idle", "cached", "saved", "created"}

\* Frames to the receiver.  intact is FALSE when the bytes no longer match
\* the signature (Announce) or the hash (Chunk).
Announce(r, m) == [kind |-> "announce", run |-> r, manifest |-> m, intact |-> TRUE]
Chunk(m, k) == [kind |-> "chunk", manifest |-> m, index |-> k, intact |-> TRUE]
StatusRequest(r, m) == [kind |-> "status", run |-> r, manifest |-> m]

\* Replies to calls; those to chunks are only printed and are left out.
Reply(r, kind, data) == [run |-> r, kind |-> kind, data |-> data]

\* TransferState::missing of a loaded or a fresh state.
Missing(m, v) == Indices(m) \ (IF v = NoState THEN {} ELSE Elems(v))

\* Mutant: off by one.
AlmostComplete(m, v) == v # NoState /\ Len(v) + 1 >= NumChunks[m.content]

\* TransferState::complete counts the recorded chunks.
Complete(m, v) == v # NoState /\ Len(v) = NumChunks[m.content]

FilesInit ==
  /\ source = First
  /\ pc = "idle" /\ run = 0 /\ size = 0
  /\ planned = NoManifest /\ target = NoManifest
  /\ queue = {} /\ expired = FALSE
  /\ toReceiver = <<>> /\ toSender = <<>>
  /\ received = {}
  /\ cached = [m \in Manifests |-> [k \in Indices(m) |-> "absent"]]
  /\ verified = [m \in Manifests |-> NoState]
  /\ out = [m \in Manifests |-> "absent"]
  /\ step = "idle" /\ arrived = <<>>
  /\ confirmed = {} /\ told = {}
  /\ edits = 0 /\ losses = 0 /\ alters = 0 /\ faults = 0

(***************************************************************************)
(* The sender: send_file_and_wait, and the send_file it calls              *)
(***************************************************************************)
Start ==
  /\ pc \in Ended
  /\ run < MaxRuns
  /\ run' = run + 1
  /\ pc' = "build"
  /\ planned' = NoManifest /\ target' = NoManifest
  /\ queue' = {} /\ expired' = FALSE
  /\ UNCHANGED <<source, size, wire, disk, task, confirmed, told, bounds>>

\* build_manifest: the size comes from the metadata ...
OpenSource ==
  /\ pc = "build"
  /\ size' = FileSize[source]
  /\ pc' = "read"
  /\ UNCHANGED <<source, run, planned, target, queue, expired, wire, disk,
                 task, confirmed, told, bounds>>

\* ... the hashes from reading the file to its end.  The manifest is built
\* once to know the id to poll and again inside send_file, which announces it.
ReadSource ==
  /\ pc = "read"
  /\ LET m == [content |-> source, total_size |-> size] IN
     \/ /\ planned = NoManifest
        /\ planned' = m
        /\ pc' = "build"
        /\ UNCHANGED <<target, toReceiver>>
     \/ /\ planned # NoManifest
        /\ target' = m
        /\ toReceiver' = Append(toReceiver, Announce(run, m))
        /\ pc' = "announced"
        /\ UNCHANGED planned
  /\ UNCHANGED <<source, run, size, queue, expired, toSender, disk, task,
                 confirmed, told, bounds>>

\* Mutant: chunks are counted from one.
NeedFromOne(m, missing) ==
  IF missing = {} THEN 1 .. NumChunks[m.content] ELSE missing

\* An empty Accept means "all".
Need(m, missing) == IF missing = {} THEN Indices(m) ELSE missing

\* Client's pump: a reply is matched to the call that waits for it by its id;
\* any other is handed to handle(), which prints it.
Awaited(f) == f.run = run /\ pc \in {"announced", "polling"}

IgnoreReply ==
  /\ toSender # <<>>
  /\ ~Awaited(Head(toSender))
  /\ toSender' = Tail(toSender)
  /\ UNCHANGED <<source, sender, toReceiver, disk, task, confirmed, told,
                 bounds>>

\* Accept, Status or an Error in their place.
TakeReply ==
  /\ toSender # <<>>
  /\ Awaited(Head(toSender))
  /\ toSender' = Tail(toSender)
  /\ LET f == Head(toSender) IN
     \/ /\ f.kind = "error"
        /\ pc' = "failed"
        /\ UNCHANGED <<target, queue, told>>
     \/ /\ f.kind = "accept"
        /\ pc' = "streaming"
        /\ queue' = Need(target, f.data)
        /\ UNCHANGED <<target, told>>
     \/ /\ f.kind = "state"
        /\ target' = planned
        /\ queue' = Missing(planned, f.data)
        /\ pc' = IF Complete(planned, f.data) \/ expired
                 THEN "done" ELSE "resending"
        /\ told' = IF Complete(planned, f.data)
                   THEN told \cup {planned} ELSE told
  /\ UNCHANGED <<source, run, size, planned, expired, toReceiver, disk, task,
                 confirmed, bounds>>

StreamChunk ==
  /\ pc \in Streaming
  /\ \E k \in queue :
       /\ \A j \in queue : k <= j
       /\ toReceiver' = Append(toReceiver, Chunk(target, k))
       /\ queue' = queue \ {k}
  /\ UNCHANGED <<source, pc, run, size, planned, target, expired, toSender,
                 disk, task, confirmed, told, bounds>>

\* Mutant: no further StatusRequest after a re-send.
PollOnce ==
  /\ pc \in Streaming
  /\ queue = {}
  /\ toReceiver' = IF pc = "resending" THEN toReceiver
                   ELSE Append(toReceiver, StatusRequest(run, planned))
  /\ pc' = "polling"
  /\ UNCHANGED <<source, run, size, planned, target, queue, expired,
                 toSender, disk, task, confirmed, told, bounds>>

Poll ==
  /\ pc \in Streaming
  /\ queue = {}
  /\ toReceiver' = Append(toReceiver, StatusRequest(run, planned))
  /\ pc' = "polling"
  /\ UNCHANGED <<source, run, size, planned, target, queue, expired,
                 toSender, disk, task, confirmed, told, bounds>>

\* The deadline is set once the first streaming is over.
Expire ==
  /\ pc \in {"polling", "resending"}
  /\ ~expired
  /\ expired' = TRUE
  /\ UNCHANGED <<source, pc, run, size, planned, target, queue, wire, disk,
                 task, confirmed, told, bounds>>

(***************************************************************************)
(* The receiver: app::files::handle, one frame after the other             *)
(***************************************************************************)
Takes(kind) ==
  /\ step = "idle"
  /\ toReceiver # <<>>
  /\ Head(toReceiver).kind = kind
  /\ toReceiver' = Tail(toReceiver)

\* Mutant: an Announce starts the transfer afresh.
HandleAnnounceAfresh ==
  /\ Takes("announce")
  /\ LET f == Head(toReceiver)
         m == f.manifest IN
     IF f.intact /\ Indices(m) # {}
     THEN /\ received' = received \cup {m}
          /\ verified' = [verified EXCEPT ![m] = NoState]
          /\ toSender' = Append(toSender,
                           Reply(f.run, "accept", Missing(m, NoState)))
     ELSE /\ toSender' = Append(toSender, Reply(f.run, "error", {}))
          /\ UNCHANGED <<received, verified>>
  /\ UNCHANGED <<source, sender, cached, out, task, confirmed, told, bounds>>

\* verify_manifest, write_received_manifest, resume_for.
HandleAnnounce ==
  /\ Takes("announce")
  /\ LET f == Head(toReceiver)
         m == f.manifest IN
     IF f.intact /\ Indices(m) # {}
     THEN /\ received' = received \cup {m}
          /\ toSender' = Append(toSender,
                           Reply(f.run, "accept", Missing(m, verified[m])))
     ELSE /\ toSender' = Append(toSender, Reply(f.run, "error", {}))
          /\ UNCHANGED received
  /\ UNCHANGED <<source, sender, cached, verified, out, task, confirmed,
                 told, bounds>>

\* Mutant: no reply as long as there is no state.
HandleStatusSilently ==
  /\ Takes("status")
  /\ LET f == Head(toReceiver)
         v == verified[f.manifest] IN
     toSender' = IF v = NoState THEN toSender
                 ELSE Append(toSender, Reply(f.run, "state", v))
  /\ UNCHANGED <<source, sender, disk, task, confirmed, told, bounds>>

\* load_transfer_state fails as long as no chunk was recorded.
HandleStatus ==
  /\ Takes("status")
  /\ LET f == Head(toReceiver)
         v == verified[f.manifest] IN
     toSender' = Append(toSender, IF v = NoState THEN Reply(f.run, "error", {})
                                  ELSE Reply(f.run, "state", v))
  /\ UNCHANGED <<source, sender, disk, task, confirmed, told, bounds>>

\* verify_chunk.
VerifyChunk(f) == f.index \in Indices(f.manifest) /\ f.intact

\* receive_chunk up to the rename of the chunk file, or its refusal.
HandleChunk ==
  /\ Takes("chunk")
  /\ LET f == Head(toReceiver) IN
     IF f.manifest \in received /\ VerifyChunk(f)
     THEN /\ cached' = [cached EXCEPT ![f.manifest][f.index] =
                          IF f.intact THEN "good" ELSE "bad"]
          /\ step' = "cached"
          /\ arrived' = <<f.manifest, f.index>>
     ELSE UNCHANGED <<cached, task>>
  /\ UNCHANGED <<source, sender, toSender, received, verified, out,
                 confirmed, told, bounds>>

\* Mutants: a chunk that came twice counts twice; the file is not assembled.
NeverVerified(v, k) == FALSE

AlreadyVerified(v, k) == k \in Elems(v)

\* The rest of receive_chunk: a chunk recorded before changes nothing more;
\* the one that completes the set leads on to reconstruct_from_verified.
RecordChunk ==
  /\ step = "cached"
  /\ LET m == arrived[1]
         k == arrived[2]
         v == IF verified[m] = NoState THEN <<>> ELSE verified[m] IN
     \/ /\ AlreadyVerified(v, k)
        /\ confirmed' = IF Complete(m, v) THEN confirmed \cup {m} ELSE confirmed
        /\ step' = "idle" /\ arrived' = <<>>
        /\ UNCHANGED verified
     \/ /\ ~AlreadyVerified(v, k)
        /\ verified' = [verified EXCEPT ![m] = Append(v, k)]
        /\ step' = IF Complete(m, verified'[m]) THEN "saved" ELSE "idle"
        /\ arrived' = IF step' = "saved" THEN arrived ELSE <<>>
        /\ UNCHANGED confirmed
  /\ UNCHANGED <<source, sender, wire, received, cached, out, told, bounds>>

\* File::create truncates an output file that exists.
CreateFile ==
  /\ step = "saved"
  /\ out' = [out EXCEPT ![arrived[1]] = "partial"]
  /\ step' = "created"
  /\ UNCHANGED <<source, sender, wire, received, cached, verified, arrived,
                 confirmed, told, bounds>>

\* Every recorded chunk is read back and verified again; then the size of the
\* whole is compared, and Complete is sent if it is right.
WriteFile ==
  /\ step = "created"
  /\ LET m == arrived[1]
         whole == \A k \in Elems(verified[m]) : cached[m][k] = "good" IN
     /\ out' = [out EXCEPT ![m] = IF whole THEN "full" ELSE @]
     /\ confirmed' = IF whole /\ m.total_size = FileSize[m.content]
                     THEN confirmed \cup {m} ELSE confirmed
  /\ step' = "idle" /\ arrived' = <<>>
  /\ UNCHANGED <<source, sender, wire, received, cached, verified, told,
                 bounds>>

(***************************************************************************)
(* The environment                                                         *)
(***************************************************************************)
EditSource(v) ==
  /\ v # source /\ edits < MaxEdits
  /\ source' = v
  /\ edits' = edits + 1
  /\ UNCHANGED <<sender, wire, disk, task, confirmed, told, losses, alters,
                 faults>>

Kill ==
  /\ pc \notin Ended
  /\ pc' = "killed"
  /\ UNCHANGED <<source, run, size, planned, target, queue, expired, wire,
                 disk, task, confirmed, told, bounds>>

Without(s, i) == SubSeq(s, 1, i - 1) \o SubSeq(s, i + 1, Len(s))

\* A connection on the way drops and takes a frame with it.
Lose ==
  /\ losses < MaxLosses
  /\ losses' = losses + 1
  /\ \/ \E i \in DOMAIN toReceiver :
          toReceiver' = Without(toReceiver, i) /\ UNCHANGED toSender
     \/ \E i \in DOMAIN toSender :
          toSender' = Without(toSender, i) /\ UNCHANGED toReceiver
  /\ UNCHANGED <<source, sender, disk, task, confirmed, told, edits, alters,
                 faults>>

\* A relay passes a chunk or a manifest on with other bytes.
Alter ==
  /\ alters < MaxAlters
  /\ alters' = alters + 1
  /\ \E i \in DOMAIN toReceiver :
       /\ toReceiver[i].kind \in {"announce", "chunk"}
       /\ toReceiver' = [toReceiver EXCEPT ![i].intact = FALSE]
  /\ UNCHANGED <<source, sender, toSender, disk, task, confirmed, told,
                 edits, losses, faults>>

\* A file operation of receive_chunk fails; the Error reply is only printed.
IoError ==
  /\ faults < MaxFaults
  /\ step # "idle"
  /\ faults' = faults + 1
  /\ step' = "idle" /\ arrived' = <<>>
  /\ UNCHANGED <<source, sender, wire, disk, confirmed, told, edits, losses,
                 alters>>

\* The receiving process dies, with what had arrived, and is started again.
Crash ==
  /\ faults < MaxFaults
  /\ faults' = faults + 1
  /\ step' = "idle" /\ arrived' = <<>>
  /\ toReceiver' = <<>>
  /\ UNCHANGED <<source, sender, toSender, disk, confirmed, told, edits,
                 losses, alters>>

SenderStep ==
  \/ OpenSource \/ ReadSource \/ IgnoreReply \/ TakeReply
  \/ StreamChunk \/ Poll

ReceiverStep ==
  \/ HandleAnnounce \/ HandleStatus \/ HandleChunk
  \/ RecordChunk \/ CreateFile \/ WriteFile

FilesNext ==
  \/ Start \/ SenderStep \/ Expire
  \/ ReceiverStep
  \/ \E v \in Versions : EditSource(v)
  \/ Kill \/ Lose \/ Alter \/ IoError \/ Crash

FilesSpec == FilesInit /\ [][FilesNext]_vars

\* Both processes run, and frames that are not lost arrive.  Nothing makes
\* the user start the program, or the deadline pass.
FairFilesSpec == FilesSpec /\ WF_vars(SenderStep) /\ WF_vars(ReceiverStep)

(***************************************************************************)
(* Properties                                                              *)
(***************************************************************************)
FilesTypeOK ==
  /\ source \in Versions
  /\ pc \in Pcs
  /\ run \in 0 .. MaxRuns
  /\ size \in Nat
  /\ {planned, target} \subseteq Manifests \cup {NoManifest}
  /\ queue # {} => target \in Manifests /\ queue \subseteq Indices(target)
  /\ expired \in BOOLEAN
  /\ received \subseteq Manifests
  /\ \A m \in Manifests :
       /\ cached[m] \in [Indices(m) -> {"absent", "good", "bad"}]
       /\ verified[m] # NoState => verified[m] \in Seq(Indices(m))
       /\ out[m] \in {"absent", "partial", "full"}
  /\ step \in Steps
  /\ step # "idle" => arrived[1] \in Manifests /\ arrived[2] \in Indices(arrived[1])
  /\ confirmed \subseteq Manifests
  /\ told \subseteq Manifests

\* state.json never runs ahead of the chunk files: each index it records, it
\* records once, and that chunk is on disk with verified content, at every
\* point where receive_chunk can be interrupted.
RecordedIsCached ==
  \A m \in Manifests : verified[m] # NoState =>
    /\ \A k \in Elems(verified[m]) : cached[m][k] = "good"
    /\ \A i, j \in DOMAIN verified[m] :
         verified[m][i] = verified[m][j] => i = j

\* Complete ("all chunks verified") is sent, the output file finished, and a
\* complete transfer reported by send_file_and_wait, only when every chunk of
\* that very manifest is on disk; and unless the receiver failed in between, a
\* reported transfer has left the file behind ("reconstruct the file the moment
\* the set completes").
CompleteIsStored ==
  /\ \A m \in confirmed \cup told \cup {n \in Manifests : out[n] = "full"} :
       \A k \in Indices(m) : cached[m][k] = "good"
  /\ \A m \in told : faults = 0 => out[m] = "full"

\* "On a dropped connection the receiver persists its verified set, so
\* resuming never starts from zero": no step, crash, new announcement or
\* second run takes a verified chunk back.
VerifiedKept ==
  [][\A m \in Manifests : verified[m] # NoState =>
       /\ verified'[m] # NoState
       /\ Elems(verified[m]) \subseteq Elems(verified'[m])]_vars

Undisturbed == losses = 0 /\ faults = 0 /\ pc # "killed"

\* As long as no frame is lost and no process fails, send_file_and_wait
\* returns, even if the file is edited or chunks are damaged meanwhile.
TransferEnds == []Undisturbed => (pc \notin Ended ~> pc \in Ended)

\* "re-sending any chunk the receiver is still missing, until the transfer
\* completes": damaged chunks, as long as not all of them are, cost another
\* round and not the transfer.
DamagedIsResent ==
  [](Undisturbed /\ ~expired /\ edits = 0 /\ alters < NumChunks[source])
    => (pc = "streaming" ~> planned \in told)

=============================================================================
