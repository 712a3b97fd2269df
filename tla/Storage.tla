------------------------------- MODULE Storage -------------------------------
(***************************************************************************)
(* Encrypted storage (src/src/app/storage.rs, src/src/storage/mod.rs, and  *)
(* the store, replicate and revoke commands of src/src/main.rs): client    *)
(* processes push the encrypted chunks of one file to a core, pull them    *)
(* back page by page, or copy them from one core to another.               *)
(*                                                                         *)
(* A core's dispatcher handles one request at a time.  Storing a batch is  *)
(* a series of file operations; the core may crash between any two, and    *)
(* manifest.json and acl.json are rewritten in place.  Chunks are opaque:  *)
(* a blob is a chunk index and the number of the encryption run that made  *)
(* it, for a fresh nonce gives every run other bytes and other blob names. *)
(***************************************************************************)
EXTENDS Naturals, Sequences, FiniteSets

CONSTANTS Cores, Procs,
          Ids,          \* identities that run commands
          Owner,        \* the identity that signs the file's manifest
          NumChunks,    \* manifest.chunks.len()
          ChunkSize,    \* index -> size
          MaxBatch,     \* MAX_BATCH_PAYLOAD
          NoProc, NoCore, NoAcl, Torn,
          MaxCommands, MaxEncryptions, MaxCrashes, MaxRevocations  \* bounds

Indices == 0 .. NumChunks - 1

ASSUME StorageAssumption ==
  /\ Owner \in Ids
  /\ NumChunks \in Nat \ {0}
  /\ ChunkSize \in [Indices -> Nat \ {0}]
  /\ MaxBatch \in Nat
  /\ NoProc \notin Procs /\ NoCore \notin Cores
  /\ NoAcl # Torn /\ \A S \in SUBSET Ids : S # NoAcl /\ S # Torn
  /\ {MaxCommands, MaxEncryptions, MaxCrashes, MaxRevocations} \subseteq Nat

Blobs == [index : Indices, nonce : 1 .. MaxEncryptions]

VARIABLES
  blobs,        \* core -> the blobs under blobs/<file_id>/
  manifest,     \* core -> manifest.json: "none", "torn", "full"
  acl,          \* core -> acl.json: NoAcl, Torn, or a set of identities
  revoked,      \* core -> revocations.json
  busy,         \* core -> the process whose batch it is storing
  step,         \* core -> which file operation comes next
  pc,           \* process -> where its command is
  who,          \* process -> whose command it is
  op,           \* process -> "push", "pull", "replicate"
  at,           \* process -> the core it talks to
  dest,         \* process -> the core a replicate writes to
  rest,         \* process -> blobs still to push
  batch,        \* process -> the batch under way, what is left of it to store
  got,          \* process -> blobs encrypted, or pulled so far
  known,        \* process -> a manifest was in one of the pages
  promised,     \* history: process -> its pull began after a push was acked
  restored,     \* history: what pulls have restored, and for whom
  pushed,       \* history: core -> identities that sent a batch to it
  acked,        \* history: core and blobs of every completed push_chunks
  commands, encryptions, crashes, revocations

store == <<blobs, manifest, acl, revoked>>
task == <<busy, step>>
job == <<who, op, dest, promised>>
command == <<pc, job, at, rest, batch, got, known>>
history == <<restored, pushed, acked>>
bounds == <<commands, encryptions, crashes, revocations>>
vars == <<store, task, command, history, bounds>>

Ended == {"done", "failed", "killed"}
Pcs == {"idle", "sending", "storing", "fetching", "acked", "refused",
        "paged"} \cup Ended
StoreSteps == {"idle", "blobs", "manifest", "acl"}

Elems(s) == {s[k] : k \in DOMAIN s}

Sizes(s) == [j \in DOMAIN s |-> ChunkSize[s[j].index]]

\* The sum of the first k sizes.
SizeTo(sizes, k) ==
  LET sum[j \in 0 .. Len(sizes)] ==
        IF j = 0 THEN 0 ELSE sum[j - 1] + sizes[j]
  IN sum[k]

\* The greedy rule of push_chunks and fetch_chunks: the first one always, the
\* next ones as long as the whole stays within MAX_BATCH_PAYLOAD.
Page(s) ==
  LET fit == {k \in 1 .. Len(s) : k = 1 \/ SizeTo(Sizes(s), k) <= MaxBatch} IN
  IF s = <<>> THEN <<>>
  ELSE SubSeq(s, 1, CHOOSE k \in fit : \A j \in fit : j <= k)

After(s, n) == SubSeq(s, n + 1, Len(s))

\* The members of T one after the other; upTo(y, x): y is x or comes before it.
Listed(T, upTo(_, _)) ==
  [k \in 1 .. Cardinality(T) |->
     CHOOSE x \in T : Cardinality({y \in T : upTo(y, x)}) = k]

\* sort_by_key is stable: blobs of one index stay as they were.
Sort(s) ==
  LET upTo(i, j) == \/ s[i].index < s[j].index
                    \/ s[i].index = s[j].index /\ i <= j
      order == Listed(DOMAIN s, upTo)
  IN [k \in DOMAIN s |-> s[order[k]]]

\* What read_dir may decide: the order of the blobs of each index.
DirOrders ==
  [Indices -> {f \in [1 .. MaxEncryptions -> 1 .. MaxEncryptions] :
                 \A m, n \in 1 .. MaxEncryptions : f[m] = f[n] => m = n}]

\* A directory's blobs, in an order in which sort_by_key may leave them.
SortedDir(S, place) ==
  LET upTo(b, c) == \/ b.index < c.index
                    \/ /\ b.index = c.index
                       /\ place[b.index][b.nonce] <= place[c.index][c.nonce]
  IN Listed(S, upTo)

StorageInit ==
  /\ blobs = [k \in Cores |-> {}]
  /\ manifest = [k \in Cores |-> "none"]
  /\ acl = [k \in Cores |-> NoAcl]
  /\ revoked = [k \in Cores |-> {}]
  /\ busy = [k \in Cores |-> NoProc]
  /\ step = [k \in Cores |-> "idle"]
  /\ pc = [p \in Procs |-> "idle"]
  /\ who = [p \in Procs |-> Owner]
  /\ op = [p \in Procs |-> "push"]
  /\ at = [p \in Procs |-> NoCore]
  /\ dest = [p \in Procs |-> NoCore]
  /\ rest = [p \in Procs |-> <<>>]
  /\ batch = [p \in Procs |-> <<>>]
  /\ got = [p \in Procs |-> <<>>]
  /\ known = [p \in Procs |-> FALSE]
  /\ promised = [p \in Procs |-> FALSE]
  /\ restored = {}
  /\ pushed = [k \in Cores |-> {}]
  /\ acked = {}
  /\ commands = 0 /\ encryptions = 0 /\ crashes = 0 /\ revocations = 0

(***************************************************************************)
(* The client commands                                                     *)
(***************************************************************************)
\* A new command takes the place of one that has ended and left no request.
Begin(p, i, what, k, d) ==
  /\ pc[p] \in Ended \cup {"idle"}
  /\ batch[p] = <<>> /\ \A c \in Cores : busy[c] # p
  /\ commands < MaxCommands
  /\ commands' = commands + 1
  /\ who' = [who EXCEPT ![p] = i]
  /\ op' = [op EXCEPT ![p] = what]
  /\ at' = [at EXCEPT ![p] = k]
  /\ dest' = [dest EXCEPT ![p] = d]
  /\ known' = [known EXCEPT ![p] = FALSE]
  /\ promised' = [promised EXCEPT ![p] = \E a \in acked : a[1] = k]

\* store push: build_manifest, and encrypt_chunk with a fresh nonce each.
StartPush(p, k) ==
  /\ Begin(p, Owner, "push", k, NoCore)
  /\ encryptions < MaxEncryptions
  /\ encryptions' = encryptions + 1
  /\ pc' = [pc EXCEPT ![p] = "sending"]
  /\ rest' = [rest EXCEPT ![p] =
       [j \in 1 .. NumChunks |-> [index |-> j - 1, nonce |-> encryptions + 1]]]
  /\ got' = [got EXCEPT ![p] = rest'[p]]
  /\ UNCHANGED <<store, task, batch, history, crashes, revocations>>

\* store pull, and the reading half of replicate.
StartPull(p, i, k, d) ==
  /\ d # k
  /\ Begin(p, i, IF d = NoCore THEN "pull" ELSE "replicate", k, d)
  /\ pc' = [pc EXCEPT ![p] = "fetching"]
  /\ rest' = [rest EXCEPT ![p] = <<>>]
  /\ got' = [got EXCEPT ![p] = <<>>]
  /\ UNCHANGED <<store, task, batch, history, encryptions, crashes,
                 revocations>>

\* push_chunks: the next batch, or Ok when all are acknowledged.
SendBatch(p) ==
  /\ pc[p] = "sending"
  /\ \/ /\ rest[p] # <<>>
        /\ batch' = [batch EXCEPT ![p] = Page(rest[p])]
        /\ rest' = [rest EXCEPT ![p] = After(@, Len(batch'[p]))]
        /\ pc' = [pc EXCEPT ![p] = "storing"]
        /\ UNCHANGED acked
     \/ /\ rest[p] = <<>>
        /\ pc' = [pc EXCEPT ![p] = "done"]
        /\ acked' = acked \cup {<<at[p], Elems(got[p])>>}
        /\ UNCHANGED <<rest, batch>>
  /\ UNCHANGED <<store, task, job, at, got, known, restored, pushed, bounds>>

\* Mutant: an Error reply is taken for an acknowledgement.
TakeAckAny(p) ==
  /\ pc[p] \in {"acked", "refused"}
  /\ pc' = [pc EXCEPT ![p] = "sending"]
  /\ UNCHANGED <<store, task, job, at, rest, batch, got, known, history,
                 bounds>>

\* The reply to StoreChunks.
TakeAck(p) ==
  /\ pc[p] \in {"acked", "refused"}
  /\ pc' = [pc EXCEPT ![p] = IF @ = "acked" THEN "sending" ELSE "failed"]
  /\ UNCHANGED <<store, task, job, at, rest, batch, got, known, history,
                 bounds>>

\* The two breaks of pull_chunks, with s collected so far.
LastPage(found, s, page) ==
  (found /\ Len(s) >= NumChunks) \/ page = <<>>

\* pull_chunks returns Ok only for as many blobs as the manifest has chunks.
Whole(s) == Len(s) = NumChunks

\* reconstruct: the chunks are verified one by one, then the total size.
Reconstructs(s) ==
  SizeTo(Sizes(s), Len(s)) =
    SizeTo([j \in 1 .. NumChunks |-> ChunkSize[j - 1]], NumChunks)

\* A page arrived (in `batch'): pull_chunks asks for the next one from offset
\* collected.len(), or stops when it has enough or the page is empty.  What it
\* returns it sorts.
TakePage(p) ==
  /\ pc[p] = "paged"
  /\ got' = [got EXCEPT ![p] = @ \o batch[p]]
  /\ LET finished == LastPage(known[p], got'[p], batch[p])
         whole == known[p] /\ Whole(got'[p]) IN
     \/ /\ ~finished
        /\ pc' = [pc EXCEPT ![p] = "fetching"]
        /\ UNCHANGED <<rest, at, restored>>
     \/ /\ finished
        /\ ~whole
        /\ pc' = [pc EXCEPT ![p] = "failed"]
        /\ UNCHANGED <<rest, at, restored>>
     \/ /\ finished
        /\ whole
        /\ op[p] = "pull"
        /\ IF Reconstructs(got'[p])
           THEN /\ pc' = [pc EXCEPT ![p] = "done"]
                /\ restored' = restored \cup {<<who[p], at[p], Sort(got'[p])>>}
           ELSE /\ pc' = [pc EXCEPT ![p] = "failed"]
                /\ UNCHANGED restored
        /\ UNCHANGED <<rest, at>>
     \/ /\ finished
        /\ whole
        /\ op[p] = "replicate"
        /\ pc' = [pc EXCEPT ![p] = "sending"]
        /\ rest' = [rest EXCEPT ![p] = Sort(got'[p])]
        /\ at' = [at EXCEPT ![p] = dest[p]]
        /\ UNCHANGED restored
  /\ batch' = [batch EXCEPT ![p] = <<>>]
  /\ UNCHANGED <<store, task, job, known, pushed, acked, bounds>>

\* A command loses its connection, waits for a reply that will not come, or is
\* interrupted by its user.  A batch already sent may still reach the core.
Kill(p) ==
  /\ pc[p] \notin Ended \cup {"idle"}
  /\ pc' = [pc EXCEPT ![p] = "killed"]
  /\ \/ pc[p] = "storing" /\ UNCHANGED batch
     \/ /\ \A k \in Cores : busy[k] # p
        /\ batch' = [batch EXCEPT ![p] = <<>>]
  /\ UNCHANGED <<store, task, job, at, rest, got, known, history, bounds>>

(***************************************************************************)
(* The core: store_chunks, fetch_chunks, and the revocation it gates on    *)
(***************************************************************************)
\* Mutant: revocation is checked on reads only.
PermittedToStoreAlways(k, i) == TRUE

PermittedToStore(k, i) == i \notin revoked[k]

\* A StoreChunks request is taken from the inbox, of a process that is gone
\* perhaps.
BeginStore(p, k) ==
  /\ pc[p] \in {"storing", "killed"} /\ at[p] = k /\ batch[p] # <<>>
  /\ busy[k] = NoProc
  /\ IF PermittedToStore(k, who[p])
     THEN /\ busy' = [busy EXCEPT ![k] = p]
          /\ step' = [step EXCEPT ![k] = "blobs"]
          /\ pushed' = [pushed EXCEPT ![k] = @ \cup {who[p]}]
          /\ UNCHANGED <<pc, batch>>
     ELSE /\ pc' = [pc EXCEPT ![p] = IF @ = "storing" THEN "refused" ELSE @]
          /\ batch' = [batch EXCEPT ![p] = <<>>]
          /\ UNCHANGED <<task, pushed>>
  /\ UNCHANGED <<store, job, at, rest, got, known, restored, acked, bounds>>

\* One blob: written to a temporary file and renamed.
StoreBlob(k) ==
  /\ step[k] = "blobs"
  /\ LET p == busy[k] IN
     \/ /\ batch[p] # <<>>
        /\ blobs' = [blobs EXCEPT ![k] = @ \cup {Head(batch[p])}]
        /\ batch' = [batch EXCEPT ![p] = Tail(@)]
        /\ UNCHANGED <<manifest, step>>
     \/ /\ batch[p] = <<>>
        /\ manifest' = [manifest EXCEPT ![k] = "torn"]
        /\ step' = [step EXCEPT ![k] = "manifest"]
        /\ UNCHANGED <<blobs, batch>>
  /\ UNCHANGED <<acl, revoked, busy, pc, job, at, rest, got, known, history,
                 bounds>>

\* Mutant: the error path leaves the dispatcher with its request.
StoreManifestStuck(k) ==
  /\ step[k] = "manifest"
  /\ manifest' = [manifest EXCEPT ![k] = "full"]
  /\ step' = [step EXCEPT ![k] = IF acl[k] = Torn THEN "idle" ELSE "acl"]
  /\ UNCHANGED <<blobs, acl, revoked, busy, command, history, bounds>>

\* manifest.json is written in place; then acl.json is read, and if it cannot
\* be parsed the request fails.
StoreManifest(k) ==
  /\ step[k] = "manifest"
  /\ manifest' = [manifest EXCEPT ![k] = "full"]
  /\ IF acl[k] = Torn
     THEN /\ pc' = [pc EXCEPT ![busy[k]] =
                             IF @ = "storing" THEN "refused" ELSE @]
          /\ busy' = [busy EXCEPT ![k] = NoProc]
          /\ step' = [step EXCEPT ![k] = "idle"]
     ELSE /\ step' = [step EXCEPT ![k] = "acl"]
          /\ UNCHANGED <<pc, busy>>
  /\ UNCHANGED <<blobs, acl, revoked, job, at, rest, batch, got, known,
                 history, bounds>>

Readers(k) == IF acl[k] = NoAcl THEN {} ELSE acl[k]

\* Mutant: the list is replaced, not extended, by one that lacks the owner.
StoreAclOnce(k) ==
  /\ step[k] = "acl"
  /\ acl' = [acl EXCEPT ![k] = IF acl[k] = NoAcl THEN {who[busy[k]]}
                               ELSE {}]
  /\ pc' = [pc EXCEPT ![busy[k]] = IF @ = "storing" THEN "acked" ELSE @]
  /\ busy' = [busy EXCEPT ![k] = NoProc]
  /\ step' = [step EXCEPT ![k] = "idle"]
  /\ UNCHANGED <<blobs, manifest, revoked, job, at, rest, batch, got, known,
                 history, bounds>>

\* write_acl, and StoreAck.
StoreAcl(k) ==
  /\ step[k] = "acl"
  /\ acl' = [acl EXCEPT ![k] = Readers(k) \cup {who[busy[k]]}]
  /\ pc' = [pc EXCEPT ![busy[k]] = IF @ = "storing" THEN "acked" ELSE @]
  /\ busy' = [busy EXCEPT ![k] = NoProc]
  /\ step' = [step EXCEPT ![k] = "idle"]
  /\ UNCHANGED <<blobs, manifest, revoked, job, at, rest, batch, got, known,
                 history, bounds>>

\* Mutants: whoever asks may read; the offset is taken for a page number.
PermittedToFetchAlways(k, i) == TRUE

PermittedToFetch(k, i) ==
  i \notin revoked[k] /\ acl[k] # Torn /\ i \in Readers(k)

PageFromStart(s, offset) == Page(s)

PageFrom(s, offset) == Page(After(s, offset))

\* FetchChunks from offset collected.len().
Fetch(p, k) ==
  /\ pc[p] = "fetching" /\ at[p] = k
  /\ busy[k] = NoProc
  /\ IF PermittedToFetch(k, who[p])
     THEN \E place \in DirOrders :
            /\ batch' = [batch EXCEPT ![p] =
                 PageFrom(SortedDir(blobs[k], place), Len(got[p]))]
            /\ known' = [known EXCEPT ![p] = @ \/ manifest[k] = "full"]
            /\ pc' = [pc EXCEPT ![p] = "paged"]
     ELSE /\ pc' = [pc EXCEPT ![p] = "failed"]
          /\ UNCHANGED <<batch, known>>
  /\ UNCHANGED <<store, task, job, at, rest, got, history, bounds>>

\* RevokeBroadcast from an operator of core k (app/core.rs): the set is read,
\* extended and renamed into place.
Revoke(k, i) ==
  /\ busy[k] = NoProc
  /\ i \notin revoked[k]
  /\ revocations < MaxRevocations
  /\ revocations' = revocations + 1
  /\ revoked' = [revoked EXCEPT ![k] = @ \cup {i}]
  /\ UNCHANGED <<blobs, manifest, acl, task, command, history, commands,
                 encryptions, crashes>>

\* The core dies, in the middle of a file operation perhaps, and is started
\* again; the request it was handling, and those in its inbox, get no reply.
Crash(k) ==
  /\ crashes < MaxCrashes
  /\ crashes' = crashes + 1
  /\ \/ UNCHANGED acl
     \/ step[k] = "acl" /\ acl' = [acl EXCEPT ![k] = Torn]
  /\ busy' = [busy EXCEPT ![k] = NoProc]
  /\ step' = [step EXCEPT ![k] = "idle"]
  /\ LET lost == {p \in Procs : at[p] = k /\ pc[p] \in
                                   {"storing", "fetching", "killed"}} IN
     /\ pc' = [p \in Procs |-> IF p \in lost THEN "killed" ELSE pc[p]]
     /\ batch' = [p \in Procs |-> IF p \in lost THEN <<>> ELSE batch[p]]
  /\ UNCHANGED <<blobs, manifest, revoked, job, at, rest, got, known, history,
                 commands, encryptions, revocations>>

ProcStep(p) ==
  \/ SendBatch(p) \/ TakeAck(p) \/ TakePage(p)

CoreStep(k) ==
  \/ \E p \in Procs : BeginStore(p, k) \/ Fetch(p, k)
  \/ StoreBlob(k) \/ StoreManifest(k) \/ StoreAcl(k)

StorageNext ==
  \/ \E p \in Procs :
       \/ \E k \in Cores :
            \/ StartPush(p, k)
            \/ \E i \in Ids, d \in Cores \cup {NoCore} : StartPull(p, i, k, d)
       \/ ProcStep(p)
       \/ Kill(p)
  \/ \E k \in Cores :
       CoreStep(k) \/ Crash(k) \/ (\E i \in Ids : Revoke(k, i))

StorageSpec == StorageInit /\ [][StorageNext]_vars

(***************************************************************************)
(* Properties                                                              *)
(***************************************************************************)
StorageTypeOK ==
  /\ blobs \in [Cores -> SUBSET Blobs]
  /\ manifest \in [Cores -> {"none", "torn", "full"}]
  /\ acl \in [Cores -> (SUBSET Ids) \cup {NoAcl, Torn}]
  /\ revoked \in [Cores -> SUBSET Ids]
  /\ busy \in [Cores -> Procs \cup {NoProc}]
  /\ step \in [Cores -> StoreSteps]
  /\ \A k \in Cores : (busy[k] = NoProc) <=> (step[k] = "idle")
  /\ pc \in [Procs -> Pcs]
  /\ who \in [Procs -> Ids]
  /\ op \in [Procs -> {"push", "pull", "replicate"}]
  /\ at \in [Procs -> Cores \cup {NoCore}]
  /\ dest \in [Procs -> Cores \cup {NoCore}]
  /\ \A p \in Procs : {rest[p], batch[p], got[p]} \subseteq Seq(Blobs)
  /\ known \in [Procs -> BOOLEAN] /\ promised \in [Procs -> BOOLEAN]
  /\ pushed \in [Cores -> SUBSET Ids]
  /\ acked \subseteq Cores \X SUBSET Blobs
  /\ commands \in 0 .. MaxCommands
  /\ encryptions \in 0 .. MaxEncryptions
  /\ crashes \in 0 .. MaxCrashes
  /\ revocations \in 0 .. MaxRevocations

\* The chunks of the file, each once, in order.
IsFile(s) == /\ DOMAIN s = 1 .. NumChunks
             /\ \A j \in DOMAIN s : s[j].index = j - 1

\* What pull_chunks and reconstruct accept is the file, if it was encrypted
\* once: pages that start at the number of blobs collected neither skip nor
\* repeat one, whatever batches, crashes and replication came before.
PullExact == encryptions <= 1 => \A r \in restored : IsFile(r[3])

\* When push_chunks returns Ok the core holds every blob it was handed, in
\* whatever batches they went, and keeps them through crashes and later pushes.
AckedStaysStored == \A a \in acked : a[2] \subseteq blobs[a[1]]

\* A pull begun after a push to that core returned Ok fails only after a
\* revocation, a crash or a second encryption, or for an identity that never
\* stored the file there.
PromisedPullSucceeds ==
  \A p \in Procs :
    /\ promised[p] /\ pc[p] = "failed"
    /\ crashes = 0 /\ revocations = 0 /\ encryptions <= 1
    => who[p] \notin pushed[at[p]]

\* Only an identity that stored the file at a core restores it from there: the
\* access list grows by its uploaders only, replicate included.
OnlyUploadersRestore == \A r \in restored : r[1] \in pushed[r[2]]

\* From the revocation on, a core neither keeps a blob for the revoked identity
\* nor hands it one, in the middle of a transfer of several batches too.
RevokedShutOut ==
  [][\A p \in Procs, k \in Cores :
       at[p] = k /\ who[p] \in revoked[k] =>
         /\ busy[k] = p => blobs'[k] = blobs[k]
         /\ pc[p] = "fetching" => pc'[p] # "paged"]_vars

\* "the store is content-addressed and idempotent, so a re-push (resume) is
\* safe" (app/storage.rs): a restored file is the stored one, however often it
\* was pushed.
RepushSafe == \A r \in restored : IsFile(r[3])

=============================================================================
