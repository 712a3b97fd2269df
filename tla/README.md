# NeoNet: a TLA+ verification project

NeoNet (`src/`) is a Rust program that connects devices into a small mesh. A
*core* listens, an *edge* or a one-shot command dials; identities are Ed25519
keys; messages between identities are routed by the node they arrive at, held
in a bounded queue when nobody can take them, and carry application frames: file
transfer, encrypted storage, lobbies, pairing, rendezvous, revocation. This
directory holds TLA+ models of the part of it where order, failure and
concurrency decide what is correct, TLC configurations, and TLAPS proofs.

Paths such as `src/src/node.rs` are paths in this checkout. `PROJECT.json` maps
every definition to the lines it models.

## 1. Inventory

| Component | State | Operations | What makes it correct |
|---|---|---|---|
| Router (`messaging.rs`) | `peers` (inboxes of local recipients), `next_hops`, `relays`, `queues`; all behind one tokio mutex per node | `register`, `unregister`, `set_next_hop`, `remove_next_hop(_if_current)`, `set_relay`, `remove_relay`, `send` (awaits a channel with the mutex held) | nothing duplicated or forgotten, FIFO, bounded queues that evict their oldest message, queued only when no route took it |
| Node (`node.rs`) | per connection: a reader and a writer task and an `mpsc` channel; `home`, allow list | `register_local`, `serve`, `dial`, `pump_connection`, `send_raw`, `await_any_next_hop` | routes agree with connections, a reconnect survives the end of the old connection, senders are attributed, no task waits for ever |
| Transport and protocol (`transport/`, `protocol/`, `bootstrap/`) | one handshake per connection | Hello, challenge, signature, pinned key | both ends agree on the identities |
| Client and dispatch (`app/mod.rs`) | map from message id to the waiting call | `Client::connect`, `call`, `handle`, `reply` | a reply ends exactly the call it answers |
| File transfer (`app/files.rs`, `files/mod.rs`) | `incoming/<id>/`: `manifest.json`, `chunks/`, `state.json`, the output file | `send_file`, `send_file_and_wait`, `receive_chunk`, `reconstruct_from_verified` | state never ahead of the chunks, completion means stored, resume keeps what was verified, transfers end |
| Encrypted storage (`app/storage.rs`, `storage/mod.rs`, `main.rs`) | `blobs/<id>/`: blobs, `manifest.json`, `acl.json`; `revocations.json` | `push_chunks`, `pull_chunks`, `store_chunks`, `fetch_chunks`, replicate, `revoke_identity` | an acknowledged blob stays, a pull gives the file or fails, only uploaders that are not revoked read |
| Pairing (`pair.rs`, `app/pair.rs`, `flasher.rs`) | `pair.json`, `paired.json`, `devices.json`, the bundle on a drive | `issue_token`, `consume_token`, `record_pairing`, the Redeem handler, `author`, `adopt`, `flash` | a token lets one presentation through before it expires; who is in the ledger earned it; who was told "paired" is in it |
| Lobbies (`lobby.rs`, `app/lobby.rs`) | at a host: key and members in memory, a log; at a member: roster and log files | `register_host`, Join, Post, Relay, Leave | only those let in hear a post, each once, and over one connection in the host's order; no relay is dropped without a cause; the cap holds |
| Rendezvous (`app/rendezvous.rs`) | `rendezvous.json` | Register, List, Probe; `scan`, `scan --active` | what is acknowledged stays until it expires; a scan shows live registrations |
| Revocation and operators (`app/core.rs`, lists of `app/storage.rs`, `main.rs`) | `operators.json`, `revocations.json`, each device's `revoke.epoch` | `operator add`, `revoke`, RevokeBroadcast | only operators revoke, no number is used twice, what is acknowledged stays |
| Burrow, shell, ssh, update, installers | directories, an in-memory tree, external programs | sequential | not modelled: no concurrency or recovery of their own |

**Interaction.** Connections' readers, the dispatcher of a core or edge and the
user's commands all call `Router::send` through one mutex. Readers put what is
addressed to this node into its inbox, an `mpsc` channel; the dispatcher takes
one message at a time, runs its handler to completion and sends the reply
through the same router. A command sends a request and waits, without a limit,
for the reply with its id. Handlers keep their state in files below the node's
home, some written through a temporary file and renamed, some in place.
Processes of one home (a core, a hosting shell, one-shot commands) share those
files without a lock.

Which home a process uses depends on how it is started. `Node::new` takes the
directory of the key file (`node.rs:58`), which for `load_identity`
(`main.rs:588`) is `NEONET_HOME/identity`; `mesh_client` and the shell set it to
`NEONET_HOME`. So `core`, `edge`, `host`, `pair` and `operator` work in the
first, the shell, `flasher`, `pairs` and the one-shot commands in the second.

**What is hard here.** The mutex is held while a full channel is awaited;
connections of the same identity overlap; teardown runs late; a route may be
dead for as long as nothing is written to it; a handler may stop between two of
its file operations, and another process may rewrite the same file there;
commands are interrupted and repeated; pages and batches interleave with other
clients. `PROJECT.json` lists these as `hazards`, each at its line, with the
properties that would notice.

## 2. Modules

| Module | Models | Proofs | Instance |
|---|---|---|---|
| `Router` | one router driven through its whole interface; `send` as the series of attempts it is | `RouterProofs` | `MCRouter` |
| `Node` | EXTENDS `Router`: connections, tasks and the mutex around it | `NodeProofs` | `MCNode` (a core, an edge, two small cores) |
| `Files` | a transfer between a sender process and a receiving node | `FilesProofs` | `MCFiles` |
| `Storage` | client processes, cores and the files they keep | `StorageProofs` | `MCStorage` |
| `Pair` | the processes of one device, its token and ledger files, and the devices that present tokens | `PairProofs` | `MCPair` |
| `Room` | what a lobby promises | | |
| `Lobby` | hosts and members with their frames; implements `Room` | `LobbyProofs` | `MCLobby` |
| `Services` | the lists of a core (registrations, operators, revocations) and the commands that change or read them | `ServicesProofs`, `AppliedProofs` | `MCServices` |

**Router.** `peers`, `next_hops`, `relays` and `offline` are the tables of the struct; a
channel is a bounded sequence with a receiver that may be dropped. `SendStart`
validates the size, then `stage` walks through the attempts of `send`: the inbox,
the next hop, each relay in some order, the queue. Each attempt is one step,
since it may wait for room. Failed attempts remove the table entry, as the
code does. `place`, `via` and `stamp` are history variables: where a message is (new, under way, in a
channel, queued, taken, evicted, lost, rejected), by which channel it went, and when it was accepted.
tokio's channels are external; their model is `Room`, `Recv`, `DropRx`.

**Node.** Every router operation of a node is joined to the connection step that
performs it: `InstallHop` and `InstallRelay` are the two lock sections at the start
of `pump_connection`, `Teardown` the last one. `TaskSend` takes the mutex for
a task that has a message in `hand`; `SendContinues` is the rest of `send`; everything
else that needs the mutex waits until `stage` is idle. `program` tells
`run_server` and `run_edge` (inbox first, `RegistersFirst`) from `mesh_client` and the shell (dial
first). `EdgeExits` is the other arm of `run_edge`'s `select!`: when its dial ends, the loop
is left and the process ends. The handshake is one step with the allow-list check after it. The edge
instance allows two dials to the same core, which is what the shell does when it
dials again; `run_edge` makes only one.

**Files.** A manifest is the content that was hashed together with the size read
when the file was opened, so that an edit in between is visible. The receiver's
handler is split at each file operation (`HandleChunk`, `RecordChunk`, `CreateFile`,
`WriteFile`); `IoError` and `Crash` may come between any two. Frames are lost, or
damaged (`intact` is FALSE); the user may kill the sender and run it again.

**Storage.** A blob is a chunk index and the encryption run it comes from, for each
run draws fresh nonces and so gives other blob names. `Page` is the greedy
rule that both `push_chunks` and `fetch_chunks` follow. A batch is stored blob by
blob, then the manifest, then the access list, the latter two in place; a crash
leaves either torn. A request of a killed command may still reach its core.

**Pair.** A process is a shell, a `neonet pair` that goes on to redeem, an author of
a drive or an adoption; `Home` says whose files it uses. `issue_token` is a write
to `pair.tmp` and a rename; `consume_token` a read with its tests
(`TakeRedeem`), a write and a rename; `record_pairing` a read, a write and a rename
(`LoadLedger`, `SaveLedger`, `RenameLedger`). All processes of a home share the two
temporary names, so a rename may find the other's content or nothing.
`Redeemable` is the condition of `consume_token` on what was read. `presented`,
`accepted` and `confirmed` say what a device has done to earn its place;
`overlapped` and `disturbed` mark the tokens and devices whose file another process
rewrote at the same time.

**Lobby.** One task of the host handles frames in turn: `CheckPost` and `LogPost` are the
two lock sections of Post, `RelayTo` and `ReplyPosted` its awaits, and
`register_host` and `HostStop` may come between them. A request that reaches another process
of the host's home is answered by `HandleElsewhere`, since that one hosts nothing. A member is a home with any number of
processes (`Sessions`, `Home`), for a shell and a one-shot command use one identity and write one
log and one roster. A path is the chain of connections from a host to one such process; a
connection that is replaced makes another path. `Sent` is the channel, the writer and the reader of
`pump_connection`, which keep the order of one connection, and `Send` is `Router::send`, which takes
whichever connection was installed last. So frames keep their order on a path only. `LoseFrame`
takes any frame under way, at any time: the session of a shell outlives its connection. At the member,
`Pump` takes frames while the command's call waits, and `Finish` is what the command does
with the answer, the roster entry included: between the two a relay finds no
entry. A post stands for its place in the host's log, `said`. `relayed` and `missed` are history: what the host counted as
relayed, and which of it was lost or found no roster entry.

**Room.** Two actions: a host says the next post, a member hears one that it has not heard
and that is later than what it heard of that host over the same path. `Lobby` maps `said` to the length of the
host's log and `heard` to itself (`room == INSTANCE Room WITH ...`).

**Services.** `Load`, `Write` and `Rename` are the three file operations of every change of a list;
handlers of several processes and `operator add` run them against one temporary name each. A
registration is kept with its expiry, clamped by `Ttl`; `Live` is `prune`. A
revocation is counted in three steps (`Revoke`, `WriteEpoch`, `RenameEpoch`) before it is
sent (`Broadcast`). `scan --active` probes one hit at a time, and the answer comes
from the list. `sent`, `taken` and `acked` are what happened to each call, `disturbed` and
`late` mark the calls that another rewrite or an older registration got in the way of.

Mutated forms of some definitions stand before them, marked `Mutant`; no
specification uses them. They show that each property notices a plausible mistake.

## 3. Runs

| Run | Instance | Shows |
|---|---|---|
| `router` | two identities, two inboxes, one link, four messages (one oversized), queue and channel bounds of 2 and 1 | conservation, FIFO, bounds, eviction order, no queueing past a route; and the inductive invariant of the proofs |
| `core_safety` | a core, a device that reconnects while its old connection dies, and one off the allow list; channels of one slot | the table follows the newest connection, attribution, `Node` implements `Router` |
| `edge` | an edge, or a shell, that dials one core twice over channels of one slot, either connection may die and one may stop reading; the edge ends with its dial | routes are backed by connections; the mail of a node that registers first stays with it |
| `files` | a file of two chunks that may be edited to one or none, two runs, one each of edit, loss, damage, fault | recorded means on disk, complete means stored, verified is kept, transfers end, damaged chunks are sent again |
| `storage` | two cores, two client processes, two identities, three commands, two encryptions, one crash, one revocation | acknowledged blobs stay, pulls are exact, promised pulls succeed, only uploaders that are not revoked are served |
| `pair` | one shell, one author, one adoption, two other devices, two tokens of one tick's life, two calls, one fault | a token lets one presentation through, who is in the ledger earned it, who was told "paired" is in it, a refusal has a cause, a call ends |
| `lobby` | one host with one seat or two, two members, one of them with two processes and so two paths, two keys, two posts, three calls, any frame may be lost | only those let in hear a post, `Lobby` implements `Room`, a poster hears its own before it is told so, no relay is dropped without a cause |
| `services` | two handlers and one `operator add`, a device with a shell, one with a shell and a `neonet revoke`, three calls, one tick, one fault | what is acknowledged stays, operators named whoever is revoked, a scan shows live registrations, no number is used twice, commands end |

Four more runs state what a comment or document says and show a behaviour of the
code that contradicts it:

| Run | Statement | Behaviour |
|---|---|---|
| `inbox_full` | "Connected recipients are delivered immediately" (`messaging.rs:173`) | with a full inbox a reader waits for room holding the mutex, the dispatcher waits for the mutex to reply: nothing moves any more |
| `reconnect` | "delivered FIFO on reconnect" (`IMPLEMENTATION.md:16`) | `set_next_hop` does not drain the queue; only a local `register` does |
| `storage_repush` | "idempotent, so a re-push (resume) is safe" (`app/storage.rs:269`) | a second push leaves two blobs of each chunk, and a pull restores the first chunk twice and reports success |
| `pair_dirs` | `pair` "stays online until a device" redeems its token (`CLI.md:275`) | it publishes the token in `NEONET_HOME` and reads `NEONET_HOME/identity`, so it refuses it |

**Bounds.** Queue and channel capacities of one or two are where a bound bites
(full, evicting, waiting). Two connections of one identity are the least in
which an old and a new one overlap, and a third adds a peer that is refused.
Two file operations interrupted by one fault reach every pair of adjacent
operations; a second run or command then meets what was left. Three storage
commands are push, replicate, pull, or push, push, pull. The
`storage` instance has four equal chunks, two to a batch, so that a page starts in the
middle of the list; `storage_repush` has the program's own ratio of 768 KiB
chunks to 900 KiB batches, where each chunk travels alone. In `pair`, two tokens
let one replace the other under a redemption, two devices compete for one, and
the lifetime of one tick under a request of two meets the clamp and both sides of the
expiry. In `lobby`, one seat for two members meets the cap, and a second key the lobby that
starts over. The two processes of one member are two paths that overtake each other; several paths
to one process (a shell that dials again) and several hosts multiply the states and
are left to the proof. In `services`, three calls are an operator, its
revocation and one more, or two registrations and a scan; two handlers are enough for
a lost update. A `neonet revoke` beside a shell
meets it between each pair of file operations of the counter. Where the `symmetry` keyword is used, no liveness is checked and
nothing tells the permuted values apart. Deadlock is not checked: a system all of whose messages
are delivered, or whose user runs no more commands, stops.

**Fairness.** tokio runs every ready task, and its mutex serves waiters in
FIFO order: strong fairness for steps that take the mutex, weak fairness for
steps of a task that needs nothing but itself (`Node`, in its two runs of liveness). The remote end of a connection,
the user, losses, edits and faults have none. In `Files` the two processes' own
steps are weakly fair, in `Pair` the redeeming processes and the waiting call, in `Services` the core's handlers and a command that was started. `TransferEnds`,
`DamagedIsResent`, `FlashEnds` and `CommandEnds` are stated for behaviours without a loss or
a fault, since a call has no timeout and a lost frame does block the code. For the last two a
rewrite by another process counts as a fault: it makes a handler return
without a reply. `CommandEnds` leaves out a device with two sessions, where a frame goes to either.

## 4. Where the code and its documents disagree

Besides the four runs above, the models were built on these observations, each
checked while the module was written:

- A message of exactly `MAX_MESSAGE_SIZE` passes `validate_size`, but the frame's tag
  makes it one byte too long and the writer drops it (`messaging.rs:105`). The
  Status frame of a file of more than about 31 000 chunks is too long as well.
- A closed connection stays a route until a write to it fails: its writer waits on a
  channel whose sender its own pump keeps (`node.rs:293`; the comment at 244 says "until
  the connection closes").
- The end of an older dial removes the relay entry of the newer one (`node.rs:311`;
  `messaging.rs:229` says "must not clobber a live replacement").
- A slow peer blocks others, contrary to `node.rs:155`, as `send` awaits its channel under the
  mutex. `reachable` may be out of date when `send` runs. A command dials before it
  registers, so a message for it that arrives early is queued or relayed (`main.rs:735`).
- `run_edge` ends when its dial does, and the mail in its inbox with it (`main.rs:1164`).
- The log of a lobby keeps the host's order per connection only: `next_hops` has one entry per
  identity, so while a redial overlaps an older connection, or a command runs beside a shell
  (`main.rs:703`, `main.rs:827`), relays are split over two readers or two processes that
  append to one log. `Room` therefore promises order per path.
- `relayed` in a Posted answer counts relays that were accepted by the router; one on a connection
  that drops is gone, although the session stays on and redials (`node.rs:296`, `main.rs:810`).
- A stop after the last chunk is recorded and before the file is assembled is never
  repaired, though completion is reported (`files/mod.rs:427`, comment at 406).
- `send_file_and_wait` tests its deadline only when a reply arrives, and `Client::call` has
  none, so that a lost frame keeps the command waiting (`app/files.rs:304`, `app/mod.rs:199`).
- `node_is_revoked` is said to fail closed, but an unreadable `revocations.json` counts as
  empty (`app/storage.rs:235`).
- Two shells of one home can both redeem a token (`pair.rs:86`, "After one redemption the token
  is dead"): each reads it unused. `RedeemedOnce` therefore assumes one shell.
- A redemption whose recording fails has used up its token, contrary to "never a partial
  state" (`pair.rs:86`). `neonet pair` does not exit after a redemption. The token in a
  flashed bundle is never presented, though `flasher.rs:315` says so.
- `scan --active` asks the core whether the record is unexpired; `CLI.md:258` says that it opens a
  connection to each hit. A delayed older registration replaces a newer one
  (`CLI.md:242`, "tracks the latest").
- Two revoke commands at once get the same number (`main.rs:605`, "so every broadcast is unique"),
  and no core compares the numbers. A revocation is sent to one core, while `app/core.rs:6` says
  "every configured core".

## 5. Proofs

All proofs are for every value of the constants that meets the named
assumptions of the modules.

`RouterProofs` proves `RouterSpec => []RouterInv`. The properties are not inductive
alone. `RouterInv` adds `WalkOK` (what is under way agrees with the stage of `send`
and the routes not yet tried), `StampsOK` (the message
under way is the newest), `ChannelsOK` (only messages that entered a channel have one,
and an unused or dropped channel is empty) and `RegisteredNotQueued` (a registered identity has no queue). From it follow
`TypeCorrect`, `QueuesBounded`, `MessagesConserved`, `OrderKept`, and `QueuedWithoutRoute`,
an action property. The lemmas on `Append`, `Tail` and `Push` say what a queue operation
does to the elements and their stamps; there is one lemma per action.

`NodeProofs` proves `NodeImplementsRouter`: each step of a node is one of its router
or leaves it unchanged, so that every theorem above holds in a node. Then
`NodeInvariance` with `NodeInv`, which adds `ConnectionsOK` (phases, tasks and channel
of a connection go together) and `HandsOK` (whose messages tasks carry), gives
`ReplacementKept`, `RoutesBacked` and `SendersAttributed`. `OwnMailKept` is about `run_server` and `run_edge`
(`RegistersFirst`), whichever of them the process is: the inbox is registered whenever a dispatcher runs or a
connection is open (`Listening`), and the first attempt of `send` finds it.

`FilesProofs` proves what the receiver keeps on disk: `RecordedOnDisk` and
`VerifiedNeverLost`, the second an action property. `FilesInv` adds that the chunk about
to be recorded is on disk already (`ArrivedOK`), the shape of the directory (`DiskOK`),
and that whatever is announced is a manifest (`SenderOK`); about other frames it
assumes nothing, since `receive_chunk` checks them. `CompleteStored` rests on a count:
as many distinct recorded indices as there are chunks are all of them (`AllRecorded`, by the
pigeonhole theorem of the library). `StoredInv` adds that a status reply of
the present run is about the manifest polled and counts what was on disk (`PlansOK`), and that a
complete set whose file is not finished is being assembled, or the receiver has failed
(`StoredOK`). The proof showed that an edit of the source is no exception,
as an earlier form of the property had it. `FilesTypeCorrect` is the type invariant; the part
that needs an argument is that what is left to stream are chunks of the manifest that is
streamed. `TypedInv` says why: of the present run one announcement or one answer to it is under
way, and none once it was answered (`OpensOnce`), and the status is asked for after that
(`NotAsked`). Constants: `FilesAssumption` and `NoneAssumption`.

`PairProofs` proves `LedgersEarned` from `PairInv`: every copy of the ledger, in a file,
under a temporary name or in a process's memory, holds only devices that earned it
(`RecordsOK`), and every copy of a token is one that was generated, with its own expiry
(`TokensOK`). `TokenRedeemedOnce` adds `OnceInv`: a token that was accepted is used in every
copy and in no job any more (`DeadOK`), an unused copy under the temporary name is a token that
nobody has seen yet (`FreshOK`), and the directory that `neonet pair` reads has no token at all. It
assumes `OneShell`, with any number of other processes beside it; with two shells the property
is false (section 4). `PairedStaysRecorded` needs no such assumption. `RecordedInv`: whoever
was told, listed or is about to be is in the file (`SettledOK`); every list that may replace
the file, in memory or under the temporary name, holds what the file holds and the new
device (`CopiesOK`, `SavedOK`); two recordings that overlap have marked their devices (`AloneOK`).
`RefusedWithCause` assumes that no `neonet pair` runs (the run `pair_dirs` shows that it must),
but any number of shells. `HeldInv` follows the last token, as long as it crossed no redemption
and nobody used it up: before its rename the temporary file holds nothing else (`BeforeOut`),
after it pair.json holds it unused, whoever redeems holds that token, and no older issue finds a
temporary file to rename (`OnceOut`).

`LobbyProofs` is for any number of hosts, members, processes of a home and paths to each. Of
`LobbyInv`, `AdmitOK` says that every member of a lobby, every relay under way and every log entry belongs
to a device that was let in with the key concerned; the delicate case is the time between the two
locks of Post, in which the lobby either still has the key or has nobody in it. `AdmittedOnly` follows.
`OrderOK` says that the places of the posts on one path increase (`Ordered`), that none of them is in the
member's log or behind what the path brought before (`After`), that a post still to be relayed is
later than all of these (`Before`), and that no post is on two paths to one member (`Apart`).
`LobbyImplementsRoom` follows: no post is heard twice, and what one path brings is in order.
`HeardInv` accounts for every relay: `RelaysKept` says that one the host counted is in the log,
on a path, or in `missed`, however pumps, commands and sessions interleave. With it go the facts
that an answer comes from the host that was asked (`AnswersOK`), that a post is relayed to its poster
before it is answered (`RelayedOK`), and that an answer overtakes the relay on no path
(`PostsAnswered`, `Returned`); `PostersHear` follows.

`ServicesProofs` proves `RevokedNamedByOperators` and `ScanLive` with one predicate, `Fits`, that holds of
each file, of its temporary copy and of what a process is about to write; `Grows` and
`FactsStay` say that what was once true of a record stays true. `EpochsDiffer` rests on
`NumbersInv`: what was counted alone is below the file, below a temporary file that exists and
below whatever another command is counting (`Below`), and who counts alone owns the
temporary file (`CountsAlone`). The overlap that the property leaves out is the one described in section 4.

`AppliedProofs` proves `AckedStaysApplied`. `AppliedInv` follows each call from its
request to the answer: a change that was carried out alone is in the file (`FilesKeep`), in every
copy that another process is about to write (`JobsKeep`, `CopiesKeep`), and
two changes of one file that overlap are marked as such (`JobsApart`). The attempt showed that
the property as first stated was false beyond the instance of the run: a device may replace
its registration by a shorter one, which is pruned while the first would still be alive.
`Outlived` now says so.

`StorageProofs` proves `UploadersRestore` and `RevokedAreShutOut` from `StorageInv`: the access
list of a core names identities whose batch it let in (`AclOK`), whoever is being stored for is
one of them and is not revoked (`BusyOK`), since a revocation waits for the request under way,
and whoever holds a page is one of them (`PageOK`). `StorageTypeCorrect` and the other three also need
what pages and sorting do (`PageOf`, `SortOK`, `SortedDirOK`, from the ranks of a finite
order). `AckedStayStored` adds `UnderWayOK`: what a command has handed to `push_chunks` is
stored, in the batch under way or still to send. `PullsExact` adds `FileInv`: while the file has been encrypted
once, each store holds its first chunks up to some number, a push is at some chunk with all
before it stored, and a pull has collected the first chunks, so that the offset of the
next page is right. `PromisedPulls` adds who pushes (`OwnerOK`: to replicate
a file one must have read it, so only its owner does), what a core is like that has
neither crashed nor revoked anybody (`CalmInv`), and that a promised pull has a manifest
and an empty page only at the end (`PromiseInv`).

Model-checked only: liveness, since fairness is out of the prover's reach.

## 6. Not modelled

Cryptography (signatures and hashes either match or do not), encodings, printing,
argument parsing, the local key file, file permissions, external programs. The
handshake is one step of `Node`, and the bootstrap list is not there: a dial
reaches one core. Channels (`lobby channel`) append to a file and acknowledge. The
Members request of a lobby, Lookup of the rendezvous and the burrow only
read. The shell's tree is sequential and in memory. `ReplicaMap`,
`CoreBlobStore`, `core/mod.rs`, the multi-source coordinator and `files/transfer.rs` have no
caller in the program. `PROJECT.json` gives the reason for every component.

## 7. Plan

Done: the router and the node, since everything goes through them; file transfer and
storage, where files and failures meet; then pairing, lobbies with the abstract room, and the lists
of a core. What remains worth doing:

1. `Handshake`: two ends, either stopping at any frame, pinned and unpinned, and the
   bootstrap list; `Node`'s one-step handshake as its abstraction.
2. `Client`: calls, correlation and sizes of replies, as an abstraction for `Files`,
   `Pair`, `Lobby`, `Services` and `Storage`, each of which has its own small model of a call.
