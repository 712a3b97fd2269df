---------------------------- MODULE StorageProofs ---------------------------
(***************************************************************************)
(* Who a core stores for and whom it answers, that what it acknowledged it *)
(* keeps, and that a pull gives the file, for any number of cores,         *)
(* processes and identities, any chunks, and any crashes and revocations.  *)
(***************************************************************************)
EXTENDS Storage, FunctionTheorems, FiniteSetTheorems, SequenceTheorems, TLAPS

\* What the gates read.
ControlOK ==
  /\ acl = [k \in Cores |-> acl[k]]
  /\ revoked = [k \in Cores |-> revoked[k]]
  /\ busy \in [Cores -> Procs \cup {NoProc}]
  /\ step = [k \in Cores |-> step[k]]
  /\ \A k \in Cores : (busy[k] = NoProc) <=> (step[k] = "idle")
  /\ pc = [p \in Procs |-> pc[p]]
  /\ who = [p \in Procs |-> who[p]]
  /\ at = [p \in Procs |-> at[p]]
  /\ pushed = [k \in Cores |-> pushed[k]]

\* A core stores for an identity it has let in and has not revoked.
BusyOK ==
  \A k \in Cores : busy[k] # NoProc =>
    who[busy[k]] \in pushed[k] /\ who[busy[k]] \notin revoked[k]

\* The access list names uploaders, and is whole when it is extended.
AclOK ==
  \A k \in Cores :
    /\ acl[k] \notin {NoAcl, Torn} => acl[k] \subseteq pushed[k]
    /\ step[k] = "acl" => acl[k] # Torn

\* A page is in the hands of an uploader.
PageOK ==
  \A p \in Procs : pc[p] = "paged" => who[p] \in pushed[at[p]]

StorageInv ==
  ControlOK /\ BusyOK /\ AclOK /\ PageOK /\ OnlyUploadersRestore

-----------------------------------------------------------------------------
\* Initially no core holds anything and no process runs a command.
LEMMA InitInv == StorageInit => StorageInv
BY StorageAssumption
   DEF StorageInit, StorageInv, ControlOK, BusyOK, AclOK, PageOK,
       OnlyUploadersRestore

\* A process that begins a command is not being stored for and holds no page.
LEMMA BeginInv ==
  ASSUME StorageInv, NEW p \in Procs, NEW i, NEW what, NEW k, NEW d,
         Begin(p, i, what, k, d),
         pc' \in {[pc EXCEPT ![p] = "sending"], [pc EXCEPT ![p] = "fetching"]},
         UNCHANGED <<store, task, history>>
  PROVE  StorageInv'
<1> USE DEF StorageInv, store, task, history
<1>1. ControlOK'
  BY DEF ControlOK, Begin
<1>2. BusyOK'
  BY DEF ControlOK, BusyOK, Begin
<1>3. AclOK'
  BY DEF AclOK
<1>4. PageOK'
  BY DEF ControlOK, PageOK, Begin
<1>5. OnlyUploadersRestore'
  BY DEF OnlyUploadersRestore
<1> QED
  BY <1>1, <1>2, <1>3, <1>4, <1>5

\* A step that leaves the cores, the commands' owners and the restored files
\* alone, and hands no page out.
LEMMA ClientInv ==
  ASSUME StorageInv, UNCHANGED <<store, task, who, at, restored, pushed>>,
         NEW p \in Procs, NEW x, x # "paged", pc' = [pc EXCEPT ![p] = x]
  PROVE  StorageInv'
BY DEF StorageInv, ControlOK, BusyOK, AclOK, PageOK, OnlyUploadersRestore,
       store, task

\* The last page makes a restored file, or the start of a replicate's push.
LEMMA TakePageInv ==
  ASSUME StorageInv, NEW p \in Procs, TakePage(p)
  PROVE  StorageInv'
<1> USE DEF StorageInv, store, task, job
<1>1. /\ UNCHANGED <<store, task, who, pushed>>
      /\ pc[p] = "paged"
  BY DEF TakePage
<1>2. PICK x \in {"fetching", "failed", "done", "sending"} :
        pc' = [pc EXCEPT ![p] = x]
  BY DEF TakePage
<1>3. at' = at \/ at' = [at EXCEPT ![p] = dest[p]]
  BY DEF TakePage
<1>4. \/ restored' = restored
      \/ restored' = restored \cup {<<who[p], at[p], Sort(got'[p])>>}
  BY DEF TakePage
<1>5. ControlOK'
  BY <1>1, <1>2, <1>3 DEF ControlOK
<1>6. BusyOK'
  BY <1>1 DEF BusyOK
<1>7. AclOK'
  BY <1>1 DEF AclOK
<1>8. PageOK'
  BY <1>1, <1>2, <1>3 DEF ControlOK, PageOK
<1>9. OnlyUploadersRestore'
  BY <1>1, <1>4 DEF PageOK, OnlyUploadersRestore
<1> QED
  BY <1>5, <1>6, <1>7, <1>8, <1>9

\* A batch let in makes its sender an uploader; a revoked sender is refused.
LEMMA BeginStoreInv ==
  ASSUME StorageInv, NEW p \in Procs, NEW k \in Cores, BeginStore(p, k)
  PROVE  StorageInv'
<1> USE DEF StorageInv, store, task, job
<1>1. UNCHANGED <<store, who, at, restored>> /\ busy[k] = NoProc
  BY DEF BeginStore
<1>2. CASE PermittedToStore(k, who[p])
  <2>1. /\ busy' = [busy EXCEPT ![k] = p]
        /\ step' = [step EXCEPT ![k] = "blobs"]
        /\ pushed' = [pushed EXCEPT ![k] = @ \cup {who[p]}]
        /\ pc' = pc
    BY <1>2 DEF BeginStore
  <2>2. ControlOK'
    BY <1>1, <2>1, StorageAssumption DEF ControlOK
  <2>3. BusyOK'
    BY <1>1, <1>2, <2>1 DEF ControlOK, BusyOK, PermittedToStore
  <2>4. AclOK'
    BY <1>1, <2>1 DEF ControlOK, AclOK
  <2>5. PageOK'
    BY <1>1, <2>1 DEF ControlOK, PageOK
  <2>6. OnlyUploadersRestore'
    BY <1>1, <2>1 DEF ControlOK, OnlyUploadersRestore
  <2> QED
    BY <2>2, <2>3, <2>4, <2>5, <2>6
<1>3. CASE ~PermittedToStore(k, who[p])
  <2>1. /\ UNCHANGED <<task, pushed>>
        /\ pc' = [pc EXCEPT ![p] = IF pc[p] = "storing" THEN "refused"
                                   ELSE pc[p]]
        /\ pc[p] \in {"storing", "killed"}
    BY <1>3 DEF BeginStore
  <2> QED
    BY <1>1, <2>1, ClientInv
<1> QED
  BY <1>2, <1>3

\* The file operations of a batch: the core goes on, or is idle again.
LEMMA StoreInv ==
  ASSUME StorageInv, NEW k \in Cores,
         StoreBlob(k) \/ StoreManifest(k) \/ StoreAcl(k)
  PROVE  StorageInv'
<1> USE DEF StorageInv, history, job
<1>1. /\ UNCHANGED <<revoked, who, at, restored, pushed>>
      /\ step[k] # "idle"
  BY DEF StoreBlob, StoreManifest, StoreAcl
<1>2. busy[k] \in Procs
  BY <1>1 DEF ControlOK
<1>3. \/ pc' = pc
      \/ \E x : pc' = [pc EXCEPT ![busy[k]] = x]
                /\ (x = "paged" => pc[busy[k]] = "paged")
  BY DEF StoreBlob, StoreManifest, StoreAcl
<1>4. \/ busy' = busy /\ \E s : s # "idle" /\ step' = [step EXCEPT ![k] = s]
      \/ busy' = busy /\ step' = step
      \/ /\ busy' = [busy EXCEPT ![k] = NoProc]
         /\ step' = [step EXCEPT ![k] = "idle"]
  BY DEF StoreBlob, StoreManifest, StoreAcl
<1>5. ControlOK'
  BY <1>1, <1>2, <1>3, <1>4, StorageAssumption DEF ControlOK, StoreAcl,
     StoreBlob, StoreManifest
<1>6. BusyOK'
  BY <1>1, <1>4 DEF ControlOK, BusyOK
<1>7. AclOK'
  <2>1. CASE acl' = acl /\ (step'[k] = "acl" => acl[k] # Torn)
    BY <1>1, <1>4, <2>1 DEF ControlOK, AclOK
  <2>2. CASE StoreAcl(k)
    <3>1. /\ acl' = [acl EXCEPT ![k] = Readers(k) \cup {who[busy[k]]}]
          /\ step' = [step EXCEPT ![k] = "idle"]
          /\ acl[k] # Torn
      BY <2>2 DEF StoreAcl, AclOK
    <3>2. Readers(k) \cup {who[busy[k]]} \subseteq pushed[k]
      BY <1>1, <3>1 DEF ControlOK, BusyOK, AclOK, Readers
    <3> QED
      BY <1>1, <3>1, <3>2 DEF ControlOK, AclOK
  <2> QED
    BY <2>1, <2>2 DEF ControlOK, StoreBlob, StoreManifest
<1>8. PageOK'
  BY <1>1, <1>2, <1>3 DEF ControlOK, PageOK
<1>9. OnlyUploadersRestore'
  BY <1>1 DEF OnlyUploadersRestore
<1> QED
  BY <1>5, <1>6, <1>7, <1>8, <1>9

\* A page goes to an identity the access list names.
LEMMA FetchInv ==
  ASSUME StorageInv, NEW p \in Procs, NEW k \in Cores, Fetch(p, k)
  PROVE  StorageInv'
<1> USE DEF StorageInv, store, task, job, history
<1>1. UNCHANGED <<store, task, who, at, restored, pushed>> /\ at[p] = k
  BY DEF Fetch
<1>2. CASE PermittedToFetch(k, who[p])
  <2>1. pc' = [pc EXCEPT ![p] = "paged"]
    BY <1>2 DEF Fetch
  <2>2. who[p] \in pushed[k]
    BY <1>2 DEF PermittedToFetch, Readers, AclOK
  <2>3. PageOK'
    BY <1>1, <2>1, <2>2 DEF ControlOK, PageOK
  <2> QED
    BY <1>1, <2>1, <2>3
       DEF ControlOK, BusyOK, AclOK, OnlyUploadersRestore
<1>3. CASE ~PermittedToFetch(k, who[p])
  <2>1. pc' = [pc EXCEPT ![p] = "failed"]
    BY <1>3 DEF Fetch
  <2> QED
    BY <1>1, <2>1, ClientInv
<1> QED
  BY <1>2, <1>3

\* A core takes a revocation between two batches.
LEMMA RevokeInv ==
  ASSUME StorageInv, NEW k \in Cores, NEW i, Revoke(k, i)
  PROVE  StorageInv'
BY DEF StorageInv, ControlOK, BusyOK, AclOK, PageOK, OnlyUploadersRestore,
       Revoke, task, command, job, history

\* A crash leaves the core idle, its access list torn perhaps.
LEMMA CrashInv ==
  ASSUME StorageInv, NEW k \in Cores, Crash(k)
  PROVE  StorageInv'
<1> USE DEF StorageInv, job, history
<1>1. /\ UNCHANGED <<revoked, who, at, restored, pushed>>
      /\ busy' = [busy EXCEPT ![k] = NoProc]
      /\ step' = [step EXCEPT ![k] = "idle"]
      /\ acl' = acl \/ acl' = [acl EXCEPT ![k] = Torn]
  BY DEF Crash
<1>2. /\ pc' = [p \in Procs |-> pc'[p]]
      /\ \A p \in Procs : pc'[p] = "paged" => pc[p] = "paged"
  BY DEF Crash
<1>3. ControlOK'
  BY <1>1, <1>2, StorageAssumption DEF ControlOK
<1>4. BusyOK'
  BY <1>1 DEF ControlOK, BusyOK
<1>5. AclOK'
  BY <1>1 DEF ControlOK, AclOK
<1>6. PageOK'
  BY <1>1, <1>2 DEF PageOK
<1>7. OnlyUploadersRestore'
  BY <1>1 DEF OnlyUploadersRestore
<1> QED
  BY <1>3, <1>4, <1>5, <1>6, <1>7

-----------------------------------------------------------------------------
\* The invariant is inductive: one step per action of the client commands and
\* of the cores.
LEMMA NextInv == StorageInv /\ [StorageNext]_vars => StorageInv'
<1> SUFFICES ASSUME StorageInv, [StorageNext]_vars PROVE StorageInv'
  OBVIOUS
<1>1. ASSUME NEW p \in Procs, NEW k \in Cores, StartPush(p, k)
      PROVE  StorageInv'
  BY <1>1, BeginInv DEF StartPush
<1>2. ASSUME NEW p \in Procs, NEW i \in Ids, NEW k \in Cores,
             NEW d \in Cores \cup {NoCore}, StartPull(p, i, k, d)
      PROVE  StorageInv'
  BY <1>2, BeginInv DEF StartPull
<1>3. ASSUME NEW p \in Procs, SendBatch(p) \/ TakeAck(p) \/ Kill(p)
      PROVE  StorageInv'
  BY <1>3, ClientInv DEF SendBatch, TakeAck, Kill, job, history
<1>4. ASSUME NEW p \in Procs, TakePage(p) PROVE StorageInv'
  BY <1>4, TakePageInv
<1>5. ASSUME NEW k \in Cores, CoreStep(k) PROVE StorageInv'
  BY <1>5, BeginStoreInv, FetchInv, StoreInv DEF CoreStep
<1>6. ASSUME NEW k \in Cores, Crash(k) PROVE StorageInv'
  BY <1>6, CrashInv
<1>7. ASSUME NEW k \in Cores, NEW i \in Ids, Revoke(k, i) PROVE StorageInv'
  BY <1>7, RevokeInv
<1>8. CASE UNCHANGED vars
  BY <1>8 DEF vars, store, task, command, job, history, StorageInv, ControlOK,
              BusyOK, AclOK, PageOK, OnlyUploadersRestore
<1> QED
  BY <1>1, <1>2, <1>3, <1>4, <1>5, <1>6, <1>7, <1>8 DEF StorageNext, ProcStep

\* The invariant holds of every behaviour of the store.
THEOREM StorageInvariance == StorageSpec => []StorageInv
BY InitInv, NextInv, PTL DEF StorageSpec

\* Whoever restores a file from a core has stored it there (OnlyUploadersRestore
\* of app/storage.rs store_chunks and fetch_chunks, and replicate).
THEOREM UploadersRestore == StorageSpec => []OnlyUploadersRestore
<1>1. StorageInv => OnlyUploadersRestore
  BY DEF StorageInv
<1> QED
  BY <1>1, StorageInvariance, PTL

\* A revocation a core has taken shuts the identity out at once, half-way
\* through a transfer too (app/storage.rs is_revoked, app/core.rs).
THEOREM RevokedAreShutOut == StorageSpec => RevokedShutOut
<1> DEFINE ShutOut ==
      \A p \in Procs, k \in Cores :
        at[p] = k /\ who[p] \in revoked[k] =>
          /\ busy[k] = p => blobs'[k] = blobs[k]
          /\ pc[p] = "fetching" => pc'[p] # "paged"
<1>1. StorageInv /\ [StorageNext]_vars => [ShutOut]_vars
  <2> SUFFICES ASSUME StorageInv, StorageNext,
                      NEW p \in Procs, NEW k \in Cores,
                      at[p] = k, who[p] \in revoked[k]
               PROVE  /\ busy[k] = p => blobs'[k] = blobs[k]
                      /\ pc[p] = "fetching" => pc'[p] # "paged"
    OBVIOUS
  <2>1. busy[k] # p
    BY StorageAssumption DEF StorageInv, BusyOK
  <2>2. ASSUME pc[p] = "fetching" PROVE pc'[p] # "paged"
    <3>1. pc = [q \in Procs |-> pc[q]]
      BY DEF StorageInv, ControlOK
    <3>2. ASSUME NEW q \in Procs,
                 \/ \E c \in Cores : StartPush(q, c)
                 \/ \E i \in Ids, c \in Cores, d \in Cores \cup {NoCore} :
                      StartPull(q, i, c, d)
                 \/ ProcStep(q)
                 \/ Kill(q)
          PROVE  pc'[p] # "paged"
      BY <2>2, <3>1, <3>2
         DEF StartPush, StartPull, ProcStep, SendBatch, TakeAck, TakePage, Kill
    <3>3. ASSUME NEW c \in Cores, NEW q \in Procs, BeginStore(q, c)
          PROVE  pc'[p] # "paged"
      BY <2>2, <3>1, <3>3 DEF BeginStore
    <3>4. ASSUME NEW c \in Cores, NEW q \in Procs, Fetch(q, c)
          PROVE  pc'[p] # "paged"
      BY <2>2, <3>1, <3>4 DEF Fetch, PermittedToFetch
    <3>5. ASSUME NEW c \in Cores,
                 \/ StoreBlob(c) \/ StoreManifest(c) \/ StoreAcl(c)
                 \/ Crash(c) \/ \E i \in Ids : Revoke(c, i)
          PROVE  pc'[p] # "paged"
      BY <2>2, <3>1, <3>5
         DEF StoreBlob, StoreManifest, StoreAcl, Crash, Revoke, job, command
    <3> QED
      BY <3>2, <3>3, <3>4, <3>5 DEF StorageNext, CoreStep
  <2> QED
    BY <2>1, <2>2
<1> QED
  BY <1>1, StorageInvariance, PTL DEF StorageSpec, RevokedShutOut

(***************************************************************************)
(* Sorting                                                                 *)
(***************************************************************************)
LEMMA Least ==
  ASSUME NEW T, T \subseteq Nat, T # {}
  PROVE  \E n \in T : \A m \in T : n <= m
<1> DEFINE R == OpToRel(<, Nat)
<1>1. IsWellFoundedOn(R, Nat)
  BY NatLessThanWellFounded
<1>2. \A x, y \in Nat : x < y => <<x, y>> \in R
  BY DEF OpToRel
<1> HIDE DEF R
<1>3. PICK n \in T : \A y \in T : ~(<<y, n>> \in R)
  BY <1>1, WFMin
<1>4. ASSUME NEW m \in T PROVE n <= m
  <2>1. m \in Nat /\ n \in Nat /\ ~(m < n)
    BY <1>2, <1>3
  <2> QED
    BY <2>1
<1> QED
  BY <1>4

LEMMA Greatest ==
  ASSUME NEW n \in Nat, NEW T, T \subseteq 1 .. n, T # {}
  PROVE  \E k \in T : \A j \in T : j <= k
<1> DEFINE U == {n - k : k \in T}
<1>1. U \subseteq Nat /\ U # {}
  <2>1. \A k \in T : n - k \in Nat
    OBVIOUS
  <2>2. \E k : k \in T
    OBVIOUS
  <2> QED
    BY <2>1, <2>2
<1>2. PICK u \in U : \A v \in U : u <= v
  BY <1>1, Least
<1>3. PICK k \in T : u = n - k
  OBVIOUS
<1>4. ASSUME NEW j \in T PROVE j <= k
  <2>1. n - j \in U /\ j \in 1 .. n /\ k \in 1 .. n
    OBVIOUS
  <2>2. n - k <= n - j
    <3> HIDE DEF U
    <3> QED
      BY <1>2, <1>3, <2>1
  <2> QED
    BY <2>1, <2>2
<1> QED
  BY <1>4

\* In a finite set with a total order, each element is told by how many come
\* up to it: upTo[x] are x and those before it.
LEMMA Ranks ==
  ASSUME NEW T, IsFiniteSet(T), NEW upTo \in [T -> SUBSET T],
         \A x \in T : x \in upTo[x],
         \A x, y \in T : x \in upTo[y] /\ y \in upTo[x] => x = y,
         \A x, y \in T : x \in upTo[y] \/ y \in upTo[x],
         \A x, y \in T : x \in upTo[y] => upTo[x] \subseteq upTo[y]
  PROVE  /\ Cardinality(T) \in Nat
         /\ \A x \in T : Cardinality(upTo[x]) \in 1 .. Cardinality(T)
         /\ \A x, y \in T : Cardinality(upTo[x]) = Cardinality(upTo[y]) => x = y
         /\ \A k \in 1 .. Cardinality(T) : \E x \in T : Cardinality(upTo[x]) = k
<1> DEFINE n == Cardinality(T)
           rank == [x \in T |-> Cardinality(upTo[x])]
<1>1. n \in Nat
  BY FS_CardinalityType
<1>2. \A x \in T : /\ IsFiniteSet(upTo[x])
                   /\ rank[x] <= n
                   /\ rank[x] \in Nat
  BY FS_Subset, FS_CardinalityType
<1>3. \A x \in T : rank[x] # 0
  BY <1>2, FS_EmptySet
<1>4. \A x \in T : rank[x] \in 1 .. n
  BY <1>1, <1>2, <1>3
<1>5. ASSUME NEW x \in T, NEW y \in T, rank[x] = rank[y], x \in upTo[y]
      PROVE  x = y
  <2>1. upTo[x] = upTo[y]
    <3>1. upTo[x] \in SUBSET upTo[y]
      BY <1>5
    <3>2. IsFiniteSet(upTo[y]) /\ Cardinality(upTo[y]) = Cardinality(upTo[x])
      BY <1>2, <1>5
    <3> QED
      BY <3>1, <3>2, FS_Subset
  <2> QED
    BY <1>5, <2>1
<1>6. \A x, y \in T : rank[x] = rank[y] => x = y
  BY <1>5
<1>7. ASSUME NEW k \in 1 .. n, \A x \in T : rank[x] # k PROVE FALSE
  <2> DEFINE U == (1 .. n) \ {k}
  <2>1. IsFiniteSet(1 .. n) /\ Cardinality(1 .. n) = n
    <3>1. /\ IsFiniteSet(1 .. n)
          /\ Cardinality(1 .. n) = IF 1 > n THEN 0 ELSE n - 1 + 1
      <4>1. 1 \in Int /\ n \in Int
        BY <1>1
      <4> HIDE DEF n
      <4> QED
        BY <4>1, FS_Interval
    <3> QED
      BY <1>1, <3>1
  <2>2. IsFiniteSet(U) /\ Cardinality(U) = n - 1
    <3>1. /\ IsFiniteSet((1 .. n) \ {k})
          /\ Cardinality((1 .. n) \ {k}) =
               IF k \in 1 .. n THEN Cardinality(1 .. n) - 1 ELSE Cardinality(1 .. n)
      <4> HIDE DEF n
      <4> QED
        BY <2>1, FS_RemoveElement
    <3> QED
      BY <1>7, <2>1, <3>1
  <2>3. rank \in [T -> U]
    BY <1>4, <1>7
  <2>4. Cardinality(U) < Cardinality(T)
    BY <1>1, <2>2
  <2> HIDE DEF U, rank
  <2>5. \E x, y \in T : x # y /\ rank[x] = rank[y]
    BY <2>2, <2>3, <2>4, FS_PigeonHole
  <2> QED
    BY <1>6, <2>5
<1> QED
  BY <1>1, <1>4, <1>6, <1>7

LEMMA SortOK ==
  ASSUME NEW S, \A b \in S : b.index \in Nat, NEW s \in Seq(S)
  PROVE  /\ Sort(s) \in Seq(S) /\ Len(Sort(s)) = Len(s)
         /\ Elems(Sort(s)) = Elems(s)
         /\ (\A i, j \in DOMAIN s : i < j => s[i].index <= s[j].index) => Sort(s) = s
<1> DEFINE T == DOMAIN s
           n == Len(s)
           leq(i, j) == \/ s[i].index < s[j].index
                        \/ s[i].index = s[j].index /\ i <= j
           places(j) == {i \in T : leq(i, j)}
           upTo == [j \in T |-> places(j)]
           order == [k \in 1 .. Cardinality(T) |->
                       CHOOSE j \in T : Cardinality(places(j)) = k]
<1>1. Sort(s) = [k \in T |-> s[order[k]]]
  BY DEF Sort, Listed
<1>2. /\ n \in Nat /\ T = 1 .. n
      /\ \A i \in T : s[i] \in S /\ s[i].index \in Nat /\ i \in Nat
  OBVIOUS
<1>3. /\ \A j \in 0 .. n : IsFiniteSet(1 .. j) /\ Cardinality(1 .. j) = j
      /\ IsFiniteSet(T) /\ Cardinality(T) = n
  <2>1. ASSUME NEW j \in 0 .. n PROVE IsFiniteSet(1 .. j) /\ Cardinality(1 .. j) = j
    <3>1. 1 \in Int /\ j \in Int /\ j \in Nat
      BY <1>2
    <3>2. /\ IsFiniteSet(1 .. j)
          /\ Cardinality(1 .. j) = IF 1 > j THEN 0 ELSE j - 1 + 1
      BY <3>1, FS_Interval
    <3> QED
      BY <3>1, <3>2
  <2>2. n \in 0 .. n
    BY <1>2
  <2> HIDE DEF T, n
  <2> QED
    BY <1>2, <2>1, <2>2
<1>4. /\ upTo \in [T -> SUBSET T]
      /\ \A x \in T : x \in upTo[x]
      /\ \A x, y \in T : x \in upTo[y] /\ y \in upTo[x] => x = y
      /\ \A x, y \in T : x \in upTo[y] \/ y \in upTo[x]
      /\ \A x, y \in T : x \in upTo[y] => upTo[x] \subseteq upTo[y]
  <2>1. upTo \in [T -> SUBSET T] /\ \A i, j \in T : i \in upTo[j] <=> leq(i, j)
    OBVIOUS
  <2> HIDE DEF T, upTo, n
  <2>2. \A i \in T : leq(i, i)
    BY <1>2
  <2>3. \A i, j \in T : leq(i, j) /\ leq(j, i) => i = j
    BY <1>2
  <2>4. \A i, j \in T : leq(i, j) \/ leq(j, i)
    BY <1>2
  <2>5. \A i, j, k \in T : leq(i, j) /\ leq(j, k) => leq(i, k)
    BY <1>2
  <2> HIDE DEF leq
  <2>6. \A x, y \in T : x \in upTo[y] => upTo[x] \subseteq upTo[y]
    BY <2>1, <2>5
  <2> QED
    BY <2>1, <2>2, <2>3, <2>4, <2>6
<1>5. /\ \A j \in T : Cardinality(upTo[j]) \in 1 .. n
      /\ \A x, y \in T : Cardinality(upTo[x]) = Cardinality(upTo[y]) => x = y
      /\ \A k \in 1 .. n : \E j \in T : Cardinality(upTo[j]) = k
  <2> HIDE DEF T, upTo, n
  <2> QED
    BY <1>3, <1>4, Ranks
<1>6. \A k \in T : order[k] \in T /\ Cardinality(upTo[order[k]]) = k
  <2>1. \A j \in T : upTo[j] = places(j)
    OBVIOUS
  <2> HIDE DEF places, upTo, T, n
  <2> SUFFICES ASSUME NEW k \in T
               PROVE  order[k] \in T /\ Cardinality(upTo[order[k]]) = k
    OBVIOUS
  <2>2. k \in 1 .. Cardinality(T)
    BY <1>2, <1>3
  <2>3. order[k] = CHOOSE j \in T : Cardinality(places(j)) = k
    BY <2>2
  <2>4. \E j \in T : Cardinality(places(j)) = k
    <3>1. PICK j \in T : Cardinality(upTo[j]) = k
      BY <1>2, <1>5
    <3>2. upTo[j] = places(j)
      BY <2>1
    <3> QED
      BY <3>1, <3>2
  <2> HIDE DEF order
  <2>5. order[k] \in T /\ Cardinality(places(order[k])) = k
    BY <2>3, <2>4
  <2> QED
    BY <2>1, <2>5
<1> HIDE DEF order, upTo
<1>7. Sort(s) \in Seq(S) /\ Len(Sort(s)) = n
  BY <1>1, <1>2, <1>6
<1>8. Elems(Sort(s)) = Elems(s)
  <2>1. DOMAIN Sort(s) = T /\ \A k \in T : Sort(s)[k] = s[order[k]]
    BY <1>1
  <2>2. \A j \in T : \E k \in T : order[k] = j
    <3> SUFFICES ASSUME NEW j \in T PROVE \E k \in T : order[k] = j
      OBVIOUS
    <3> DEFINE k == Cardinality(upTo[j])
    <3>1. k \in T
      BY <1>2, <1>5
    <3>2. order[k] \in T /\ Cardinality(upTo[order[k]]) = k
      BY <1>6, <3>1
    <3>3. order[k] = j
      BY <1>5, <3>2
    <3> QED
      BY <3>1, <3>3
  <2>3. \A e \in Elems(Sort(s)) : e \in Elems(s)
    BY <1>6, <2>1 DEF Elems
  <2>4. \A e \in Elems(s) : e \in Elems(Sort(s))
    <3> SUFFICES ASSUME NEW j \in T PROVE s[j] \in Elems(Sort(s))
      BY DEF Elems
    <3>1. PICK k \in T : order[k] = j
      BY <2>2
    <3>2. k \in DOMAIN Sort(s) /\ Sort(s)[k] = s[j]
      BY <2>1, <3>1
    <3> QED
      BY <3>2 DEF Elems
  <2> QED
    BY <2>3, <2>4
<1>9. ASSUME \A i, j \in DOMAIN s : i < j => s[i].index <= s[j].index
      PROVE  Sort(s) = s
  <2>1. \A j \in T : upTo[j] = 1 .. j
    <3>1. ASSUME NEW i \in T, NEW j \in T
          PROVE  leq(i, j) <=> i <= j
      BY <1>2, <1>9
    <3>2. \A j \in T : upTo[j] = {i \in T : i <= j}
      BY <3>1 DEF upTo
    <3>3. \A j \in T : {i \in T : i <= j} = 1 .. j
      BY <1>2
    <3> QED
      BY <3>2, <3>3
  <2>2. \A j \in T : Cardinality(upTo[j]) = j
    BY <1>2, <1>3, <2>1
  <2>3. \A k \in T : order[k] = k
    BY <1>6, <2>2
  <2> QED
    BY <1>1, <1>2, <2>3
<1> QED
  BY <1>7, <1>8, <1>9

LEMMA BlobsFinite == IsFiniteSet(Blobs)
<1>1. IsFiniteSet(Indices) /\ IsFiniteSet(1 .. MaxEncryptions)
  <2>1. 0 \in Int /\ NumChunks - 1 \in Int /\ 1 \in Int /\ MaxEncryptions \in Int
    BY StorageAssumption
  <2> QED
    BY <2>1, FS_Interval DEF Indices
<1>2. IsFiniteSet(Indices \X (1 .. MaxEncryptions))
  BY <1>1, FS_Product
<1> DEFINE f == [b \in Blobs |-> <<b.index, b.nonce>>]
<1>3. /\ f \in [Blobs -> Indices \X (1 .. MaxEncryptions)]
      /\ \A a, b \in Blobs : f[a] = f[b] => a = b
  BY DEF Blobs
<1> HIDE DEF f
<1>4. f \in Injection(Blobs, Indices \X (1 .. MaxEncryptions))
  BY <1>3, Fun_IsInj
<1> QED
  BY <1>2, <1>4, FS_Injection

\* The file: blob i of the first encryption, a stretch of n of them, and the
\* first n of them as a set.
Blob(i) == [index |-> i, nonce |-> 1]
Segment(a, n) == [j \in 1 .. n |-> Blob(a + j - 1)]
Upto(n) == {Blob(i) : i \in 0 .. n - 1}

LEMMA CountUpto == ASSUME NEW n \in Nat PROVE Cardinality(Upto(n)) = n
<1> DEFINE f == [j \in 1 .. n |-> Blob(j - 1)]
<1>1. f \in [1 .. n -> Upto(n)]
  BY DEF Upto
<1>2. \A a, b \in 1 .. n : f[a] = f[b] => a = b
  BY DEF Blob
<1>3. \A t \in Upto(n) : \E a \in 1 .. n : f[a] = t
  <2> SUFFICES ASSUME NEW i \in 0 .. n - 1 PROVE \E a \in 1 .. n : f[a] = Blob(i)
    BY DEF Upto
  <2>1. i + 1 \in 1 .. n /\ (i + 1) - 1 = i
    OBVIOUS
  <2> QED
    BY <2>1
<1> HIDE DEF f
<1>4. f \in Bijection(1 .. n, Upto(n))
  BY <1>1, <1>2, <1>3, Fun_IsBij
<1>5. ExistsBijection(1 .. n, Upto(n))
  BY <1>4, Fun_ExistsBij
<1> QED
  BY <1>5, FS_CountingElements

\* A directory is listed in full, in the order of the file if that is all it has.
LEMMA SortedDirOK ==
  ASSUME NEW S, S \subseteq Blobs, NEW place \in DirOrders
  PROVE  /\ SortedDir(S, place) \in Seq(S)
         /\ \A n \in Nat : S = Upto(n) => SortedDir(S, place) = Segment(0, n)
<1> DEFINE leq(b, c) == \/ b.index < c.index
                        \/ /\ b.index = c.index
                           /\ place[b.index][b.nonce] <= place[c.index][c.nonce]
           places(c) == {b \in S : leq(b, c)}
           upTo == [c \in S |-> places(c)]
           pick(k) == CHOOSE c \in S : Cardinality(places(c)) = k
           list == [k \in 1 .. Cardinality(S) |-> pick(k)]
<1>1. SortedDir(S, place) = list
  BY DEF SortedDir, Listed
<1>2. IsFiniteSet(S)
  BY BlobsFinite, FS_Subset
<1>3. /\ \A b \in S : b.index \in Nat /\ place[b.index][b.nonce] \in Nat
      /\ \A b, c \in S : b.index = c.index
            /\ place[b.index][b.nonce] = place[c.index][c.nonce] => b = c
  <2>1. \A b \in S : /\ b.index \in Indices /\ b.nonce \in 1 .. MaxEncryptions
                     /\ b = [index |-> b.index, nonce |-> b.nonce]
    BY DEF Blobs
  <2>2. \A i \in Indices :
          /\ i \in Nat
          /\ place[i] \in [1 .. MaxEncryptions -> 1 .. MaxEncryptions]
          /\ \A m, n \in 1 .. MaxEncryptions : place[i][m] = place[i][n] => m = n
    BY DEF DirOrders, Indices
  <2>3. ASSUME NEW b \in S PROVE b.index \in Nat /\ place[b.index][b.nonce] \in Nat
    <3>1. place[b.index][b.nonce] \in 1 .. MaxEncryptions
      BY <2>1, <2>2
    <3> QED
      BY <2>1, <2>2, <3>1
  <2>4. ASSUME NEW b \in S, NEW c \in S, b.index = c.index,
               place[b.index][b.nonce] = place[c.index][c.nonce]
        PROVE  b = c
    <3>1. b.nonce = c.nonce
      BY <2>1, <2>2, <2>4
    <3> QED
      BY <2>1, <2>4, <3>1
  <2> QED
    BY <2>3, <2>4
<1>4. /\ upTo \in [S -> SUBSET S]
      /\ \A x \in S : x \in upTo[x]
      /\ \A x, y \in S : x \in upTo[y] /\ y \in upTo[x] => x = y
      /\ \A x, y \in S : x \in upTo[y] \/ y \in upTo[x]
      /\ \A x, y \in S : x \in upTo[y] => upTo[x] \subseteq upTo[y]
  <2>1. upTo \in [S -> SUBSET S] /\ \A b, c \in S : b \in upTo[c] <=> leq(b, c)
    OBVIOUS
  <2> HIDE DEF upTo
  <2>2. \A b \in S : leq(b, b)
    BY <1>3
  <2>3. \A b, c \in S : leq(b, c) /\ leq(c, b) => b = c
    BY <1>3
  <2>4. \A b, c \in S : leq(b, c) \/ leq(c, b)
    BY <1>3
  <2>5. \A b, c, d \in S : leq(b, c) /\ leq(c, d) => leq(b, d)
    BY <1>3
  <2> HIDE DEF leq
  <2>6. \A x, y \in S : x \in upTo[y] => upTo[x] \subseteq upTo[y]
    BY <2>1, <2>5
  <2> QED
    BY <2>1, <2>2, <2>3, <2>4, <2>6
<1>5. /\ Cardinality(S) \in Nat
      /\ \A x, y \in S : Cardinality(upTo[x]) = Cardinality(upTo[y]) => x = y
      /\ \A k \in 1 .. Cardinality(S) : \E c \in S : Cardinality(upTo[c]) = k
  <2> HIDE DEF upTo
  <2> QED
    BY <1>2, <1>4, Ranks
<1>6. \A k \in 1 .. Cardinality(S) : list[k] \in S /\ Cardinality(upTo[list[k]]) = k
  <2>1. \A c \in S : upTo[c] = places(c)
    OBVIOUS
  <2> HIDE DEF places, upTo
  <2> SUFFICES ASSUME NEW k \in 1 .. Cardinality(S)
               PROVE  list[k] \in S /\ Cardinality(upTo[list[k]]) = k
    OBVIOUS
  <2>3. list[k] = CHOOSE c \in S : Cardinality(places(c)) = k
    OBVIOUS
  <2>4. \E c \in S : Cardinality(places(c)) = k
    <3>1. PICK c \in S : Cardinality(upTo[c]) = k
      BY <1>5
    <3>2. upTo[c] = places(c)
      BY <2>1
    <3> QED
      BY <3>1, <3>2
  <2> HIDE DEF list
  <2>5. list[k] \in S /\ Cardinality(places(list[k])) = k
    BY <2>3, <2>4
  <2> QED
    BY <2>1, <2>5
<1>7. list \in [1 .. Cardinality(S) -> S]
  <2>1. \A k \in 1 .. Cardinality(S) : list[k] = pick(k)
    OBVIOUS
  <2> HIDE DEF pick
  <2>2. \A k \in 1 .. Cardinality(S) : pick(k) \in S
    BY <1>6, <2>1
  <2> QED
    BY <2>2
<1>8. ASSUME NEW n \in Nat, S = Upto(n)
      PROVE  list = Segment(0, n)
  <2>1. Cardinality(S) = n
    BY <1>8, CountUpto
  <2>2. \A i \in 0 .. n - 1 : Blob(i) \in S
    BY <1>8 DEF Upto
  <2>3. ASSUME NEW i \in 0 .. n - 1 PROVE upTo[Blob(i)] = Upto(i + 1)
    <3>1. \A j \in 0 .. n - 1 : leq(Blob(j), Blob(i)) <=> j <= i
      <4>1. \A j \in 0 .. n - 1 : Blob(j).index = j /\ Blob(j).nonce = 1
        BY DEF Blob
      <4>2. place[i][1] \in Nat
        BY <1>3, <2>2, <4>1
      <4> QED
        BY <4>1, <4>2
    <3>2. \A b \in upTo[Blob(i)] : b \in Upto(i + 1)
      BY <1>8, <2>2, <3>1 DEF Upto
    <3>3. \A b \in Upto(i + 1) : b \in upTo[Blob(i)]
      BY <1>8, <2>2, <3>1 DEF Upto
    <3> QED
      BY <3>2, <3>3, <1>4, <2>2
  <2>4. ASSUME NEW i \in 0 .. n - 1 PROVE Cardinality(upTo[Blob(i)]) = i + 1
    <3>1. i + 1 \in Nat
      OBVIOUS
    <3>2. Cardinality(Upto(i + 1)) = i + 1
      BY <3>1, CountUpto
    <3> HIDE DEF upTo
    <3> QED
      BY <2>3, <3>2
  <2> HIDE DEF list, upTo
  <2>5. ASSUME NEW k \in 1 .. n PROVE list[k] = Blob(0 + k - 1)
    <3>1. k - 1 \in 0 .. n - 1 /\ (k - 1) + 1 = k /\ 0 + k - 1 = k - 1
      OBVIOUS
    <3>2. Cardinality(upTo[Blob(k - 1)]) = k /\ Blob(k - 1) \in S
      BY <2>2, <2>4, <3>1
    <3> QED
      BY <1>5, <1>6, <2>1, <3>1, <3>2
  <2> QED
    BY <1>7, <2>1, <2>5 DEF Segment
<1> HIDE DEF list
<1>9. list \in Seq(S)
  BY <1>5, <1>7
<1> QED
  BY <1>1, <1>8, <1>9

(***************************************************************************)
(* Pages, and stretches of the file                                        *)
(***************************************************************************)
\* A page is the beginning of what there is, and not empty if that is not.
LEMMA PageOf ==
  ASSUME NEW S, NEW s \in Seq(S)
  PROVE  \E n \in 0 .. Len(s) :
           Page(s) = SubSeq(s, 1, n) /\ (s # <<>> => n # 0)
<1>0. Len(s) \in Nat
  OBVIOUS
<1>1. CASE s = <<>>
  <2>1. SubSeq(s, 1, 0) = <<>>
    BY SubSeqEmpty
  <2> QED
    BY <1>0, <1>1, <2>1 DEF Page
<1>2. CASE s # <<>>
  <2> DEFINE fit == {k \in 1 .. Len(s) : k = 1 \/ SizeTo(Sizes(s), k) <= MaxBatch}
  <2>1. fit \subseteq 1 .. Len(s) /\ 1 \in fit
    BY <1>0, <1>2
  <2>2. Page(s) = SubSeq(s, 1, CHOOSE k \in fit : \A j \in fit : j <= k)
    BY <1>2 DEF Page
  <2> HIDE DEF fit
  <2>3. \E k \in fit : \A j \in fit : j <= k
    BY <1>0, <2>1, Greatest
  <2>4. (CHOOSE k \in fit : \A j \in fit : j <= k) \in fit
    BY <2>3
  <2>5. ASSUME NEW k \in fit PROVE k \in 0 .. Len(s) /\ k # 0
    BY <1>0, <2>1
  <2> QED
    BY <2>2, <2>4, <2>5
<1> QED
  BY <1>1, <1>2

LEMMA SplitAt ==
  ASSUME NEW S, NEW s \in Seq(S), NEW n \in 0 .. Len(s)
  PROVE  /\ SubSeq(s, 1, n) \in Seq(S) /\ Len(SubSeq(s, 1, n)) = n
         /\ \A i \in 1 .. n : SubSeq(s, 1, n)[i] = s[i]
         /\ After(s, n) \in Seq(S) /\ Len(After(s, n)) = Len(s) - n
         /\ \A i \in 1 .. Len(s) - n : After(s, n)[i] = s[n + i]
<1> DEFINE m == Len(s)
<1>1. m \in Nat /\ n \in 0 .. m /\ \A i \in 1 .. m : s[i] \in S
  OBVIOUS
<1>2. /\ SubSeq(s, 1, n) \in Seq(S)
      /\ Len(SubSeq(s, 1, n)) = IF 1 <= n THEN n - 1 + 1 ELSE 0
      /\ \A i \in 1 .. n - 1 + 1 : SubSeq(s, 1, n)[i] = s[1 + i - 1]
  <2>1. 1 \in Int /\ n \in Int /\ \A i \in 1 .. n : s[i] \in S
    BY <1>1
  <2> QED
    BY <2>1, SubSeqProperties
<1>3. /\ After(s, n) \in Seq(S)
      /\ Len(After(s, n)) = IF n + 1 <= m THEN m - (n + 1) + 1 ELSE 0
      /\ \A i \in 1 .. m - (n + 1) + 1 : After(s, n)[i] = s[(n + 1) + i - 1]
  <2>1. n + 1 \in Int /\ m \in Int /\ \A i \in n + 1 .. m : s[i] \in S
    BY <1>1
  <2> QED
    BY <2>1, SubSeqProperties DEF After
<1> HIDE DEF m
<1>4. /\ n - 1 + 1 = n /\ m - (n + 1) + 1 = m - n /\ n \in Nat
      /\ \A i \in 1 .. n : 1 + i - 1 = i
      /\ \A i \in 1 .. m - n : (n + 1) + i - 1 = n + i
      /\ ~(1 <= n) => n = 0
      /\ ~(n + 1 <= m) => m - n = 0
  BY <1>1
<1>5. Len(SubSeq(s, 1, n)) = n /\ Len(After(s, n)) = m - n
  BY <1>2, <1>3, <1>4
<1>6. \A i \in 1 .. n : SubSeq(s, 1, n)[i] = s[i]
  BY <1>2, <1>4
<1>7. \A i \in 1 .. m - n : After(s, n)[i] = s[n + i]
  BY <1>3, <1>4
<1> QED
  BY <1>2, <1>3, <1>5, <1>6, <1>7 DEF m

LEMMA SplitElems ==
  ASSUME NEW S, NEW s \in Seq(S), NEW n \in 0 .. Len(s)
  PROVE  Elems(s) = Elems(SubSeq(s, 1, n)) \cup Elems(After(s, n))
<1> DEFINE a == SubSeq(s, 1, n)
           b == After(s, n)
           m == Len(s)
<1>1. /\ a \in Seq(S) /\ Len(a) = n /\ \A i \in 1 .. n : a[i] = s[i]
      /\ b \in Seq(S) /\ Len(b) = m - n /\ \A i \in 1 .. m - n : b[i] = s[n + i]
  BY SplitAt
<1>2. m \in Nat /\ n \in 0 .. m /\ DOMAIN s = 1 .. m
  OBVIOUS
<1>3. DOMAIN a = 1 .. n /\ DOMAIN b = 1 .. m - n
  BY <1>1
<1> HIDE DEF a, b, m
<1>4. \A i \in 1 .. n : i \in 1 .. m
  BY <1>2
<1>5. \A i \in 1 .. m - n : n + i \in 1 .. m
  BY <1>2
<1>6. \A i \in 1 .. m : i \in 1 .. n \/ (i - n \in 1 .. m - n /\ n + (i - n) = i)
  BY <1>2
<1>7. \A e \in Elems(a) \cup Elems(b) : e \in Elems(s)
  <2>1. \A i \in 1 .. n : a[i] \in Elems(s)
    BY <1>1, <1>2, <1>4 DEF Elems
  <2>2. \A i \in 1 .. m - n : b[i] \in Elems(s)
    BY <1>1, <1>2, <1>5 DEF Elems
  <2> QED
    BY <1>3, <2>1, <2>2 DEF Elems
<1>8. ASSUME NEW i \in 1 .. m PROVE s[i] \in Elems(a) \cup Elems(b)
  <2>1. CASE i \in 1 .. n
    BY <1>1, <1>3, <2>1 DEF Elems
  <2>2. CASE i - n \in 1 .. m - n /\ n + (i - n) = i
    <3>1. b[i - n] = s[i]
      BY <1>1, <2>2
    <3> QED
      BY <1>3, <2>2, <3>1 DEF Elems
  <2> QED
    BY <1>6, <2>1, <2>2
<1>9. \A e \in Elems(s) : e \in Elems(a) \cup Elems(b)
  BY <1>2, <1>8 DEF Elems
<1> QED
  BY <1>7, <1>9 DEF a, b

LEMMA SegmentIs ==
  ASSUME NEW S, NEW s \in Seq(S), NEW a \in Nat,
         \A j \in 1 .. Len(s) : s[j] = Blob(a + j - 1)
  PROVE  s = Segment(a, Len(s))
<1>1. s = [j \in 1 .. Len(s) |-> s[j]]
  OBVIOUS
<1> QED
  BY <1>1 DEF Segment

AnyBlob == {Blob(i) : i \in Nat}

\* The parts of a stretch of the file are stretches of it.
LEMMA SegmentOK ==
  ASSUME NEW a \in Nat, NEW n \in Nat
  PROVE  /\ Segment(a, n) \in Seq(AnyBlob) /\ Len(Segment(a, n)) = n
         /\ \A j \in 1 .. n : Segment(a, n)[j] = Blob(a + j - 1)
<1>1. \A j \in 1 .. n : a + j - 1 \in Nat
  OBVIOUS
<1>2. Segment(a, n) \in [1 .. n -> AnyBlob]
  BY <1>1 DEF Segment, AnyBlob
<1>3. Segment(a, n) \in Seq(AnyBlob) /\ Len(Segment(a, n)) = n
  BY <1>2
<1> QED
  BY <1>3 DEF Segment

LEMMA SegmentSplit ==
  ASSUME NEW a \in Nat, NEW n \in Nat, NEW m \in 0 .. n
  PROVE  /\ SubSeq(Segment(a, n), 1, m) = Segment(a, m)
         /\ After(Segment(a, n), m) = Segment(a + m, n - m)
<1> DEFINE s == Segment(a, n)
           b == SubSeq(s, 1, m)
           c == After(s, m)
<1>1. s \in Seq(AnyBlob) /\ Len(s) = n /\ \A j \in 1 .. n : s[j] = Blob(a + j - 1)
  BY SegmentOK
<1> HIDE DEF s
<1>2. /\ b \in Seq(AnyBlob) /\ Len(b) = m /\ \A i \in 1 .. m : b[i] = s[i]
      /\ c \in Seq(AnyBlob) /\ Len(c) = n - m /\ \A i \in 1 .. n - m : c[i] = s[m + i]
  BY <1>1, SplitAt
<1> HIDE DEF b, c
<1>3. \A i \in 1 .. m : i \in 1 .. n
  OBVIOUS
<1>4. \A i \in 1 .. n - m : m + i \in 1 .. n /\ a + (m + i) - 1 = (a + m) + i - 1
  OBVIOUS
<1>5. \A i \in 1 .. Len(b) : b[i] = Blob(a + i - 1)
  BY <1>1, <1>2, <1>3
<1>6. \A i \in 1 .. Len(c) : c[i] = Blob((a + m) + i - 1)
  BY <1>1, <1>2, <1>4
<1>7. a + m \in Nat
  OBVIOUS
<1>8. b = Segment(a, m) /\ c = Segment(a + m, n - m)
  BY <1>2, <1>5, <1>6, <1>7, SegmentIs
<1> QED
  BY <1>8 DEF b, c, s

LEMMA SegmentTail ==
  ASSUME NEW a \in Nat, NEW n \in Nat, n # 0
  PROVE  /\ Head(Segment(a, n)) = Blob(a)
         /\ Tail(Segment(a, n)) = Segment(a + 1, n - 1)
<1> DEFINE s == Segment(a, n)
<1>1. s \in Seq(AnyBlob) /\ Len(s) = n /\ \A j \in 1 .. n : s[j] = Blob(a + j - 1)
  BY SegmentOK
<1> HIDE DEF s
<1>2. s # <<>> /\ Head(s) = s[1] /\ Tail(s) = After(s, 1)
  <2>1. s # <<>>
    BY <1>1
  <2>2. Tail(s) = SubSeq(s, 2, Len(s))
    BY <1>1, <2>1, TailIsSubSeq
  <2> QED
    BY <1>1, <2>1, <2>2 DEF After
<1>3. 1 \in 1 .. n /\ a + 1 - 1 = a /\ 1 \in 0 .. n
  OBVIOUS
<1> QED
  BY <1>1, <1>2, <1>3, SegmentSplit DEF s

LEMMA SegmentJoin ==
  ASSUME NEW a \in Nat, NEW n \in Nat, NEW m \in Nat
  PROVE  Segment(a, n) \o Segment(a + n, m) = Segment(a, n + m)
<1> DEFINE s == Segment(a, n)
           t == Segment(a + n, m)
<1>1. s \in Seq(AnyBlob) /\ Len(s) = n /\ \A j \in 1 .. n : s[j] = Blob(a + j - 1)
  BY SegmentOK
<1>2. t \in Seq(AnyBlob) /\ Len(t) = m /\ \A j \in 1 .. m : t[j] = Blob((a + n) + j - 1)
  <2>1. a + n \in Nat
    OBVIOUS
  <2> QED
    BY <2>1, SegmentOK
<1> HIDE DEF s, t
<1>3. /\ s \o t \in Seq(AnyBlob) /\ Len(s \o t) = n + m
      /\ \A i \in 1 .. n + m : (s \o t)[i] = IF i <= n THEN s[i] ELSE t[i - n]
  BY <1>1, <1>2, ConcatProperties
<1>4. \A i \in 1 .. n + m : i <= n => i \in 1 .. n
  OBVIOUS
<1>5. \A i \in 1 .. n + m : ~(i <= n) =>
        i - n \in 1 .. m /\ (a + n) + (i - n) - 1 = a + i - 1
  OBVIOUS
<1>6. \A i \in 1 .. n + m : (s \o t)[i] = Blob(a + i - 1)
  BY <1>1, <1>2, <1>3, <1>4, <1>5
<1> QED
  BY <1>3, <1>6, SegmentIs DEF s, t

LEMMA UptoOK ==
  ASSUME NEW n \in Nat
  PROVE  /\ Elems(Segment(0, n)) = Upto(n)
         /\ Upto(n) \cup {Blob(n)} = Upto(n + 1)
         /\ \A m \in Nat : Upto(m) \subseteq Upto(n) <=> m <= n
         /\ \A i \in Nat : Blob(i) \in Upto(n) <=> i < n
<1>1. \A i \in Nat : Blob(i) \in Upto(n) <=> i < n
  <2>1. \A i, j \in Nat : Blob(i) = Blob(j) => i = j
    BY DEF Blob
  <2> QED
    BY <2>1 DEF Upto
<1>2. Elems(Segment(0, n)) = Upto(n)
  <2>1. DOMAIN Segment(0, n) = 1 .. n /\ \A j \in 1 .. n : Segment(0, n)[j] = Blob(0 + j - 1)
    BY DEF Segment
  <2>2. \A j \in 1 .. n : 0 + j - 1 \in 0 .. n - 1
    OBVIOUS
  <2>3. \A i \in 0 .. n - 1 : i + 1 \in 1 .. n /\ 0 + (i + 1) - 1 = i
    OBVIOUS
  <2>4. \A e \in Elems(Segment(0, n)) : e \in Upto(n)
    BY <2>1, <2>2 DEF Elems, Upto
  <2>5. ASSUME NEW i \in 0 .. n - 1 PROVE Blob(i) \in Elems(Segment(0, n))
    <3>1. i + 1 \in DOMAIN Segment(0, n) /\ Segment(0, n)[i + 1] = Blob(i)
      BY <2>1, <2>3
    <3> QED
      BY <3>1 DEF Elems
  <2>6. \A e \in Upto(n) : e \in Elems(Segment(0, n))
    BY <2>5 DEF Upto
  <2> QED
    BY <2>4, <2>6
<1>3. Upto(n) \cup {Blob(n)} = Upto(n + 1)
  <2>1. \A i : i \in 0 .. (n + 1) - 1 <=> i \in 0 .. n - 1 \/ i = n
    OBVIOUS
  <2> QED
    BY <2>1 DEF Upto
<1>4. ASSUME NEW m \in Nat PROVE Upto(m) \subseteq Upto(n) <=> m <= n
  <2>1. CASE m <= n
    <3>1. \A i \in 0 .. m - 1 : i \in 0 .. n - 1
      BY <2>1
    <3> QED
      BY <2>1, <3>1 DEF Upto
  <2>2. CASE n < m
    <3>1. n \in 0 .. m - 1
      BY <2>2
    <3>2. Blob(n) \in Upto(m)
      BY <3>1 DEF Upto
    <3>3. Blob(n) \notin Upto(n)
      BY <1>1
    <3> QED
      BY <2>2, <3>2, <3>3
  <2> QED
    BY <2>1, <2>2
<1> QED
  BY <1>1, <1>2, <1>3, <1>4

(***************************************************************************)
(* Types                                                                   *)
(***************************************************************************)
CoreTypes ==
  /\ blobs \in [Cores -> SUBSET Blobs]
  /\ manifest \in [Cores -> {"none", "torn", "full"}]
  /\ acl \in [Cores -> (SUBSET Ids) \cup {NoAcl, Torn}]
  /\ revoked \in [Cores -> SUBSET Ids]
  /\ busy \in [Cores -> Procs \cup {NoProc}]
  /\ step \in [Cores -> StoreSteps]
  /\ \A k \in Cores : (busy[k] = NoProc) <=> (step[k] = "idle")
  /\ pushed \in [Cores -> SUBSET Ids]
  /\ acked \subseteq Cores \X SUBSET Blobs

\* A command has a core, and a replicate has two.
CommandTypes ==
  /\ pc \in [Procs -> Pcs]
  /\ who \in [Procs -> Ids]
  /\ op \in [Procs -> {"push", "pull", "replicate"}]
  /\ at \in [Procs -> Cores \cup {NoCore}]
  /\ dest \in [Procs -> Cores \cup {NoCore}]
  /\ rest \in [Procs -> Seq(Blobs)]
  /\ batch \in [Procs -> Seq(Blobs)]
  /\ got \in [Procs -> Seq(Blobs)]
  /\ known \in [Procs -> BOOLEAN] /\ promised \in [Procs -> BOOLEAN]
  /\ \A p \in Procs : pc[p] # "idle" => at[p] \in Cores
  /\ \A p \in Procs : op[p] = "replicate" => dest[p] \in Cores

BoundTypes ==
  /\ commands \in 0 .. MaxCommands
  /\ encryptions \in 0 .. MaxEncryptions
  /\ crashes \in 0 .. MaxCrashes
  /\ revocations \in 0 .. MaxRevocations

\* A core serves one that waits for it or is gone, and has stored the batch
\* when it turns to the manifest.
ServedOK ==
  \A k \in Cores : busy[k] \in Procs =>
    /\ at[busy[k]] = k /\ pc[busy[k]] \in {"storing", "killed"}
    /\ step[k] \in {"manifest", "acl"} => batch[busy[k]] = <<>>

TypesInv == CoreTypes /\ CommandTypes /\ BoundTypes /\ ServedOK

LEMMA TypesMean == TypesInv => StorageTypeOK
BY DEF TypesInv, CoreTypes, CommandTypes, BoundTypes, StorageTypeOK

LEMMA InitTypes == StorageInit => TypesInv
<1> SUFFICES ASSUME StorageInit PROVE TypesInv
  OBVIOUS
<1>1. <<>> \in Seq(Blobs)
  OBVIOUS
<1>2. CoreTypes
  BY DEF StorageInit, CoreTypes, StoreSteps
<1>3. CommandTypes
  BY <1>1, StorageAssumption DEF StorageInit, CommandTypes, Pcs
<1>4. BoundTypes
  BY StorageAssumption DEF StorageInit, BoundTypes
<1>5. ServedOK
  BY StorageAssumption DEF StorageInit, ServedOK
<1> QED
  BY <1>2, <1>3, <1>4, <1>5 DEF TypesInv

\* Pages, directories and sorted blobs are sequences of blobs.
LEMMA PageTypes ==
  ASSUME NEW s \in Seq(Blobs)
  PROVE  /\ Page(s) \in Seq(Blobs) /\ Sort(s) \in Seq(Blobs)
         /\ \A n \in 0 .. Len(s) : After(s, n) \in Seq(Blobs)
         /\ Len(Page(s)) \in 0 .. Len(s)
         /\ s # <<>> => Page(s) # <<>>
         /\ Elems(s) = Elems(Page(s)) \cup Elems(After(s, Len(Page(s))))
         /\ Elems(Sort(s)) = Elems(s) /\ Len(Sort(s)) = Len(s)
<1>1. PICK n \in 0 .. Len(s) : Page(s) = SubSeq(s, 1, n) /\ (s # <<>> => n # 0)
  BY PageOf
<1>2. Page(s) \in Seq(Blobs) /\ Len(Page(s)) = n
  BY <1>1, SplitAt
<1>3. \A m \in 0 .. Len(s) : After(s, m) \in Seq(Blobs)
  BY SplitAt
<1>4. Elems(s) = Elems(Page(s)) \cup Elems(After(s, Len(Page(s))))
  BY <1>1, <1>2, SplitElems
<1>5. \A b \in Blobs : b.index \in Nat
  BY DEF Blobs, Indices
<1>6. Sort(s) \in Seq(Blobs) /\ Elems(Sort(s)) = Elems(s) /\ Len(Sort(s)) = Len(s)
  BY <1>5, SortOK
<1>7. s # <<>> => Page(s) # <<>>
  BY <1>1, <1>2
<1> QED
  BY <1>1, <1>2, <1>3, <1>4, <1>6, <1>7

\* From any offset at all, the page is one of the directory's blobs.
LEMMA FetchTypes ==
  ASSUME NEW S, S \subseteq Blobs, NEW place \in DirOrders, NEW n \in Nat
  PROVE  PageFrom(SortedDir(S, place), n) \in Seq(Blobs)
<1> DEFINE s == SortedDir(S, place)
           m == Len(s)
<1>1. s \in Seq(Blobs)
  <2>1. s \in Seq(S)
    BY SortedDirOK
  <2> HIDE DEF s
  <2> QED
    BY <2>1
<1> HIDE DEF s
<1>2. m \in Nat /\ \A i \in 1 .. m : s[i] \in Blobs
  BY <1>1
<1>3. After(s, n) \in Seq(Blobs)
  <2>1. n + 1 \in Int /\ m \in Int /\ \A i \in n + 1 .. m : s[i] \in Blobs
    BY <1>2
  <2> QED
    BY <2>1, SubSeqProperties DEF After
<1> QED
  BY <1>3, PageTypes DEF PageFrom, s

\* A step of a process that no core serves.
LEMMA NotServed ==
  ASSUME TypesInv, UNCHANGED task, NEW p \in Procs, \A k \in Cores : busy[k] # p,
         \A q \in Procs : q # p =>
           pc'[q] = pc[q] /\ at'[q] = at[q] /\ batch'[q] = batch[q]
  PROVE  ServedOK'
BY DEF TypesInv, ServedOK, task

LEMMA BeginTypes ==
  ASSUME TypesInv, NEW p \in Procs, NEW i \in Ids, NEW k \in Cores,
         NEW what \in {"push", "pull", "replicate"},
         NEW d \in Cores \cup {NoCore}, what = "replicate" => d \in Cores,
         Begin(p, i, what, k, d),
         NEW x \in {"sending", "fetching"}, pc' = [pc EXCEPT ![p] = x],
         NEW s \in Seq(Blobs), rest' = [rest EXCEPT ![p] = s],
         got' = [got EXCEPT ![p] = s],
         encryptions' \in 0 .. MaxEncryptions,
         UNCHANGED <<store, task, batch, history, crashes, revocations>>
  PROVE  TypesInv'
<1> USE DEF TypesInv, store, task, history
<1>1. CoreTypes'
  BY DEF CoreTypes
<1>2. CommandTypes'
  <2>1. x \in Pcs
    BY DEF Pcs
  <2>2. (\E a \in acked : a[1] = k) \in BOOLEAN
    OBVIOUS
  <2> QED
    BY <2>1, <2>2 DEF Begin, CommandTypes
<1>3. BoundTypes'
  BY StorageAssumption DEF Begin, BoundTypes
<1>4. ServedOK'
  BY DEF Begin, CoreTypes, CommandTypes, ServedOK
<1> QED
  BY <1>1, <1>2, <1>3, <1>4

LEMMA StartPushTypes ==
  ASSUME TypesInv, NEW p \in Procs, NEW k \in Cores, StartPush(p, k)
  PROVE  TypesInv'
<1> DEFINE s == [j \in 1 .. NumChunks |->
                   [index |-> j - 1, nonce |-> encryptions + 1]]
<1>1. /\ encryptions + 1 \in 1 .. MaxEncryptions
      /\ encryptions' \in 0 .. MaxEncryptions
  BY StorageAssumption DEF TypesInv, BoundTypes, StartPush
<1>2. s \in Seq(Blobs)
  <2>1. \A j \in 1 .. NumChunks : j - 1 \in Indices
    BY StorageAssumption DEF Indices
  <2>2. s \in [1 .. NumChunks -> Blobs]
    BY <1>1, <2>1 DEF Blobs
  <2>3. NumChunks \in Nat
    BY StorageAssumption
  <2> HIDE DEF s
  <2> QED
    BY <2>2, <2>3
<1>3. rest' = [rest EXCEPT ![p] = s]
  BY DEF StartPush
<1>4. got' = [got EXCEPT ![p] = s]
  BY <1>3 DEF StartPush, TypesInv, CommandTypes
<1> HIDE DEF s
<1> QED
  BY <1>1, <1>2, <1>3, <1>4, StorageAssumption, BeginTypes DEF StartPush

LEMMA StartPullTypes ==
  ASSUME TypesInv, NEW p \in Procs, NEW i \in Ids, NEW k \in Cores,
         NEW d \in Cores \cup {NoCore}, StartPull(p, i, k, d)
  PROVE  TypesInv'
<1>1. <<>> \in Seq(Blobs)
  OBVIOUS
<1>2. encryptions' \in 0 .. MaxEncryptions
  BY DEF StartPull, TypesInv, BoundTypes
<1>3. CASE d = NoCore
  BY <1>1, <1>2, <1>3, BeginTypes DEF StartPull
<1>4. CASE d # NoCore
  BY <1>1, <1>2, <1>4, BeginTypes DEF StartPull
<1> QED
  BY <1>3, <1>4

LEMMA SendBatchTypes ==
  ASSUME TypesInv, NEW p \in Procs, SendBatch(p)
  PROVE  TypesInv'
<1> USE DEF TypesInv
<1>1. /\ UNCHANGED <<store, task, job, at, got, known, restored, pushed, bounds>>
      /\ pc[p] = "sending"
  BY DEF SendBatch
<1>2. PICK x \in {"storing", "done"} : pc' = [pc EXCEPT ![p] = x]
  BY DEF SendBatch
<1>3. rest[p] \in Seq(Blobs) /\ batch[p] \in Seq(Blobs) /\ got[p] \in Seq(Blobs)
  BY DEF CommandTypes
<1>4. /\ \E s \in Seq(Blobs) : batch' = [batch EXCEPT ![p] = s]
      /\ \E s \in Seq(Blobs) : rest' = [rest EXCEPT ![p] = s]
  <2>1. CASE rest[p] = <<>>
    BY <1>3, <2>1 DEF SendBatch, CommandTypes
  <2>2. CASE rest[p] # <<>>
    <3>1. /\ batch' = [batch EXCEPT ![p] = Page(rest[p])]
          /\ rest' = [rest EXCEPT ![p] = After(rest[p], Len(batch'[p]))]
      BY <2>2 DEF SendBatch
    <3>2. batch'[p] = Page(rest[p])
      BY <3>1 DEF CommandTypes
    <3> QED
      BY <1>3, <3>1, <3>2, PageTypes
  <2> QED
    BY <2>1, <2>2
<1>5. acked' \subseteq Cores \X SUBSET Blobs
  <2>1. Elems(got[p]) \subseteq Blobs
    BY <1>3 DEF Elems
  <2>2. at[p] \in Cores
    BY <1>1 DEF CommandTypes
  <2> QED
    BY <2>1, <2>2 DEF SendBatch, CoreTypes
<1>6. CoreTypes'
  BY <1>1, <1>5 DEF CoreTypes, store, task
<1>7. CommandTypes'
  BY <1>1, <1>2, <1>4 DEF CommandTypes, job, Pcs, Ended
<1>8. BoundTypes'
  BY <1>1 DEF BoundTypes, bounds
<1>9. ServedOK'
  <2>1. \A k \in Cores : busy[k] # p
    BY <1>1 DEF ServedOK
  <2>2. \A q \in Procs : q # p =>
          pc'[q] = pc[q] /\ at'[q] = at[q] /\ batch'[q] = batch[q]
    BY <1>1, <1>2, <1>4 DEF CommandTypes
  <2> QED
    BY <1>1, <2>1, <2>2, NotServed
<1> QED
  BY <1>6, <1>7, <1>8, <1>9

LEMMA TakeAckTypes ==
  ASSUME TypesInv, NEW p \in Procs, TakeAck(p)
  PROVE  TypesInv'
<1> USE DEF TypesInv
<1>1. /\ UNCHANGED <<store, task, job, at, rest, batch, got, known, history,
                     bounds>>
      /\ pc[p] \in {"acked", "refused"}
  BY DEF TakeAck
<1>2. PICK x \in {"sending", "failed"} : pc' = [pc EXCEPT ![p] = x]
  BY DEF TakeAck
<1>3. CoreTypes'
  BY <1>1 DEF CoreTypes, store, task, history
<1>4. CommandTypes'
  BY <1>1, <1>2 DEF CommandTypes, job, Pcs, Ended
<1>5. BoundTypes'
  BY <1>1 DEF BoundTypes, bounds
<1>6. ServedOK'
  BY <1>1, <1>2 DEF CoreTypes, CommandTypes, ServedOK, task
<1> QED
  BY <1>3, <1>4, <1>5, <1>6

LEMMA TakePageTypes ==
  ASSUME TypesInv, NEW p \in Procs, TakePage(p)
  PROVE  TypesInv'
<1> USE DEF TypesInv
<1>1. /\ UNCHANGED <<store, task, job, known, pushed, acked, bounds>>
      /\ pc[p] = "paged"
      /\ got' = [got EXCEPT ![p] = got[p] \o batch[p]]
      /\ batch' = [batch EXCEPT ![p] = <<>>]
  BY DEF TakePage
<1>2. PICK x \in {"fetching", "failed", "done", "sending"} :
        pc' = [pc EXCEPT ![p] = x]
  BY DEF TakePage
<1>3. /\ got[p] \o batch[p] \in Seq(Blobs) /\ <<>> \in Seq(Blobs)
      /\ rest[p] \in Seq(Blobs)
  <2>1. got[p] \in Seq(Blobs) /\ batch[p] \in Seq(Blobs) /\ rest[p] \in Seq(Blobs)
    BY DEF CommandTypes
  <2> QED
    BY <2>1
<1>4. got'[p] \in Seq(Blobs)
  BY <1>1, <1>3 DEF CommandTypes
<1>5. \E s \in Seq(Blobs) : rest' = [rest EXCEPT ![p] = s]
  <2>1. rest' = rest \/ rest' = [rest EXCEPT ![p] = Sort(got'[p])]
    BY DEF TakePage
  <2>2. rest = [rest EXCEPT ![p] = rest[p]]
    BY DEF CommandTypes
  <2> QED
    BY <1>3, <1>4, <2>1, <2>2, PageTypes
<1>6. at' = at \/ (op[p] = "replicate" /\ at' = [at EXCEPT ![p] = dest[p]])
  BY DEF TakePage
<1>7. CoreTypes'
  BY <1>1 DEF CoreTypes, store, task
<1>8. CommandTypes'
  <2>1. /\ pc' \in [Procs -> Pcs]
        /\ who' \in [Procs -> Ids]
        /\ op' \in [Procs -> {"push", "pull", "replicate"}]
        /\ dest' \in [Procs -> Cores \cup {NoCore}]
        /\ known' \in [Procs -> BOOLEAN] /\ promised' \in [Procs -> BOOLEAN]
        /\ \A q \in Procs : op'[q] = "replicate" => dest'[q] \in Cores
    BY <1>1, <1>2 DEF CommandTypes, job, Pcs, Ended
  <2>2. /\ rest' \in [Procs -> Seq(Blobs)]
        /\ batch' \in [Procs -> Seq(Blobs)]
        /\ got' \in [Procs -> Seq(Blobs)]
    BY <1>1, <1>3, <1>5 DEF CommandTypes
  <2>3. /\ at' \in [Procs -> Cores \cup {NoCore}]
        /\ \A q \in Procs : pc'[q] # "idle" => at'[q] \in Cores
    BY <1>1, <1>2, <1>6 DEF CommandTypes
  <2> QED
    BY <2>1, <2>2, <2>3 DEF CommandTypes
<1>9. BoundTypes'
  BY <1>1 DEF BoundTypes, bounds
<1>10. ServedOK'
  BY <1>1, <1>2, <1>6 DEF CoreTypes, CommandTypes, ServedOK, task
<1> QED
  BY <1>7, <1>8, <1>9, <1>10

LEMMA KillTypes ==
  ASSUME TypesInv, NEW p \in Procs, Kill(p)
  PROVE  TypesInv'
<1> USE DEF TypesInv
<1>1. /\ UNCHANGED <<store, task, job, at, rest, got, known, history, bounds>>
      /\ pc' = [pc EXCEPT ![p] = "killed"]
      /\ pc[p] # "idle"
      /\ \/ pc[p] = "storing" /\ batch' = batch
         \/ /\ \A k \in Cores : busy[k] # p
            /\ batch' = [batch EXCEPT ![p] = <<>>]
  BY DEF Kill, Ended
<1>2. <<>> \in Seq(Blobs)
  OBVIOUS
<1>3. CoreTypes'
  BY <1>1 DEF CoreTypes, store, task, history
<1>4. CommandTypes'
  <2>1. /\ pc' \in [Procs -> Pcs]
        /\ \A q \in Procs : pc'[q] # "idle" => at[q] \in Cores
    BY <1>1 DEF CommandTypes, Pcs, Ended
  <2>2. batch' \in [Procs -> Seq(Blobs)]
    BY <1>1, <1>2 DEF CommandTypes
  <2> QED
    BY <1>1, <2>1, <2>2 DEF CommandTypes, job
<1>5. BoundTypes'
  BY <1>1 DEF BoundTypes, bounds
<1>6. ServedOK'
  BY <1>1 DEF CoreTypes, CommandTypes, ServedOK, task
<1> QED
  BY <1>3, <1>4, <1>5, <1>6

LEMMA BeginStoreTypes ==
  ASSUME TypesInv, NEW p \in Procs, NEW k \in Cores, BeginStore(p, k)
  PROVE  TypesInv'
<1> USE DEF TypesInv
<1>1. /\ UNCHANGED <<store, job, at, rest, got, known, restored, acked, bounds>>
      /\ pc[p] \in {"storing", "killed"} /\ at[p] = k
      /\ busy[k] = NoProc
  BY DEF BeginStore
<1>2. <<>> \in Seq(Blobs)
  OBVIOUS
<1>3. BoundTypes'
  BY <1>1 DEF BoundTypes, bounds
<1>4. CASE PermittedToStore(k, who[p])
  <2>1. /\ busy' = [busy EXCEPT ![k] = p]
        /\ step' = [step EXCEPT ![k] = "blobs"]
        /\ pushed' = [pushed EXCEPT ![k] = @ \cup {who[p]}]
        /\ UNCHANGED <<pc, batch>>
    BY <1>4 DEF BeginStore
  <2>2. CoreTypes'
    <3>1. /\ who[p] \in Ids /\ p # NoProc
          /\ pushed' \in [Cores -> SUBSET Ids]
      BY <2>1, StorageAssumption DEF CoreTypes, CommandTypes
    <3> QED
      BY <1>1, <2>1, <3>1 DEF CoreTypes, store, StoreSteps
  <2>3. CommandTypes'
    BY <1>1, <2>1 DEF CommandTypes, job
  <2>4. ServedOK'
    BY <1>1, <2>1 DEF CoreTypes, ServedOK
  <2> QED
    BY <1>3, <2>2, <2>3, <2>4
<1>5. CASE ~PermittedToStore(k, who[p])
  <2>1. /\ UNCHANGED <<task, pushed>>
        /\ pc' = [pc EXCEPT ![p] = IF pc[p] = "storing" THEN "refused"
                                   ELSE pc[p]]
        /\ batch' = [batch EXCEPT ![p] = <<>>]
    BY <1>5 DEF BeginStore
  <2>2. CoreTypes'
    BY <1>1, <2>1 DEF CoreTypes, store, task
  <2>3. CommandTypes'
    BY <1>1, <1>2, <2>1 DEF CommandTypes, job, Pcs
  <2>4. ServedOK'
    <3>1. \A c \in Cores : busy[c] # p
      BY <1>1, StorageAssumption DEF ServedOK
    <3>2. \A q \in Procs : q # p =>
            pc'[q] = pc[q] /\ at'[q] = at[q] /\ batch'[q] = batch[q]
      BY <1>1, <2>1 DEF CommandTypes
    <3> QED
      BY <2>1, <3>1, <3>2, NotServed
  <2> QED
    BY <1>3, <2>2, <2>3, <2>4
<1> QED
  BY <1>4, <1>5

\* What a core at work finds: the sender of its batch.
LEMMA AtWork ==
  ASSUME TypesInv, NEW k \in Cores, step[k] # "idle"
  PROVE  /\ busy[k] \in Procs /\ busy[k] # NoProc
         /\ at[busy[k]] = k /\ pc[busy[k]] \in {"storing", "killed"}
         /\ batch[busy[k]] \in Seq(Blobs)
         /\ step[k] \in {"manifest", "acl"} => batch[busy[k]] = <<>>
         /\ \A c \in Cores : busy[c] = busy[k] => c = k
BY DEF TypesInv, CoreTypes, CommandTypes, ServedOK

LEMMA StoreBlobTypes ==
  ASSUME TypesInv, NEW k \in Cores, StoreBlob(k)
  PROVE  TypesInv'
<1> USE DEF TypesInv
<1> DEFINE p == busy[k]
<1>1. /\ UNCHANGED <<acl, revoked, busy, pc, job, at, rest, got, known, history,
                     bounds>>
      /\ step[k] = "blobs"
  BY DEF StoreBlob
<1>2. /\ p \in Procs /\ p # NoProc /\ at[p] = k /\ pc[p] \in {"storing", "killed"}
      /\ batch[p] \in Seq(Blobs)
      /\ \A c \in Cores : busy[c] = p => c = k
  BY <1>1, AtWork
<1>3. BoundTypes'
  BY <1>1 DEF BoundTypes, bounds
<1>4. CASE batch[p] # <<>>
  <2>1. /\ blobs' = [blobs EXCEPT ![k] = @ \cup {Head(batch[p])}]
        /\ batch' = [batch EXCEPT ![p] = Tail(@)]
        /\ UNCHANGED <<manifest, step>>
    BY <1>4 DEF StoreBlob
  <2>2. Head(batch[p]) \in Blobs /\ Tail(batch[p]) \in Seq(Blobs)
    BY <1>2, <1>4
  <2> HIDE DEF p
  <2>3. CoreTypes'
    <3>1. blobs' \in [Cores -> SUBSET Blobs]
      BY <2>1, <2>2 DEF CoreTypes
    <3> QED
      BY <1>1, <2>1, <3>1 DEF CoreTypes, history
  <2>4. CommandTypes'
    BY <1>1, <2>1, <2>2 DEF CommandTypes, job
  <2>5. ServedOK'
    <3> USE DEF p
    <3> QED
      BY <1>1, <1>2, <2>1 DEF CommandTypes, ServedOK
  <2> QED
    BY <1>3, <2>3, <2>4, <2>5
<1>5. CASE batch[p] = <<>>
  <2>1. /\ manifest' = [manifest EXCEPT ![k] = "torn"]
        /\ step' = [step EXCEPT ![k] = "manifest"]
        /\ UNCHANGED <<blobs, batch>>
    BY <1>5 DEF StoreBlob
  <2>2. CoreTypes'
    BY <1>1, <1>2, <2>1 DEF CoreTypes, StoreSteps, history
  <2>3. CommandTypes'
    BY <1>1, <2>1 DEF CommandTypes, job
  <2>4. ServedOK'
    BY <1>1, <1>2, <1>5, <2>1 DEF CoreTypes, ServedOK
  <2> QED
    BY <1>3, <2>2, <2>3, <2>4
<1> QED
  BY <1>4, <1>5

\* The end of a batch: the core is idle, and its sender has a reply if it waits.
LEMMA ServedEnds ==
  ASSUME TypesInv, NEW k \in Cores, step[k] # "idle",
         UNCHANGED <<blobs, revoked, job, at, rest, batch, got, known, history,
                     bounds>>,
         manifest' \in [Cores -> {"none", "torn", "full"}],
         acl' \in [Cores -> (SUBSET Ids) \cup {NoAcl, Torn}],
         NEW x \in {"acked", "refused"},
         pc' = [pc EXCEPT ![busy[k]] = IF pc[busy[k]] = "storing" THEN x
                                       ELSE pc[busy[k]]],
         busy' = [busy EXCEPT ![k] = NoProc],
         step' = [step EXCEPT ![k] = "idle"]
  PROVE  TypesInv'
<1> USE DEF TypesInv
<1>1. /\ busy[k] \in Procs
      /\ \A c \in Cores : busy[c] = busy[k] => c = k
  BY AtWork
<1>2. CoreTypes'
  BY DEF CoreTypes, StoreSteps, history
<1>3. CommandTypes'
  BY <1>1 DEF CommandTypes, job, Pcs
<1>4. BoundTypes'
  BY DEF BoundTypes, bounds
<1>5. ServedOK'
  BY <1>1, StorageAssumption DEF CoreTypes, CommandTypes, ServedOK
<1> QED
  BY <1>2, <1>3, <1>4, <1>5

LEMMA StoreManifestTypes ==
  ASSUME TypesInv, NEW k \in Cores, StoreManifest(k)
  PROVE  TypesInv'
<1> USE DEF TypesInv
<1>1. /\ UNCHANGED <<blobs, acl, revoked, job, at, rest, batch, got, known,
                     history, bounds>>
      /\ step[k] = "manifest"
      /\ manifest' = [manifest EXCEPT ![k] = "full"]
  BY DEF StoreManifest
<1>2. /\ manifest' \in [Cores -> {"none", "torn", "full"}]
      /\ acl' \in [Cores -> (SUBSET Ids) \cup {NoAcl, Torn}]
  BY <1>1 DEF CoreTypes
<1>3. CASE acl[k] = Torn
  BY <1>1, <1>2, <1>3, ServedEnds DEF StoreManifest
<1>4. CASE acl[k] # Torn
  <2>1. /\ step' = [step EXCEPT ![k] = "acl"]
        /\ UNCHANGED <<pc, busy>>
    BY <1>4 DEF StoreManifest
  <2>2. busy[k] # NoProc
    BY <1>1, AtWork
  <2>3. CoreTypes'
    BY <1>1, <1>2, <2>1, <2>2 DEF CoreTypes, StoreSteps, history
  <2>4. CommandTypes'
    BY <1>1, <2>1 DEF CommandTypes, job
  <2>5. BoundTypes'
    BY <1>1 DEF BoundTypes, bounds
  <2>6. ServedOK'
    BY <1>1, <2>1 DEF CoreTypes, ServedOK
  <2> QED
    BY <2>3, <2>4, <2>5, <2>6
<1> QED
  BY <1>3, <1>4

LEMMA StoreAclTypes ==
  ASSUME StorageInv, TypesInv, NEW k \in Cores, StoreAcl(k)
  PROVE  TypesInv'
<1>1. /\ UNCHANGED <<blobs, manifest, revoked, job, at, rest, batch, got, known,
                     history, bounds>>
      /\ step[k] = "acl"
      /\ acl' = [acl EXCEPT ![k] = Readers(k) \cup {who[busy[k]]}]
  BY DEF StoreAcl
<1>2. busy[k] \in Procs
  BY <1>1, AtWork
<1>3. acl[k] # Torn
  BY <1>1 DEF StorageInv, AclOK
<1>4. Readers(k) \cup {who[busy[k]]} \in SUBSET Ids
  BY <1>2, <1>3 DEF Readers, TypesInv, CoreTypes, CommandTypes
<1>5. /\ acl' \in [Cores -> (SUBSET Ids) \cup {NoAcl, Torn}]
      /\ manifest' \in [Cores -> {"none", "torn", "full"}]
  BY <1>1, <1>4 DEF TypesInv, CoreTypes
<1> QED
  BY <1>1, <1>5, ServedEnds DEF StoreAcl

LEMMA FetchIsTyped ==
  ASSUME TypesInv, NEW p \in Procs, NEW k \in Cores, Fetch(p, k)
  PROVE  TypesInv'
<1> USE DEF TypesInv
<1>1. /\ UNCHANGED <<store, task, job, at, rest, got, history, bounds>>
      /\ pc[p] = "fetching" /\ at[p] = k
  BY DEF Fetch
<1>2. PICK x \in {"paged", "failed"} : pc' = [pc EXCEPT ![p] = x]
  BY DEF Fetch
<1>3. /\ \E s \in Seq(Blobs) : batch' = [batch EXCEPT ![p] = s]
      /\ \E b \in BOOLEAN : known' = [known EXCEPT ![p] = b]
  <2>1. CASE PermittedToFetch(k, who[p])
    <3>1. PICK place \in DirOrders :
            batch' = [batch EXCEPT ![p] =
                        PageFrom(SortedDir(blobs[k], place), Len(got[p]))]
      BY <2>1 DEF Fetch
    <3>2. blobs[k] \subseteq Blobs /\ Len(got[p]) \in Nat
      BY DEF CoreTypes, CommandTypes
    <3>3. PageFrom(SortedDir(blobs[k], place), Len(got[p])) \in Seq(Blobs)
      BY <3>2, FetchTypes
    <3>4. known' = [known EXCEPT ![p] = @ \/ manifest[k] = "full"]
      BY <2>1 DEF Fetch
    <3>5. (known[p] \/ manifest[k] = "full") \in BOOLEAN
      OBVIOUS
    <3> QED
      BY <3>1, <3>3, <3>4, <3>5
  <2>2. CASE ~PermittedToFetch(k, who[p])
    <3>1. UNCHANGED <<batch, known>>
      BY <2>2 DEF Fetch
    <3> QED
      BY <3>1 DEF CommandTypes
  <2> QED
    BY <2>1, <2>2
<1>4. CoreTypes'
  BY <1>1 DEF CoreTypes, store, task, history
<1>5. CommandTypes'
  BY <1>1, <1>2, <1>3 DEF CommandTypes, job, Pcs, Ended
<1>6. BoundTypes'
  BY <1>1 DEF BoundTypes, bounds
<1>7. ServedOK'
  <2>1. \A c \in Cores : busy[c] # p
    BY <1>1 DEF ServedOK
  <2>2. \A q \in Procs : q # p =>
          pc'[q] = pc[q] /\ at'[q] = at[q] /\ batch'[q] = batch[q]
    BY <1>1, <1>2, <1>3 DEF CommandTypes
  <2> QED
    BY <1>1, <2>1, <2>2, NotServed
<1> QED
  BY <1>4, <1>5, <1>6, <1>7

LEMMA RevokeTypes ==
  ASSUME TypesInv, NEW k \in Cores, NEW i \in Ids, Revoke(k, i)
  PROVE  TypesInv'
<1> USE DEF TypesInv
<1>1. /\ UNCHANGED <<blobs, manifest, acl, task, command, history, commands,
                     encryptions, crashes>>
      /\ revoked' = [revoked EXCEPT ![k] = @ \cup {i}]
      /\ revocations < MaxRevocations /\ revocations' = revocations + 1
  BY DEF Revoke
<1>2. revoked' \in [Cores -> SUBSET Ids]
  BY <1>1 DEF CoreTypes
<1>3. CoreTypes'
  BY <1>1, <1>2 DEF CoreTypes, task, history
<1>4. CommandTypes'
  BY <1>1 DEF CommandTypes, command, job
<1>5. BoundTypes'
  BY <1>1, StorageAssumption DEF BoundTypes
<1>6. ServedOK'
  BY <1>1 DEF ServedOK, task, command
<1> QED
  BY <1>3, <1>4, <1>5, <1>6

LEMMA CrashTypes ==
  ASSUME TypesInv, NEW k \in Cores, Crash(k)
  PROVE  TypesInv'
<1> USE DEF TypesInv
<1> DEFINE lost == {p \in Procs : at[p] = k /\ pc[p] \in
                                     {"storing", "fetching", "killed"}}
<1>1. /\ UNCHANGED <<blobs, manifest, revoked, job, at, rest, got, known,
                     history, commands, encryptions, revocations>>
      /\ acl' = acl \/ acl' = [acl EXCEPT ![k] = Torn]
      /\ busy' = [busy EXCEPT ![k] = NoProc]
      /\ step' = [step EXCEPT ![k] = "idle"]
      /\ pc' = [p \in Procs |-> IF p \in lost THEN "killed" ELSE pc[p]]
      /\ batch' = [p \in Procs |-> IF p \in lost THEN <<>> ELSE batch[p]]
      /\ crashes < MaxCrashes /\ crashes' = crashes + 1
  BY DEF Crash
<1>2. <<>> \in Seq(Blobs)
  OBVIOUS
<1>3. \A q \in Procs : q \in lost => at[q] = k /\ pc[q] # "idle"
  OBVIOUS
<1> HIDE DEF lost
<1>4. CoreTypes'
  BY <1>1 DEF CoreTypes, StoreSteps, history
<1>5. CommandTypes'
  BY <1>1, <1>2, <1>3 DEF CommandTypes, job, Pcs, Ended
<1>6. BoundTypes'
  BY <1>1, StorageAssumption DEF BoundTypes
<1>7. ServedOK'
  BY <1>1, <1>3, StorageAssumption DEF CoreTypes, ServedOK
<1> QED
  BY <1>4, <1>5, <1>6, <1>7

\* Types hold in every state, one step per action of the commands and cores.
LEMMA NextTypes == StorageInv /\ TypesInv /\ [StorageNext]_vars => TypesInv'
<1> SUFFICES ASSUME StorageInv, TypesInv, [StorageNext]_vars PROVE TypesInv'
  OBVIOUS
<1>1. ASSUME NEW p \in Procs, NEW k \in Cores,
             \/ StartPush(p, k)
             \/ \E i \in Ids, d \in Cores \cup {NoCore} : StartPull(p, i, k, d)
      PROVE  TypesInv'
  BY <1>1, StartPushTypes, StartPullTypes
<1>2. ASSUME NEW p \in Procs, ProcStep(p) \/ Kill(p) PROVE TypesInv'
  BY <1>2, SendBatchTypes, TakeAckTypes, TakePageTypes, KillTypes DEF ProcStep
<1>3. ASSUME NEW k \in Cores, CoreStep(k) PROVE TypesInv'
  BY <1>3, BeginStoreTypes, StoreBlobTypes, StoreManifestTypes, StoreAclTypes,
     FetchIsTyped DEF CoreStep
<1>4. ASSUME NEW k \in Cores, Crash(k) \/ \E i \in Ids : Revoke(k, i)
      PROVE  TypesInv'
  BY <1>4, CrashTypes, RevokeTypes
<1>5. CASE UNCHANGED vars
  BY <1>5 DEF vars, store, task, command, job, history, bounds, TypesInv,
              CoreTypes, CommandTypes, BoundTypes, ServedOK
<1> QED
  BY <1>1, <1>2, <1>3, <1>4, <1>5 DEF StorageNext

\* The variables of commands and cores keep their types.
THEOREM StorageTypeCorrect == StorageSpec => []StorageTypeOK
<1>1. StorageInit => TypesInv
  BY InitTypes
<1>2. StorageInv /\ TypesInv /\ [StorageNext]_vars => TypesInv'
  BY NextTypes
<1>3. TypesInv => StorageTypeOK
  BY TypesMean
<1> QED
  BY <1>1, <1>2, <1>3, StorageInvariance, PTL DEF StorageSpec

(***************************************************************************)
(* What an acknowledged push leaves at its core                            *)
(***************************************************************************)
Sending(p) == pc[p] \in {"sending", "storing", "acked"}

\* Of what a command pushes, all is stored, or in the batch under way, or still
\* to send; and an answered batch is stored.
UnderWay(p) ==
  /\ pc[p] \in {"sending", "acked", "refused"} => batch[p] = <<>>
  /\ Sending(p) => Elems(got[p]) \subseteq
                     blobs[at[p]] \cup Elems(batch[p]) \cup Elems(rest[p])

UnderWayOK == \A p \in Procs : UnderWay(p)

LEMMA InitUnderWay == StorageInit => UnderWayOK /\ AckedStaysStored
BY DEF StorageInit, UnderWayOK, UnderWay, Sending, AckedStaysStored

\* No step deletes a blob.
LEMMA BlobsGrow ==
  ASSUME TypesInv, [StorageNext]_vars
  PROVE  \A k \in Cores : blobs[k] \subseteq blobs'[k]
<1>1. ASSUME NEW p \in Procs, NEW k \in Cores,
             \/ StartPush(p, k)
             \/ \E i \in Ids, d \in Cores \cup {NoCore} : StartPull(p, i, k, d)
      PROVE  blobs' = blobs
  BY <1>1 DEF StartPush, StartPull, store
<1>2. ASSUME NEW p \in Procs, ProcStep(p) \/ Kill(p) PROVE blobs' = blobs
  BY <1>2 DEF ProcStep, SendBatch, TakeAck, TakePage, Kill, store
<1>3. ASSUME NEW k \in Cores, CoreStep(k)
      PROVE  \A c \in Cores : blobs[c] \subseteq blobs'[c]
  <2>1. ASSUME NEW p \in Procs, BeginStore(p, k) \/ Fetch(p, k)
        PROVE  blobs' = blobs
    BY <2>1 DEF BeginStore, Fetch, store
  <2>2. CASE StoreBlob(k)
    <3>1. blobs' = blobs \/ \E b : blobs' = [blobs EXCEPT ![k] = @ \cup {b}]
      BY <2>2 DEF StoreBlob
    <3> QED
      BY <3>1 DEF TypesInv, CoreTypes
  <2>3. CASE StoreManifest(k) \/ StoreAcl(k)
    BY <2>3 DEF StoreManifest, StoreAcl
  <2> QED
    BY <1>3, <2>1, <2>2, <2>3 DEF CoreStep
<1>4. ASSUME NEW k \in Cores, Crash(k) \/ \E i \in Ids : Revoke(k, i)
      PROVE  blobs' = blobs
  BY <1>4 DEF Crash, Revoke
<1>5. CASE UNCHANGED vars
  BY <1>5 DEF vars, store
<1> QED
  BY <1>1, <1>2, <1>3, <1>4, <1>5 DEF StorageNext

\* What the command of q has is where it was, or in the store by now.
LEMMA StillUnderWay ==
  ASSUME TypesInv, \A k \in Cores : blobs[k] \subseteq blobs'[k],
         NEW q \in Procs, UnderWay(q),
         pc'[q] = pc[q], at'[q] = at[q], rest'[q] = rest[q],
         batch'[q] = batch[q], got'[q] = got[q]
  PROVE  UnderWay(q)'
<1>1. Sending(q) => at[q] \in Cores
  BY DEF Sending, TypesInv, CommandTypes
<1> QED
  BY <1>1 DEF UnderWay, Sending

\* A step of p alone.
LEMMA OneMoves ==
  ASSUME TypesInv, UnderWayOK, \A k \in Cores : blobs[k] \subseteq blobs'[k],
         NEW p \in Procs, UnderWay(p)',
         \A q \in Procs : q # p =>
           /\ pc'[q] = pc[q] /\ at'[q] = at[q] /\ rest'[q] = rest[q]
           /\ batch'[q] = batch[q] /\ got'[q] = got[q]
  PROVE  UnderWayOK'
BY StillUnderWay DEF UnderWayOK

LEMMA StartUnderWay ==
  ASSUME TypesInv, UnderWayOK, \A k \in Cores : blobs[k] \subseteq blobs'[k],
         NEW p \in Procs, NEW k \in Cores,
         \/ StartPush(p, k)
         \/ \E i \in Ids, d \in Cores \cup {NoCore} : StartPull(p, i, k, d)
  PROVE  UnderWayOK'
<1>1. /\ batch[p] = <<>> /\ batch' = batch
      /\ \E x : at' = [at EXCEPT ![p] = x]
      /\ \E x : /\ rest' = [rest EXCEPT ![p] = x]
                /\ got' = [got EXCEPT ![p] = rest'[p]] \/ got' = [got EXCEPT ![p] = x]
      /\ \E x : pc' = [pc EXCEPT ![p] = x]
  BY DEF StartPush, StartPull, Begin
<1>2. \/ pc'[p] = "sending" /\ got'[p] = rest'[p]
      \/ pc'[p] = "fetching"
  BY DEF StartPush, StartPull, TypesInv, CommandTypes
<1>3. UnderWay(p)'
  BY <1>1, <1>2 DEF UnderWay, Sending
<1> QED
  BY <1>1, <1>3, OneMoves DEF TypesInv, CommandTypes

LEMMA SendBatchUnderWay ==
  ASSUME TypesInv, UnderWayOK, AckedStaysStored, NEW p \in Procs, SendBatch(p)
  PROVE  UnderWayOK' /\ AckedStaysStored'
<1>1. /\ pc[p] = "sending" /\ batch[p] = <<>>
      /\ UNCHANGED <<blobs, at, got>>
      /\ rest[p] \in Seq(Blobs)
  BY DEF SendBatch, store, UnderWayOK, UnderWay, TypesInv, CommandTypes
<1>2. Elems(got[p]) \subseteq blobs[at[p]] \cup Elems(rest[p])
  <2>1. Elems(got[p]) \subseteq blobs[at[p]] \cup Elems(batch[p]) \cup Elems(rest[p])
    BY <1>1 DEF UnderWayOK, UnderWay, Sending
  <2>2. Elems(batch[p]) = {}
    BY <1>1 DEF Elems
  <2> QED
    BY <2>1, <2>2
<1>3. CASE rest[p] # <<>>
  <2>1. /\ batch' = [batch EXCEPT ![p] = Page(rest[p])]
        /\ rest' = [rest EXCEPT ![p] = After(rest[p], Len(batch'[p]))]
        /\ pc' = [pc EXCEPT ![p] = "storing"]
        /\ UNCHANGED acked
    BY <1>3 DEF SendBatch
  <2>2. /\ batch'[p] = Page(rest[p])
        /\ rest'[p] = After(rest[p], Len(Page(rest[p])))
        /\ pc'[p] = "storing"
    BY <2>1 DEF TypesInv, CommandTypes
  <2>3. Elems(rest[p]) = Elems(batch'[p]) \cup Elems(rest'[p])
    BY <1>1, <2>2, PageTypes
  <2>4. UnderWay(p)'
    BY <1>1, <1>2, <2>2, <2>3 DEF UnderWay
  <2>5. UnderWayOK'
    BY <1>1, <2>1, <2>4, OneMoves DEF TypesInv, CommandTypes
  <2> QED
    BY <1>1, <2>1, <2>5 DEF AckedStaysStored
<1>4. CASE rest[p] = <<>>
  <2>1. /\ pc' = [pc EXCEPT ![p] = "done"]
        /\ acked' = acked \cup {<<at[p], Elems(got[p])>>}
        /\ UNCHANGED <<rest, batch>>
    BY <1>4 DEF SendBatch
  <2>2. pc'[p] = "done"
    BY <2>1 DEF TypesInv, CommandTypes
  <2>3. UnderWay(p)'
    BY <2>2 DEF UnderWay, Sending
  <2>4. UnderWayOK'
    BY <1>1, <2>1, <2>3, OneMoves DEF TypesInv, CommandTypes
  <2>5. Elems(got[p]) \subseteq blobs[at[p]]
    <3>1. Elems(rest[p]) = {}
      BY <1>4 DEF Elems
    <3> QED
      BY <1>2, <3>1
  <2> QED
    BY <1>1, <2>1, <2>4, <2>5 DEF AckedStaysStored
<1> QED
  BY <1>3, <1>4

LEMMA TakeAckUnderWay ==
  ASSUME TypesInv, UnderWayOK, NEW p \in Procs, TakeAck(p)
  PROVE  UnderWayOK'
<1>1. /\ UNCHANGED <<blobs, at, rest, batch, got>>
      /\ pc[p] \in {"acked", "refused"}
      /\ pc' = [pc EXCEPT ![p] = IF pc[p] = "acked" THEN "sending" ELSE "failed"]
  BY DEF TakeAck, store
<1>2. pc'[p] = IF pc[p] = "acked" THEN "sending" ELSE "failed"
  BY <1>1 DEF TypesInv, CommandTypes
<1>3. UnderWay(p)'
  BY <1>1, <1>2 DEF UnderWayOK, UnderWay, Sending
<1> QED
  BY <1>1, <1>3, OneMoves DEF TypesInv, CommandTypes

LEMMA TakePageUnderWay ==
  ASSUME TypesInv, UnderWayOK, NEW p \in Procs, TakePage(p)
  PROVE  UnderWayOK'
<1>1. /\ blobs' = blobs
      /\ got' = [got EXCEPT ![p] = got[p] \o batch[p]]
      /\ batch' = [batch EXCEPT ![p] = <<>>]
      /\ at' = at \/ at' = [at EXCEPT ![p] = dest[p]]
      /\ rest' = rest \/ rest' = [rest EXCEPT ![p] = Sort(got'[p])]
      /\ \E x : pc' = [pc EXCEPT ![p] = x]
  BY DEF TakePage, store
<1>2. \/ pc' = [pc EXCEPT ![p] = "sending"] /\ rest' = [rest EXCEPT ![p] = Sort(got'[p])]
      \/ \E x \in {"fetching", "failed", "done"} : pc' = [pc EXCEPT ![p] = x]
  BY DEF TakePage
<1>3. \/ pc'[p] = "sending" /\ rest'[p] = Sort(got'[p])
      \/ pc'[p] \in {"fetching", "failed", "done"}
  BY <1>2 DEF TypesInv, CommandTypes
<1>4. batch'[p] = <<>> /\ got'[p] \in Seq(Blobs)
  <2>1. got[p] \in Seq(Blobs) /\ batch[p] \in Seq(Blobs)
    BY DEF TypesInv, CommandTypes
  <2>2. got[p] \o batch[p] \in Seq(Blobs)
    BY <2>1
  <2> QED
    BY <1>1, <2>2 DEF TypesInv, CommandTypes
<1>5. Elems(Sort(got'[p])) = Elems(got'[p])
  BY <1>4, PageTypes
<1>6. UnderWay(p)'
  BY <1>3, <1>4, <1>5 DEF UnderWay, Sending
<1> QED
  BY <1>1, <1>6, OneMoves DEF TypesInv, CommandTypes

\* A command that is gone, or reads, has nothing under way.
LEMMA QuietUnderWay ==
  ASSUME TypesInv, UnderWayOK, \A k \in Cores : blobs[k] \subseteq blobs'[k],
         NEW p \in Procs,
         NEW x \in {"killed", "paged", "failed"}, pc' = [pc EXCEPT ![p] = x],
         \A q \in Procs : q # p => batch'[q] = batch[q],
         UNCHANGED <<at, rest, got>>
  PROVE  UnderWayOK'
<1>1. UnderWay(p)'
  BY DEF UnderWay, Sending, TypesInv, CommandTypes
<1> QED
  BY <1>1, OneMoves DEF TypesInv, CommandTypes

LEMMA BeginStoreUnderWay ==
  ASSUME TypesInv, UnderWayOK, NEW p \in Procs, NEW k \in Cores, BeginStore(p, k)
  PROVE  UnderWayOK'
<1>1. /\ UNCHANGED <<blobs, at, rest, got>>
      /\ pc[p] \in {"storing", "killed"}
  BY DEF BeginStore, store
<1>2. CASE PermittedToStore(k, who[p])
  BY <1>1, <1>2 DEF BeginStore, UnderWayOK, UnderWay, Sending
<1>3. CASE ~PermittedToStore(k, who[p])
  <2>1. /\ pc' = [pc EXCEPT ![p] = IF pc[p] = "storing" THEN "refused"
                                   ELSE pc[p]]
        /\ batch' = [batch EXCEPT ![p] = <<>>]
    BY <1>3 DEF BeginStore
  <2>2. pc'[p] \in {"refused", "killed"} /\ batch'[p] = <<>>
    BY <1>1, <2>1 DEF TypesInv, CommandTypes
  <2>3. UnderWay(p)'
    BY <2>2 DEF UnderWay, Sending
  <2> QED
    BY <1>1, <2>1, <2>3, OneMoves DEF TypesInv, CommandTypes
<1> QED
  BY <1>2, <1>3

LEMMA StoreBlobUnderWay ==
  ASSUME TypesInv, UnderWayOK, \A k \in Cores : blobs[k] \subseteq blobs'[k],
         NEW k \in Cores, StoreBlob(k)
  PROVE  UnderWayOK'
<1>1. UNCHANGED <<pc, at, rest, got>> /\ step[k] = "blobs"
  BY DEF StoreBlob
<1>0. PICK p \in Procs : p = busy[k]
  BY <1>1, AtWork
<1>2. /\ at[p] = k /\ pc[p] \in {"storing", "killed"}
      /\ batch[p] \in Seq(Blobs)
  BY <1>0, <1>1, AtWork
<1>3. CASE batch[p] # <<>>
  <2>1. /\ blobs' = [blobs EXCEPT ![k] = blobs[k] \cup {Head(batch[p])}]
        /\ batch' = [batch EXCEPT ![p] = Tail(batch[p])]
    BY <1>0, <1>3 DEF StoreBlob
  <2>2. /\ blobs'[k] = blobs[k] \cup {Head(batch[p])}
        /\ batch'[p] = Tail(batch[p])
    BY <1>2, <2>1 DEF TypesInv, CoreTypes, CommandTypes
  <2>3. Elems(batch[p]) = {Head(batch[p])} \cup Elems(Tail(batch[p]))
    <3> DEFINE s == batch[p]
               n == Len(s)
    <3>1. s \in Seq(Blobs) /\ s # <<>>
      BY <1>2, <1>3
    <3> HIDE DEF s
    <3>2. /\ n \in Nat /\ n # 0 /\ Head(s) = s[1] /\ DOMAIN s = 1 .. n
          /\ Len(Tail(s)) = n - 1 /\ DOMAIN Tail(s) = 1 .. n - 1
          /\ \A i \in 1 .. n - 1 : Tail(s)[i] = s[i + 1]
      BY <3>1
    <3> HIDE DEF n
    <3>3. /\ 1 \in 1 .. n
          /\ \A i \in 1 .. n - 1 : i + 1 \in 1 .. n
          /\ \A i \in 1 .. n : i = 1 \/ (i - 1 \in 1 .. n - 1 /\ (i - 1) + 1 = i)
      BY <3>2
    <3>7. \A i \in 1 .. n - 1 : Tail(s)[i] \in Elems(s)
      BY <3>2, <3>3 DEF Elems
    <3>4. \A e \in {Head(s)} \cup Elems(Tail(s)) : e \in Elems(s)
      BY <3>2, <3>3, <3>7 DEF Elems
    <3>5. ASSUME NEW i \in 1 .. n PROVE s[i] \in {Head(s)} \cup Elems(Tail(s))
      <4>1. CASE i = 1
        BY <3>2, <4>1
      <4>2. CASE i - 1 \in 1 .. n - 1 /\ (i - 1) + 1 = i
        <5>1. Tail(s)[i - 1] = s[i]
          BY <3>2, <4>2
        <5> QED
          BY <3>2, <4>2, <5>1 DEF Elems
      <4> QED
        BY <3>3, <4>1, <4>2
    <3>6. \A e \in Elems(s) : e \in {Head(s)} \cup Elems(Tail(s))
      BY <3>2, <3>5 DEF Elems
    <3> QED
      BY <3>4, <3>6 DEF s
  <2>4. UnderWay(p)'
    BY <1>1, <1>2, <2>2, <2>3 DEF UnderWayOK, UnderWay, Sending
  <2> QED
    BY <1>1, <1>2, <2>1, <2>4, OneMoves DEF TypesInv, CommandTypes
<1>4. CASE batch[p] = <<>>
  <2>1. UNCHANGED <<blobs, batch>>
    BY <1>0, <1>4 DEF StoreBlob
  <2> QED
    BY <1>1, <2>1, StillUnderWay DEF UnderWayOK
<1> QED
  BY <1>3, <1>4

\* The reply to a stored batch.
LEMMA ReplyUnderWay ==
  ASSUME TypesInv, UnderWayOK, NEW k \in Cores, StoreManifest(k) \/ StoreAcl(k)
  PROVE  UnderWayOK'
<1>1. UNCHANGED <<blobs, at, rest, batch, got>> /\ step[k] \in {"manifest", "acl"}
  BY DEF StoreManifest, StoreAcl
<1>0. PICK p \in Procs : p = busy[k]
  BY <1>1, AtWork
<1>2. pc[p] \in {"storing", "killed"} /\ batch[p] = <<>>
  BY <1>0, <1>1, AtWork
<1>3. \/ pc' = pc
      \/ \E x \in {"acked", "refused"} :
           pc' = [pc EXCEPT ![p] = IF pc[p] = "storing" THEN x ELSE pc[p]]
  BY <1>0 DEF StoreManifest, StoreAcl
<1>4. /\ pc'[p] \in {"storing", "killed", "acked", "refused"}
      /\ Sending(p)' => Sending(p)
  BY <1>2, <1>3 DEF Sending, TypesInv, CommandTypes
<1>5. UnderWay(p)'
  BY <1>1, <1>2, <1>4 DEF UnderWayOK, UnderWay
<1> QED
  BY <1>1, <1>2, <1>3, <1>5, OneMoves DEF TypesInv, CommandTypes

LEMMA CrashUnderWay ==
  ASSUME TypesInv, UnderWayOK, NEW k \in Cores, Crash(k)
  PROVE  UnderWayOK'
<1> DEFINE lost == {p \in Procs : at[p] = k /\ pc[p] \in
                                     {"storing", "fetching", "killed"}}
<1>1. /\ UNCHANGED <<blobs, at, rest, got>>
      /\ pc' = [p \in Procs |-> IF p \in lost THEN "killed" ELSE pc[p]]
      /\ batch' = [p \in Procs |-> IF p \in lost THEN <<>> ELSE batch[p]]
  BY DEF Crash
<1> HIDE DEF lost
<1>2. ASSUME NEW q \in Procs, q \in lost PROVE UnderWay(q)'
  <2>1. pc'[q] = "killed"
    BY <1>1, <1>2
  <2> QED
    BY <2>1 DEF UnderWay, Sending
<1>3. ASSUME NEW q \in Procs, q \notin lost PROVE UnderWay(q)'
  BY <1>1, <1>3, StillUnderWay DEF UnderWayOK
<1> QED
  BY <1>2, <1>3 DEF UnderWayOK

LEMMA NextUnderWay ==
  ASSUME TypesInv, UnderWayOK, AckedStaysStored, [StorageNext]_vars
  PROVE  UnderWayOK' /\ AckedStaysStored'
<1>1. \A k \in Cores : blobs[k] \subseteq blobs'[k]
  BY BlobsGrow
<1>2. acked' = acked => AckedStaysStored'
  BY <1>1 DEF AckedStaysStored, TypesInv, CoreTypes
<1>3. ASSUME NEW p \in Procs, NEW k \in Cores,
             \/ StartPush(p, k)
             \/ \E i \in Ids, d \in Cores \cup {NoCore} : StartPull(p, i, k, d)
      PROVE  UnderWayOK' /\ AckedStaysStored'
  BY <1>1, <1>2, <1>3, StartUnderWay DEF StartPush, StartPull, history
<1>4. ASSUME NEW p \in Procs, TakeAck(p) \/ TakePage(p)
      PROVE  UnderWayOK' /\ AckedStaysStored'
  BY <1>2, <1>4, TakeAckUnderWay, TakePageUnderWay DEF TakeAck, TakePage, history
<1>5. ASSUME NEW p \in Procs, SendBatch(p)
      PROVE  UnderWayOK' /\ AckedStaysStored'
  BY <1>5, SendBatchUnderWay
<1>6. ASSUME NEW p \in Procs, Kill(p) PROVE UnderWayOK' /\ AckedStaysStored'
  <2>1. /\ pc' = [pc EXCEPT ![p] = "killed"]
        /\ batch' = batch \/ batch' = [batch EXCEPT ![p] = <<>>]
        /\ UNCHANGED <<at, rest, got, acked>>
    BY <1>6 DEF Kill, history
  <2> QED
    BY <1>1, <1>2, <2>1, QuietUnderWay DEF TypesInv, CommandTypes
<1>7. ASSUME NEW p \in Procs, NEW k \in Cores, Fetch(p, k)
      PROVE  UnderWayOK' /\ AckedStaysStored'
  <2>1. /\ \E x \in {"paged", "failed"} : pc' = [pc EXCEPT ![p] = x]
        /\ batch' = batch \/ \E s : batch' = [batch EXCEPT ![p] = s]
        /\ UNCHANGED <<at, rest, got, acked>>
    BY <1>7 DEF Fetch, history
  <2> QED
    BY <1>1, <1>2, <2>1, QuietUnderWay DEF TypesInv, CommandTypes
<1>8. ASSUME NEW p \in Procs, NEW k \in Cores, BeginStore(p, k)
      PROVE  UnderWayOK' /\ AckedStaysStored'
  BY <1>2, <1>8, BeginStoreUnderWay DEF BeginStore
<1>9. ASSUME NEW k \in Cores, StoreBlob(k) \/ StoreManifest(k) \/ StoreAcl(k)
      PROVE  UnderWayOK' /\ AckedStaysStored'
  BY <1>1, <1>2, <1>9, StoreBlobUnderWay, ReplyUnderWay
     DEF StoreBlob, StoreManifest, StoreAcl, history
<1>10. ASSUME NEW k \in Cores, Crash(k) PROVE UnderWayOK' /\ AckedStaysStored'
  BY <1>2, <1>10, CrashUnderWay DEF Crash, history
<1>11. ASSUME UNCHANGED vars \/ \E k \in Cores, i \in Ids : Revoke(k, i)
       PROVE  UnderWayOK' /\ AckedStaysStored'
  <2>1. UNCHANGED <<blobs, pc, at, rest, batch, got, acked>>
    BY <1>11 DEF vars, store, command, history, Revoke
  <2> QED
    BY <1>2, <2>1 DEF UnderWayOK, UnderWay, Sending
<1> QED
  BY <1>3, <1>4, <1>5, <1>6, <1>7, <1>8, <1>9, <1>10, <1>11
     DEF StorageNext, ProcStep, CoreStep

\* When push_chunks returns Ok every blob is in the core's store and it stays
\* there (app/storage.rs push_chunks, store_chunks; main.rs replicate).
THEOREM AckedStayStored == StorageSpec => []AckedStaysStored
<1>1. StorageInit => TypesInv /\ UnderWayOK /\ AckedStaysStored
  BY InitTypes, InitUnderWay
<1>2. StorageInv /\ TypesInv /\ UnderWayOK /\ AckedStaysStored
        /\ [StorageNext]_vars
      => TypesInv' /\ UnderWayOK' /\ AckedStaysStored'
  BY NextTypes, NextUnderWay
<1> QED
  BY <1>1, <1>2, StorageInvariance, PTL DEF StorageSpec

(***************************************************************************)
(* A file that was encrypted once                                          *)
(***************************************************************************)
\* Every command and every store has the file up to some chunk.
Pushes(p) == Sending(p) \/ (pc[p] = "killed" /\ batch[p] # <<>>)

\* n chunks are stored, m are in the batch under way.
PushIs(p, n, m) ==
  /\ n + m <= NumChunks
  /\ got[p] = Segment(0, NumChunks)
  /\ batch[p] = Segment(n, m)
  /\ rest[p] = Segment(n + m, NumChunks - (n + m))
  /\ Upto(n) \subseteq blobs[at[p]]

\* n chunks are pulled, m are in the page that arrived.
PullIs(p, n, m) ==
  /\ got[p] = Segment(0, n)
  /\ pc[p] = "paged" => batch[p] = Segment(n, m)
  /\ Upto(n + m) \subseteq blobs[at[p]]

OnFile(p) ==
  /\ Pushes(p) => \E n, m \in Nat : PushIs(p, n, m)
  /\ pc[p] \in {"fetching", "paged"} => \E n, m \in Nat : PullIs(p, n, m)

PrefixOK == \A k \in Cores : \E n \in 0 .. NumChunks : blobs[k] = Upto(n)

DoneOK ==
  /\ \A r \in restored : r[3] = Segment(0, NumChunks)
  /\ \A a \in acked : a[2] = Upto(NumChunks)

FileIs == PrefixOK /\ DoneOK /\ \A p \in Procs : OnFile(p)

FileInv == encryptions <= 1 => FileIs

LEMMA InitFile == StorageInit => FileInv
<1> SUFFICES ASSUME StorageInit PROVE FileIs
  BY DEF FileInv
<1>1. Upto(0) = {} /\ 0 \in 0 .. NumChunks
  BY StorageAssumption DEF Upto
<1> QED
  BY <1>1 DEF StorageInit, FileIs, PrefixOK, DoneOK, OnFile, Pushes, Sending

\* Nothing of the file is the empty sequence, and the converse.
LEMMA EmptySegment ==
  ASSUME NEW a \in Nat
  PROVE  Segment(a, 0) = <<>> /\ \A n \in Nat : Segment(a, n) = <<>> => n = 0
<1>1. \A n \in Nat : Segment(a, n) \in Seq(AnyBlob) /\ Len(Segment(a, n)) = n
  BY SegmentOK
<1>2. Segment(a, 0) = <<>>
  <2>1. Segment(a, 0) \in Seq(AnyBlob) /\ Len(Segment(a, 0)) = 0
    BY <1>1
  <2> DEFINE s == Segment(a, 0)
  <2> HIDE DEF s
  <2>2. s \in Seq(AnyBlob) /\ Len(s) = 0 => s = <<>>
    OBVIOUS
  <2> QED
    BY <2>1, <2>2 DEF s
<1>3. ASSUME NEW n \in Nat, Segment(a, n) = <<>> PROVE n = 0
  <2>1. Len(Segment(a, n)) = n
    BY <1>1
  <2>2. Len(<<>>) = 0
    OBVIOUS
  <2> QED
    BY <1>3, <2>1, <2>2
<1> QED
  BY <1>2, <1>3

\* A page of a stretch of the file is the beginning of it.
LEMMA SegmentPage ==
  ASSUME NEW a \in Nat, NEW n \in Nat
  PROVE  \E m \in 0 .. n :
           /\ Page(Segment(a, n)) = Segment(a, m)
           /\ Len(Page(Segment(a, n))) = m
           /\ After(Segment(a, n), m) = Segment(a + m, n - m)
           /\ n # 0 => m # 0
<1>1. Segment(a, n) \in Seq(AnyBlob) /\ Len(Segment(a, n)) = n
  BY SegmentOK
<1>2. PICK m \in 0 .. n :
        /\ Page(Segment(a, n)) = SubSeq(Segment(a, n), 1, m)
        /\ Segment(a, n) # <<>> => m # 0
  BY <1>1, PageOf
<1>3. /\ SubSeq(Segment(a, n), 1, m) = Segment(a, m)
      /\ After(Segment(a, n), m) = Segment(a + m, n - m)
  BY SegmentSplit
<1>4. Len(Segment(a, m)) = m
  BY SegmentOK
<1>5. n # 0 => m # 0
  BY <1>2, EmptySegment
<1> QED
  BY <1>2, <1>3, <1>4, <1>5

LEMMA SegmentSort ==
  ASSUME NEW n \in Nat
  PROVE  Sort(Segment(0, n)) = Segment(0, n)
<1> DEFINE s == Segment(0, n)
<1>1. s \in Seq(AnyBlob) /\ Len(s) = n /\ \A j \in 1 .. n : s[j] = Blob(0 + j - 1)
  BY SegmentOK
<1>2. \A b \in AnyBlob : b.index \in Nat
  BY DEF AnyBlob, Blob
<1> HIDE DEF s
<1>3. \A i, j \in DOMAIN s : i < j => s[i].index <= s[j].index
  <2>1. DOMAIN s = 1 .. n
    BY <1>1
  <2>2. \A j \in 1 .. n : s[j].index = 0 + j - 1
    BY <1>1 DEF Blob
  <2> QED
    BY <2>1, <2>2
<1>4. Sort(s) = s
  BY <1>1, <1>2, <1>3, SortOK
<1> QED
  BY <1>4 DEF s

\* What a command has of the file it keeps while it does not move.
LEMMA StillOnFile ==
  ASSUME TypesInv, \A k \in Cores : blobs[k] \subseteq blobs'[k],
         NEW q \in Procs, OnFile(q),
         pc'[q] = pc[q], at'[q] = at[q], rest'[q] = rest[q],
         batch'[q] = batch[q], got'[q] = got[q]
  PROVE  OnFile(q)'
<1>1. pc[q] # "idle" => blobs[at[q]] \subseteq blobs'[at[q]]
  BY DEF TypesInv, CommandTypes
<1>2. Pushes(q)' => Pushes(q) /\ pc[q] # "idle"
  BY DEF Pushes, Sending
<1>3. ASSUME Pushes(q)' PROVE \E n, m \in Nat : PushIs(q, n, m)'
  <2>1. PICK n, m \in Nat : PushIs(q, n, m)
    BY <1>2, <1>3 DEF OnFile
  <2>2. PushIs(q, n, m)'
    BY <1>1, <1>2, <1>3, <2>1 DEF PushIs
  <2> QED
    BY <2>2
<1>4. ASSUME pc'[q] \in {"fetching", "paged"}
      PROVE  \E n, m \in Nat : PullIs(q, n, m)'
  <2>1. PICK n, m \in Nat : PullIs(q, n, m)
    BY <1>4 DEF OnFile
  <2>2. PullIs(q, n, m)'
    BY <1>1, <1>4, <2>1 DEF PullIs
  <2> QED
    BY <2>2
<1> QED
  BY <1>3, <1>4 DEF OnFile

LEMMA OneOnFile ==
  ASSUME TypesInv, \A k \in Cores : blobs[k] \subseteq blobs'[k],
         \A q \in Procs : OnFile(q), NEW p \in Procs, OnFile(p)',
         \A q \in Procs : q # p =>
           /\ pc'[q] = pc[q] /\ at'[q] = at[q] /\ rest'[q] = rest[q]
           /\ batch'[q] = batch[q] /\ got'[q] = got[q]
  PROVE  \A q \in Procs : OnFile(q)'
BY StillOnFile

\* A command that has ended, and left no batch, has nothing.
LEMMA EndedOnFile ==
  ASSUME NEW p \in Procs,
         \/ pc'[p] \in {"done", "failed", "refused"}
         \/ pc'[p] = "killed" /\ batch'[p] = <<>>
  PROVE  OnFile(p)'
BY DEF OnFile, Pushes, Sending

LEMMA StartPushFile ==
  ASSUME TypesInv, FileIs, NEW p \in Procs, NEW k \in Cores, StartPush(p, k),
         encryptions = 0
  PROVE  FileIs'
<1> DEFINE s == [j \in 1 .. NumChunks |->
                   [index |-> j - 1, nonce |-> encryptions + 1]]
<1>1. s = Segment(0, NumChunks)
  BY DEF Segment, Blob
<1>2. /\ UNCHANGED <<blobs, restored, acked, batch>> /\ batch[p] = <<>>
      /\ pc' = [pc EXCEPT ![p] = "sending"]
      /\ rest' = [rest EXCEPT ![p] = s]
      /\ got' = [got EXCEPT ![p] = rest'[p]]
      /\ at' = [at EXCEPT ![p] = k]
  BY DEF StartPush, Begin, store, history
<1> HIDE DEF s
<1>3. /\ pc'[p] = "sending" /\ batch'[p] = <<>> /\ at'[p] = k
      /\ rest'[p] = Segment(0, NumChunks) /\ got'[p] = Segment(0, NumChunks)
  BY <1>1, <1>2 DEF TypesInv, CommandTypes
<1>4. PushIs(p, 0, 0)'
  <2>1. Segment(0, 0) = <<>> /\ Upto(0) = {}
    BY EmptySegment DEF Upto
  <2>2. 0 + 0 <= NumChunks /\ NumChunks - (0 + 0) = NumChunks /\ 0 + 0 = 0
    BY StorageAssumption
  <2> QED
    BY <1>3, <2>1, <2>2 DEF PushIs
<1>5. OnFile(p)'
  BY <1>3, <1>4 DEF OnFile
<1>6. \A q \in Procs : OnFile(q)'
  BY <1>2, <1>5, OneOnFile DEF FileIs, TypesInv, CommandTypes
<1> QED
  BY <1>2, <1>6 DEF FileIs, PrefixOK, DoneOK

LEMMA StartPullFile ==
  ASSUME TypesInv, FileIs, NEW p \in Procs, NEW k \in Cores,
         NEW i \in Ids, NEW d \in Cores \cup {NoCore}, StartPull(p, i, k, d)
  PROVE  FileIs'
<1>1. /\ UNCHANGED <<blobs, restored, acked, batch>>
      /\ pc' = [pc EXCEPT ![p] = "fetching"]
      /\ rest' = [rest EXCEPT ![p] = <<>>]
      /\ got' = [got EXCEPT ![p] = <<>>]
      /\ at' = [at EXCEPT ![p] = k]
  BY DEF StartPull, Begin, store, history
<1>2. pc'[p] = "fetching" /\ got'[p] = <<>>
  BY <1>1 DEF TypesInv, CommandTypes
<1>3. PullIs(p, 0, 0)'
  <2>1. Segment(0, 0) = <<>> /\ Upto(0 + 0) = {}
    BY EmptySegment DEF Upto
  <2> QED
    BY <1>2, <2>1 DEF PullIs
<1>4. OnFile(p)'
  BY <1>2, <1>3 DEF OnFile, Pushes, Sending
<1>5. \A q \in Procs : OnFile(q)'
  BY <1>1, <1>4, OneOnFile DEF FileIs, TypesInv, CommandTypes
<1> QED
  BY <1>1, <1>5 DEF FileIs, PrefixOK, DoneOK

LEMMA SendBatchFile ==
  ASSUME TypesInv, UnderWayOK, FileIs, NEW p \in Procs, SendBatch(p)
  PROVE  FileIs'
<1>1. /\ pc[p] = "sending" /\ batch[p] = <<>>
      /\ UNCHANGED <<blobs, at, got, restored>>
  BY DEF SendBatch, store, UnderWayOK, UnderWay
<1>2. PICK n, m \in Nat : PushIs(p, n, m)
  BY <1>1 DEF FileIs, OnFile, Pushes, Sending
<1>3. /\ m = 0 /\ n <= NumChunks /\ NumChunks \in Nat
      /\ rest[p] = Segment(n, NumChunks - n)
      /\ got[p] = Segment(0, NumChunks) /\ Upto(n) \subseteq blobs[at[p]]
  <2>1. m = 0
    BY <1>1, <1>2, EmptySegment DEF PushIs
  <2>2. n + 0 = n /\ NumChunks \in Nat
    BY StorageAssumption
  <2> QED
    BY <1>2, <2>1, <2>2 DEF PushIs
<1>4. CASE rest[p] # <<>>
  <2>1. /\ batch' = [batch EXCEPT ![p] = Page(rest[p])]
        /\ rest' = [rest EXCEPT ![p] = After(rest[p], Len(batch'[p]))]
        /\ pc' = [pc EXCEPT ![p] = "storing"]
        /\ UNCHANGED acked
    BY <1>4 DEF SendBatch
  <2>2. /\ batch'[p] = Page(rest[p])
        /\ rest'[p] = After(rest[p], Len(Page(rest[p])))
        /\ pc'[p] = "storing"
    BY <2>1 DEF TypesInv, CommandTypes
  <2>3. NumChunks - n \in Nat
    BY <1>3
  <2>4. PICK l \in 0 .. NumChunks - n :
          /\ Page(rest[p]) = Segment(n, l) /\ Len(Page(rest[p])) = l
          /\ After(rest[p], l) = Segment(n + l, (NumChunks - n) - l)
    BY <1>3, <2>3, SegmentPage
  <2>5. /\ l \in Nat /\ n + l <= NumChunks
        /\ (NumChunks - n) - l = NumChunks - (n + l)
    BY <1>3, <2>3
  <2>6. PushIs(p, n, l)'
    BY <1>1, <1>3, <2>2, <2>4, <2>5 DEF PushIs
  <2>7. OnFile(p)'
    BY <2>2, <2>5, <2>6 DEF OnFile
  <2>8. \A q \in Procs : OnFile(q)'
    BY <1>1, <2>1, <2>7, OneOnFile DEF FileIs, TypesInv, CommandTypes
  <2> QED
    BY <1>1, <2>1, <2>8 DEF FileIs, PrefixOK, DoneOK
<1>5. CASE rest[p] = <<>>
  <2>1. /\ pc' = [pc EXCEPT ![p] = "done"]
        /\ acked' = acked \cup {<<at[p], Elems(got[p])>>}
        /\ UNCHANGED <<rest, batch>>
    BY <1>5 DEF SendBatch
  <2>2. pc'[p] = "done"
    BY <2>1 DEF TypesInv, CommandTypes
  <2>3. Elems(got[p]) = Upto(NumChunks)
    BY <1>3, UptoOK
  <2>4. OnFile(p)'
    BY <2>2, EndedOnFile
  <2>5. \A q \in Procs : OnFile(q)'
    BY <1>1, <2>1, <2>4, OneOnFile DEF FileIs, TypesInv, CommandTypes
  <2> QED
    BY <1>1, <2>1, <2>3, <2>5 DEF FileIs, PrefixOK, DoneOK
<1> QED
  BY <1>4, <1>5

LEMMA TakeAckFile ==
  ASSUME TypesInv, FileIs, NEW p \in Procs, TakeAck(p)
  PROVE  FileIs'
<1>1. /\ UNCHANGED <<blobs, at, rest, batch, got, restored, acked>>
      /\ pc[p] \in {"acked", "refused"}
      /\ pc' = [pc EXCEPT ![p] = IF pc[p] = "acked" THEN "sending" ELSE "failed"]
  BY DEF TakeAck, store, history
<1>2. pc'[p] = IF pc[p] = "acked" THEN "sending" ELSE "failed"
  BY <1>1 DEF TypesInv, CommandTypes
<1>3. OnFile(p)'
  <2>1. CASE pc[p] = "acked"
    <3>1. PICK n, m \in Nat : PushIs(p, n, m)
      BY <2>1 DEF FileIs, OnFile, Pushes, Sending
    <3>2. PushIs(p, n, m)'
      BY <1>1, <3>1 DEF PushIs
    <3> QED
      BY <1>2, <2>1, <3>2 DEF OnFile
  <2>2. CASE pc[p] # "acked"
    BY <1>2, <2>2, EndedOnFile
  <2> QED
    BY <2>1, <2>2
<1>4. \A q \in Procs : OnFile(q)'
  BY <1>1, <1>3, OneOnFile DEF FileIs, TypesInv, CommandTypes
<1> QED
  BY <1>1, <1>4 DEF FileIs, PrefixOK, DoneOK

\* What is read of the file is stored, and the store has no more than the file.
LEMMA WithinFile ==
  ASSUME FileIs, NEW k \in Cores, NEW n \in Nat, Upto(n) \subseteq blobs[k]
  PROVE  n <= NumChunks
<1>1. PICK l \in 0 .. NumChunks : blobs[k] = Upto(l)
  BY DEF FileIs, PrefixOK
<1>2. l \in Nat /\ NumChunks \in Nat /\ l <= NumChunks
  BY StorageAssumption
<1>3. n <= l
  BY <1>1, <1>2, UptoOK
<1> QED
  BY <1>2, <1>3

\* The page that arrived goes on where the collected blobs end.
LEMMA PageJoins ==
  ASSUME TypesInv, NEW p \in Procs, pc[p] = "paged",
         NEW n \in Nat, NEW m \in Nat, PullIs(p, n, m),
         got' = [got EXCEPT ![p] = got[p] \o batch[p]]
  PROVE  /\ got'[p] = Segment(0, n + m) /\ Len(got'[p]) = n + m
         /\ Len(got[p]) = n /\ Len(batch[p]) = m
<1>1. got[p] = Segment(0, n) /\ batch[p] = Segment(0 + n, m)
  BY DEF PullIs
<1>2. Segment(0, n) \o Segment(0 + n, m) = Segment(0, n + m)
  BY SegmentJoin
<1>3. got'[p] = got[p] \o batch[p]
  BY DEF TypesInv, CommandTypes
<1>4. got'[p] = Segment(0, n + m)
  BY <1>1, <1>2, <1>3
<1>5. n + m \in Nat /\ 0 + n \in Nat
  OBVIOUS
<1>6. Len(Segment(0, n + m)) = n + m
  BY <1>5, SegmentOK
<1>7. Len(Segment(0, n)) = n
  BY SegmentOK
<1>8. Len(Segment(0 + n, m)) = m
  BY <1>5, SegmentOK
<1> QED
  BY <1>1, <1>4, <1>6, <1>7, <1>8

LEMMA TakePageFile ==
  ASSUME TypesInv, FileIs, NEW p \in Procs, TakePage(p)
  PROVE  FileIs'
<1>1. /\ pc[p] = "paged"
      /\ UNCHANGED <<blobs, acked>>
      /\ got' = [got EXCEPT ![p] = got[p] \o batch[p]]
      /\ batch' = [batch EXCEPT ![p] = <<>>]
      /\ at' = at \/ at' = [at EXCEPT ![p] = dest[p]]
      /\ rest' = rest \/ rest' = [rest EXCEPT ![p] = Sort(got'[p])]
  BY DEF TakePage, store
<1>2. PICK n, m \in Nat : PullIs(p, n, m)
  BY <1>1 DEF FileIs, OnFile
<1>3. got'[p] = Segment(0, n + m) /\ Len(got'[p]) = n + m
  BY <1>1, <1>2, PageJoins
<1>4. n + m \in Nat /\ n + m <= NumChunks /\ Upto(n + m) \subseteq blobs[at[p]]
  <2>1. Upto(n + m) \subseteq blobs[at[p]] /\ at[p] \in Cores
    BY <1>1, <1>2 DEF PullIs, TypesInv, CommandTypes
  <2> QED
    BY <2>1, WithinFile
<1>5. Whole(got'[p]) => n + m = NumChunks /\ Sort(got'[p]) = Segment(0, NumChunks)
  BY <1>3, <1>4, SegmentSort DEF Whole
<1>6. \/ pc' = [pc EXCEPT ![p] = "fetching"] /\ UNCHANGED <<at, restored>>
      \/ pc' = [pc EXCEPT ![p] = "failed"] /\ UNCHANGED restored
      \/ /\ pc' = [pc EXCEPT ![p] = "done"] /\ Whole(got'[p])
         /\ restored' = restored \cup {<<who[p], at[p], Sort(got'[p])>>}
      \/ /\ pc' = [pc EXCEPT ![p] = "sending"] /\ Whole(got'[p])
         /\ rest' = [rest EXCEPT ![p] = Sort(got'[p])]
         /\ UNCHANGED restored
  BY DEF TakePage
<1>7. batch'[p] = <<>>
  BY <1>1 DEF TypesInv, CommandTypes
<1>8. OnFile(p)'
  <2>1. CASE pc' = [pc EXCEPT ![p] = "fetching"] /\ at' = at
    <3>1. pc'[p] = "fetching"
      BY <2>1 DEF TypesInv, CommandTypes
    <3>2. (n + m) + 0 = n + m
      BY <1>4
    <3>3. PullIs(p, n + m, 0)'
      BY <1>1, <1>3, <1>4, <2>1, <3>1, <3>2 DEF PullIs
    <3> QED
      BY <1>4, <3>1, <3>3 DEF OnFile, Pushes, Sending
  <2>2. CASE \E x \in {"failed", "done"} : pc' = [pc EXCEPT ![p] = x]
    <3>1. pc'[p] \in {"failed", "done"}
      BY <2>2 DEF TypesInv, CommandTypes
    <3> QED
      BY <3>1, EndedOnFile
  <2>3. CASE /\ pc' = [pc EXCEPT ![p] = "sending"] /\ Whole(got'[p])
             /\ rest' = [rest EXCEPT ![p] = Sort(got'[p])]
    <3>1. /\ pc'[p] = "sending" /\ rest'[p] = Segment(0, NumChunks)
          /\ got'[p] = Segment(0, NumChunks)
      BY <1>3, <1>5, <2>3 DEF TypesInv, CommandTypes
    <3>2. Segment(0, 0) = <<>> /\ Upto(0) = {}
      BY EmptySegment DEF Upto
    <3>3. 0 + 0 <= NumChunks /\ NumChunks - (0 + 0) = NumChunks /\ 0 + 0 = 0
      BY StorageAssumption
    <3>4. PushIs(p, 0, 0)'
      BY <1>7, <3>1, <3>2, <3>3 DEF PushIs
    <3> QED
      BY <3>1, <3>4 DEF OnFile
  <2> QED
    BY <1>6, <2>1, <2>2, <2>3
<1>9. \A q \in Procs : OnFile(q)'
  <2>1. \E x : pc' = [pc EXCEPT ![p] = x]
    BY <1>6
  <2> QED
    BY <1>1, <1>8, <2>1, OneOnFile DEF FileIs, TypesInv, CommandTypes
<1>10. DoneOK'
  BY <1>1, <1>5, <1>6 DEF FileIs, DoneOK
<1> QED
  BY <1>1, <1>9, <1>10 DEF FileIs, PrefixOK

LEMMA KillFile ==
  ASSUME TypesInv, FileIs, NEW p \in Procs, Kill(p)
  PROVE  FileIs'
<1>1. /\ UNCHANGED <<blobs, at, rest, got, restored, acked>>
      /\ pc' = [pc EXCEPT ![p] = "killed"]
      /\ \/ pc[p] = "storing" /\ batch' = batch
         \/ batch' = [batch EXCEPT ![p] = <<>>]
  BY DEF Kill, store, history
<1>2. pc'[p] = "killed"
  BY <1>1 DEF TypesInv, CommandTypes
<1>3. CASE pc[p] = "storing" /\ batch' = batch
  <2>1. PICK n, m \in Nat : PushIs(p, n, m)
    BY <1>3 DEF FileIs, OnFile, Pushes, Sending
  <2>2. PushIs(p, n, m)'
    BY <1>1, <1>3, <2>1 DEF PushIs
  <2>3. OnFile(p)'
    BY <1>2, <2>2 DEF OnFile
  <2>4. \A q \in Procs : OnFile(q)'
    BY <1>1, <1>3, <2>3, OneOnFile DEF FileIs, TypesInv, CommandTypes
  <2> QED
    BY <1>1, <2>4 DEF FileIs, PrefixOK, DoneOK
<1>4. CASE batch' = [batch EXCEPT ![p] = <<>>]
  <2>1. OnFile(p)'
    BY <1>2, <1>4, EndedOnFile DEF TypesInv, CommandTypes
  <2>2. \A q \in Procs : OnFile(q)'
    BY <1>1, <1>4, <2>1, OneOnFile DEF FileIs, TypesInv, CommandTypes
  <2> QED
    BY <1>1, <2>2 DEF FileIs, PrefixOK, DoneOK
<1> QED
  BY <1>1, <1>3, <1>4

LEMMA BeginStoreFile ==
  ASSUME TypesInv, FileIs, NEW p \in Procs, NEW k \in Cores, BeginStore(p, k)
  PROVE  FileIs'
<1>1. /\ UNCHANGED <<blobs, at, rest, got, restored, acked>>
      /\ pc[p] \in {"storing", "killed"}
  BY DEF BeginStore, store
<1>2. CASE PermittedToStore(k, who[p])
  <2>1. UNCHANGED <<pc, batch>>
    BY <1>2 DEF BeginStore
  <2>2. \A q \in Procs : OnFile(q)'
    BY <1>1, <2>1, StillOnFile DEF FileIs
  <2> QED
    BY <1>1, <2>2 DEF FileIs, PrefixOK, DoneOK
<1>3. CASE ~PermittedToStore(k, who[p])
  <2>1. /\ pc' = [pc EXCEPT ![p] = IF pc[p] = "storing" THEN "refused"
                                   ELSE pc[p]]
        /\ batch' = [batch EXCEPT ![p] = <<>>]
    BY <1>3 DEF BeginStore
  <2>2. pc'[p] \in {"refused", "killed"} /\ batch'[p] = <<>>
    BY <1>1, <2>1 DEF TypesInv, CommandTypes
  <2>3. OnFile(p)'
    BY <2>2, EndedOnFile
  <2>4. \A q \in Procs : OnFile(q)'
    BY <1>1, <2>1, <2>3, OneOnFile DEF FileIs, TypesInv, CommandTypes
  <2> QED
    BY <1>1, <2>4 DEF FileIs, PrefixOK, DoneOK
<1> QED
  BY <1>2, <1>3

LEMMA StoreBlobFile ==
  ASSUME TypesInv, FileIs, \A c \in Cores : blobs[c] \subseteq blobs'[c],
         NEW k \in Cores, StoreBlob(k)
  PROVE  FileIs'
<1>1. UNCHANGED <<pc, at, rest, got, restored, acked>> /\ step[k] = "blobs"
  BY DEF StoreBlob, history
<1>0. PICK p \in Procs : p = busy[k]
  BY <1>1, AtWork
<1>2. /\ at[p] = k /\ pc[p] \in {"storing", "killed"}
      /\ batch[p] \in Seq(Blobs)
  BY <1>0, <1>1, AtWork
<1>3. CASE batch[p] # <<>>
  <2>1. /\ blobs' = [blobs EXCEPT ![k] = blobs[k] \cup {Head(batch[p])}]
        /\ batch' = [batch EXCEPT ![p] = Tail(batch[p])]
    BY <1>0, <1>3 DEF StoreBlob
  <2>2. /\ blobs'[k] = blobs[k] \cup {Head(batch[p])}
        /\ batch'[p] = Tail(batch[p])
    BY <1>2, <2>1 DEF TypesInv, CoreTypes, CommandTypes
  <2>3. PICK n, m \in Nat : PushIs(p, n, m)
    BY <1>2, <1>3 DEF FileIs, OnFile, Pushes, Sending
  <2>4. /\ n + m <= NumChunks /\ batch[p] = Segment(n, m)
        /\ rest[p] = Segment(n + m, NumChunks - (n + m))
        /\ got[p] = Segment(0, NumChunks)
        /\ Upto(n) \subseteq blobs[k]
    BY <1>2, <2>3 DEF PushIs
  <2>5. m # 0
    BY <1>3, <2>4, EmptySegment
  <2>6. Head(batch[p]) = Blob(n) /\ Tail(batch[p]) = Segment(n + 1, m - 1)
    BY <2>4, <2>5, SegmentTail
  <2>7. /\ n + 1 \in Nat /\ m - 1 \in Nat /\ (n + 1) + (m - 1) = n + m
        /\ n < NumChunks /\ NumChunks \in Nat
    BY <2>4, <2>5, StorageAssumption
  <2>8. PICK l \in 0 .. NumChunks : blobs[k] = Upto(l)
    BY DEF FileIs, PrefixOK
  <2>9. l \in Nat /\ l <= NumChunks /\ n <= l
    <3>1. l \in Nat /\ l <= NumChunks
      BY <2>7
    <3>2. Upto(n) \subseteq Upto(l) <=> n <= l
      BY <3>1, UptoOK
    <3> QED
      BY <2>4, <2>8, <3>1, <3>2
  <2>10. Upto(n + 1) = Upto(n) \cup {Blob(n)}
    BY UptoOK
  <2>11. \E j \in 0 .. NumChunks : blobs'[k] = Upto(j)
    <3>1. CASE n < l
      <4>1. Blob(n) \in Upto(l)
        BY <2>9, <3>1, UptoOK
      <4>2. blobs'[k] = Upto(l)
        BY <2>2, <2>6, <2>8, <4>1
      <4> QED
        BY <4>2
    <3>2. CASE n = l
      <4>1. blobs'[k] = Upto(n + 1)
        BY <2>2, <2>6, <2>8, <2>10, <3>2
      <4>2. n + 1 \in 0 .. NumChunks
        BY <2>7
      <4> QED
        BY <4>1, <4>2
    <3> QED
      BY <2>9, <3>1, <3>2
  <2>12. PrefixOK'
    BY <2>1, <2>11 DEF FileIs, PrefixOK, TypesInv, CoreTypes
  <2>13. Upto(n + 1) \subseteq blobs'[k]
    BY <2>2, <2>4, <2>6, <2>10
  <2>14. PushIs(p, n + 1, m - 1)'
    BY <1>1, <1>2, <2>2, <2>4, <2>6, <2>7, <2>13 DEF PushIs
  <2>15. OnFile(p)'
    BY <1>1, <1>2, <2>7, <2>14 DEF OnFile
  <2>16. \A q \in Procs : OnFile(q)'
    BY <1>1, <2>1, <2>15, OneOnFile DEF FileIs, TypesInv, CommandTypes
  <2> QED
    BY <1>1, <2>12, <2>16 DEF FileIs, DoneOK
<1>4. CASE batch[p] = <<>>
  <2>1. UNCHANGED <<blobs, batch>>
    BY <1>0, <1>4 DEF StoreBlob
  <2>2. \A q \in Procs : OnFile(q)'
    BY <1>1, <2>1, StillOnFile DEF FileIs
  <2> QED
    BY <1>1, <2>1, <2>2 DEF FileIs, PrefixOK, DoneOK
<1> QED
  BY <1>3, <1>4

LEMMA ReplyFile ==
  ASSUME TypesInv, FileIs, NEW k \in Cores, StoreManifest(k) \/ StoreAcl(k)
  PROVE  FileIs'
<1>1. /\ UNCHANGED <<blobs, at, rest, batch, got, restored, acked>>
      /\ step[k] \in {"manifest", "acl"}
  BY DEF StoreManifest, StoreAcl, history
<1>0. PICK p \in Procs : p = busy[k]
  BY <1>1, AtWork
<1>2. pc[p] \in {"storing", "killed"} /\ batch[p] = <<>>
  BY <1>0, <1>1, AtWork
<1>3. \/ pc' = pc
      \/ \E x \in {"acked", "refused"} :
           pc' = [pc EXCEPT ![p] = IF pc[p] = "storing" THEN x ELSE pc[p]]
  BY <1>0 DEF StoreManifest, StoreAcl
<1>4. /\ pc'[p] \in {"storing", "killed", "acked", "refused"}
      /\ Pushes(p)' => Pushes(p)
  BY <1>1, <1>2, <1>3 DEF Pushes, Sending, TypesInv, CommandTypes
<1>5. OnFile(p)'
  <2>1. ASSUME Pushes(p)' PROVE \E n, m \in Nat : PushIs(p, n, m)'
    <3>1. PICK n, m \in Nat : PushIs(p, n, m)
      BY <1>4, <2>1 DEF FileIs, OnFile
    <3>2. PushIs(p, n, m)'
      BY <1>1, <3>1 DEF PushIs
    <3> QED
      BY <3>2
  <2> QED
    BY <1>4, <2>1 DEF OnFile
<1>6. \A q \in Procs : OnFile(q)'
  BY <1>1, <1>3, <1>5, OneOnFile DEF FileIs, TypesInv, CommandTypes
<1> QED
  BY <1>1, <1>6 DEF FileIs, PrefixOK, DoneOK

LEMMA FetchFile ==
  ASSUME TypesInv, FileIs, NEW p \in Procs, NEW k \in Cores, Fetch(p, k)
  PROVE  FileIs'
<1>1. /\ UNCHANGED <<blobs, at, rest, got, restored, acked>>
      /\ pc[p] = "fetching" /\ at[p] = k
  BY DEF Fetch, store, history
<1>2. CASE PermittedToFetch(k, who[p])
  <2>1. PICK place \in DirOrders :
          batch' = [batch EXCEPT ![p] =
                      PageFrom(SortedDir(blobs[k], place), Len(got[p]))]
    BY <1>2 DEF Fetch
  <2>2. pc' = [pc EXCEPT ![p] = "paged"]
    BY <1>2 DEF Fetch
  <2>3. /\ pc'[p] = "paged"
        /\ batch'[p] = PageFrom(SortedDir(blobs[k], place), Len(got[p]))
    BY <2>1, <2>2 DEF TypesInv, CommandTypes
  <2>4. PICK n \in Nat, m \in Nat : PullIs(p, n, m)
    BY <1>1 DEF FileIs, OnFile
  <2>5. PICK l \in 0 .. NumChunks : blobs[k] = Upto(l)
    BY DEF FileIs, PrefixOK
  <2>6. l \in Nat /\ n + m \in Nat /\ n + m <= l /\ n <= l /\ l - n \in Nat
    <3>1. l \in Nat /\ n + m \in Nat
      BY StorageAssumption
    <3>2. n + m <= l
      BY <1>1, <2>4, <2>5, <3>1, UptoOK DEF PullIs
    <3> QED
      BY <3>1, <3>2
  <2>7. got[p] = Segment(0, n) /\ Len(got[p]) = n
    BY <2>4, SegmentOK DEF PullIs
  <2>8. SortedDir(blobs[k], place) = Segment(0, l)
    <3>1. blobs[k] \subseteq Blobs
      BY DEF TypesInv, CoreTypes
    <3> QED
      BY <2>5, <2>6, <3>1, SortedDirOK
  <2>9. After(Segment(0, l), n) = Segment(n, l - n)
    <3>1. n \in 0 .. l /\ 0 + n = n
      BY <2>6
    <3> QED
      BY <2>6, <3>1, SegmentSplit
  <2>10. PICK j \in 0 .. l - n : Page(Segment(n, l - n)) = Segment(n, j)
    BY <2>6, SegmentPage
  <2>11. batch'[p] = Segment(n, j)
    BY <2>3, <2>7, <2>8, <2>9, <2>10 DEF PageFrom
  <2>12. j \in Nat /\ n + j \in Nat /\ n + j <= l
    BY <2>6
  <2>13. Upto(n + j) \subseteq blobs[k]
    BY <2>5, <2>6, <2>12, UptoOK
  <2>14. PullIs(p, n, j)'
    BY <1>1, <2>7, <2>11, <2>13 DEF PullIs
  <2>15. OnFile(p)'
    BY <2>3, <2>12, <2>14 DEF OnFile, Pushes, Sending
  <2>16. \A q \in Procs : OnFile(q)'
    BY <1>1, <2>1, <2>2, <2>15, OneOnFile DEF FileIs, TypesInv, CommandTypes
  <2> QED
    BY <1>1, <2>16 DEF FileIs, PrefixOK, DoneOK
<1>3. CASE ~PermittedToFetch(k, who[p])
  <2>1. pc' = [pc EXCEPT ![p] = "failed"] /\ batch' = batch
    BY <1>3 DEF Fetch
  <2>2. OnFile(p)'
    BY <2>1, EndedOnFile DEF TypesInv, CommandTypes
  <2>3. \A q \in Procs : OnFile(q)'
    BY <1>1, <2>1, <2>2, OneOnFile DEF FileIs, TypesInv, CommandTypes
  <2> QED
    BY <1>1, <2>3 DEF FileIs, PrefixOK, DoneOK
<1> QED
  BY <1>2, <1>3

LEMMA CrashFile ==
  ASSUME TypesInv, FileIs, NEW k \in Cores, Crash(k)
  PROVE  FileIs'
<1> DEFINE lost == {p \in Procs : at[p] = k /\ pc[p] \in
                                     {"storing", "fetching", "killed"}}
<1>1. /\ UNCHANGED <<blobs, at, rest, got, restored, acked>>
      /\ pc' = [p \in Procs |-> IF p \in lost THEN "killed" ELSE pc[p]]
      /\ batch' = [p \in Procs |-> IF p \in lost THEN <<>> ELSE batch[p]]
  BY DEF Crash, history
<1> HIDE DEF lost
<1>2. ASSUME NEW q \in Procs, q \in lost PROVE OnFile(q)'
  <2>1. pc'[q] = "killed" /\ batch'[q] = <<>>
    BY <1>1, <1>2
  <2> QED
    BY <2>1, EndedOnFile
<1>3. ASSUME NEW q \in Procs, q \notin lost PROVE OnFile(q)'
  BY <1>1, <1>3, StillOnFile DEF FileIs
<1> QED
  BY <1>1, <1>2, <1>3 DEF FileIs, PrefixOK, DoneOK

LEMMA NextFile ==
  ASSUME TypesInv, UnderWayOK, FileInv, [StorageNext]_vars
  PROVE  FileInv'
<1>1. \A k \in Cores : blobs[k] \subseteq blobs'[k]
  BY BlobsGrow
<1>2. encryptions \in Nat
  BY DEF TypesInv, BoundTypes
<1>3. ASSUME NEW p \in Procs, NEW k \in Cores, StartPush(p, k) PROVE FileInv'
  <2>1. encryptions' = encryptions + 1
    BY <1>3 DEF StartPush
  <2>2. encryptions' <= 1 => encryptions = 0
    BY <1>2, <2>1
  <2> QED
    BY <1>3, <2>2, StartPushFile DEF FileInv
<1>4. ASSUME encryptions' = encryptions, FileIs => FileIs' PROVE FileInv'
  BY <1>4 DEF FileInv
<1>5. ASSUME NEW p \in Procs, NEW k \in Cores, NEW i \in Ids,
             NEW d \in Cores \cup {NoCore}, StartPull(p, i, k, d)
      PROVE  FileInv'
  BY <1>4, <1>5, StartPullFile DEF StartPull
<1>6. ASSUME NEW p \in Procs, ProcStep(p) \/ Kill(p) PROVE FileInv'
  <2>1. encryptions' = encryptions
    BY <1>6 DEF ProcStep, SendBatch, TakeAck, TakePage, Kill, bounds
  <2> QED
    BY <1>4, <1>6, <2>1, SendBatchFile, TakeAckFile, TakePageFile, KillFile
       DEF ProcStep
<1>7. ASSUME NEW k \in Cores, CoreStep(k) PROVE FileInv'
  <2>1. encryptions' = encryptions
    BY <1>7 DEF CoreStep, BeginStore, Fetch, StoreBlob, StoreManifest, StoreAcl,
                bounds
  <2> QED
    BY <1>1, <1>4, <1>7, <2>1, BeginStoreFile, FetchFile, StoreBlobFile,
       ReplyFile DEF CoreStep
<1>8. ASSUME NEW k \in Cores, Crash(k) PROVE FileInv'
  BY <1>4, <1>8, CrashFile DEF Crash
<1>9. ASSUME UNCHANGED vars \/ \E k \in Cores, i \in Ids : Revoke(k, i)
      PROVE  FileInv'
  <2>1. UNCHANGED <<blobs, pc, at, rest, batch, got, restored, acked, encryptions>>
    BY <1>9 DEF vars, store, command, history, bounds, Revoke
  <2>2. FileIs => \A q \in Procs : OnFile(q)'
    BY <1>1, <2>1, StillOnFile DEF FileIs
  <2>3. FileIs => FileIs'
    BY <2>1, <2>2 DEF FileIs, PrefixOK, DoneOK
  <2> QED
    BY <1>4, <2>1, <2>3
<1> QED
  BY <1>3, <1>5, <1>6, <1>7, <1>8, <1>9 DEF StorageNext

LEMMA FileExact == TypesInv /\ FileInv => PullExact
<1> SUFFICES ASSUME FileIs, NEW r \in restored PROVE IsFile(r[3])
  BY DEF FileInv, PullExact
<1>1. r[3] = Segment(0, NumChunks)
  BY DEF FileIs, DoneOK
<1>2. \A j \in 1 .. NumChunks : 0 + j - 1 = j - 1
  BY StorageAssumption
<1> QED
  BY <1>1, <1>2 DEF IsFile, Segment, Blob

\* The inductive invariant behind both: what is under way, and on the file.
LEMMA StorageFileInvariance ==
  StorageSpec => [](StorageInv /\ TypesInv /\ UnderWayOK /\ AckedStaysStored
                      /\ FileInv)
<1>1. StorageInit => TypesInv /\ UnderWayOK /\ AckedStaysStored /\ FileInv
  BY InitTypes, InitUnderWay, InitFile
<1>2. StorageInv /\ TypesInv /\ UnderWayOK /\ AckedStaysStored /\ FileInv
        /\ [StorageNext]_vars
      => TypesInv' /\ UnderWayOK' /\ AckedStaysStored' /\ FileInv'
  BY NextTypes, NextUnderWay, NextFile
<1> QED
  BY <1>1, <1>2, StorageInvariance, PTL DEF StorageSpec

\* What pull_chunks and reconstruct accept of a file encrypted once is the file,
\* whatever batches, pages, crashes, kills and replications came before
\* (app/storage.rs fetch_chunks, push_chunks, pull_chunks).
THEOREM PullsExact == StorageSpec => []PullExact
<1>1. TypesInv /\ FileInv => PullExact
  BY FileExact
<1> QED
  BY <1>1, StorageFileInvariance, PTL

(***************************************************************************)
(* A promised pull                                                         *)
(***************************************************************************)
\* Only the owner of the file stores it: who replicates has read it.
OwnerOK ==
  /\ \A k \in Cores : pushed[k] \subseteq {Owner}
  /\ \A p \in Procs : Pushes(p) => who[p] = Owner

LEMMA InitOwner == StorageInit => OwnerOK
BY DEF StorageInit, OwnerOK

LEMMA QuietOwner ==
  ASSUME OwnerOK, UNCHANGED <<who, pushed>>,
         \A q \in Procs : Pushes(q)' => Pushes(q)
  PROVE  OwnerOK'
BY DEF OwnerOK

LEMMA NextOwner ==
  ASSUME StorageInv, TypesInv, OwnerOK, [StorageNext]_vars
  PROVE  OwnerOK'
<1>1. ASSUME NEW p \in Procs, NEW k \in Cores, StartPush(p, k) PROVE OwnerOK'
  <2>1. /\ UNCHANGED <<pushed, batch>> /\ pc' = [pc EXCEPT ![p] = "sending"]
        /\ who' = [who EXCEPT ![p] = Owner]
    BY <1>1 DEF StartPush, Begin, history
  <2> QED
    BY <2>1 DEF OwnerOK, Pushes, Sending, TypesInv, CommandTypes
<1>2. ASSUME NEW p \in Procs, NEW k \in Cores, NEW i \in Ids,
             NEW d \in Cores \cup {NoCore}, StartPull(p, i, k, d)
      PROVE  OwnerOK'
  <2>1. /\ UNCHANGED <<pushed, batch>> /\ pc' = [pc EXCEPT ![p] = "fetching"]
        /\ who' = [who EXCEPT ![p] = i]
    BY <1>2 DEF StartPull, Begin, history
  <2> QED
    BY <2>1 DEF OwnerOK, Pushes, Sending, TypesInv, CommandTypes
<1>3. ASSUME NEW p \in Procs, SendBatch(p) \/ TakeAck(p) PROVE OwnerOK'
  <2>1. /\ UNCHANGED <<who, pushed>> /\ pc[p] \in {"sending", "acked", "refused"}
        /\ \/ pc[p] \in {"sending", "acked"}
              /\ \E x : pc' = [pc EXCEPT ![p] = x]
           \/ pc' = [pc EXCEPT ![p] = "failed"]
        /\ batch' = batch \/ \E s : batch' = [batch EXCEPT ![p] = s]
    BY <1>3 DEF SendBatch, TakeAck, job, history
  <2>2. \A q \in Procs : Pushes(q)' => Pushes(q)
    BY <2>1 DEF Pushes, Sending, TypesInv, CommandTypes
  <2> QED
    BY <2>1, <2>2, QuietOwner
<1>4. ASSUME NEW p \in Procs, TakePage(p) PROVE OwnerOK'
  <2>1. /\ UNCHANGED <<who, pushed>> /\ pc[p] = "paged"
        /\ \E x : pc' = [pc EXCEPT ![p] = x]
        /\ batch' = [batch EXCEPT ![p] = <<>>]
    BY <1>4 DEF TakePage, job
  <2>2. at[p] \in Cores
    BY <2>1 DEF TypesInv, CommandTypes
  <2>3. who[p] = Owner
    BY <2>1, <2>2 DEF StorageInv, PageOK, OwnerOK
  <2> QED
    BY <2>1, <2>3 DEF OwnerOK, Pushes, Sending, TypesInv, CommandTypes
<1>5. ASSUME NEW p \in Procs, Kill(p) PROVE OwnerOK'
  <2>1. /\ UNCHANGED <<who, pushed>> /\ pc' = [pc EXCEPT ![p] = "killed"]
        /\ \/ pc[p] = "storing" /\ batch' = batch
           \/ batch' = [batch EXCEPT ![p] = <<>>]
    BY <1>5 DEF Kill, job, history
  <2>2. \A q \in Procs : Pushes(q)' => Pushes(q)
    BY <2>1 DEF Pushes, Sending, TypesInv, CommandTypes
  <2> QED
    BY <2>1, <2>2, QuietOwner
<1>6. ASSUME NEW p \in Procs, NEW k \in Cores, BeginStore(p, k) PROVE OwnerOK'
  <2>1. /\ UNCHANGED who /\ pc[p] \in {"storing", "killed"} /\ batch[p] # <<>>
    BY <1>6 DEF BeginStore, job
  <2>2. who[p] = Owner
    BY <2>1 DEF OwnerOK, Pushes, Sending
  <2>3. CASE PermittedToStore(k, who[p])
    <3>1. /\ pushed' = [pushed EXCEPT ![k] = @ \cup {who[p]}]
          /\ UNCHANGED <<pc, batch>>
      BY <1>6, <2>3 DEF BeginStore
    <3> QED
      BY <2>1, <2>2, <3>1 DEF OwnerOK, Pushes, Sending, TypesInv, CoreTypes
  <2>4. CASE ~PermittedToStore(k, who[p])
    <3>1. /\ UNCHANGED pushed /\ batch' = [batch EXCEPT ![p] = <<>>]
          /\ pc' = [pc EXCEPT ![p] = IF pc[p] = "storing" THEN "refused"
                                     ELSE pc[p]]
      BY <1>6, <2>4 DEF BeginStore
    <3>2. \A q \in Procs : Pushes(q)' => Pushes(q)
      BY <2>1, <3>1 DEF Pushes, Sending, TypesInv, CommandTypes
    <3> QED
      BY <2>1, <3>1, <3>2, QuietOwner
  <2> QED
    BY <2>3, <2>4
<1>7. ASSUME NEW p \in Procs, NEW k \in Cores, Fetch(p, k) PROVE OwnerOK'
  <2>1. /\ UNCHANGED <<who, pushed>>
        /\ \E x \in {"paged", "failed"} : pc' = [pc EXCEPT ![p] = x]
        /\ batch' = batch \/ \E s : batch' = [batch EXCEPT ![p] = s]
    BY <1>7 DEF Fetch, job, history
  <2>2. \A q \in Procs : Pushes(q)' => Pushes(q)
    BY <2>1 DEF Pushes, Sending, TypesInv, CommandTypes
  <2> QED
    BY <2>1, <2>2, QuietOwner
<1>8. ASSUME NEW k \in Cores, StoreBlob(k) PROVE OwnerOK'
  <2>1. /\ UNCHANGED <<who, pushed, pc>>
        /\ \/ batch' = batch
           \/ batch[busy[k]] # <<>> /\ \E s : batch' = [batch EXCEPT ![busy[k]] = s]
    BY <1>8 DEF StoreBlob, job, history
  <2>2. \A q \in Procs : Pushes(q)' => Pushes(q)
    BY <2>1 DEF Pushes, Sending, TypesInv, CommandTypes
  <2> QED
    BY <2>1, <2>2, QuietOwner
<1>9. ASSUME NEW k \in Cores, StoreManifest(k) \/ StoreAcl(k) PROVE OwnerOK'
  <2>1. /\ UNCHANGED <<who, pushed, batch>>
        /\ \/ pc' = pc
           \/ \E x \in {"acked", "refused"} :
                pc' = [pc EXCEPT ![busy[k]] =
                         IF pc[busy[k]] = "storing" THEN x ELSE pc[busy[k]]]
    BY <1>9 DEF StoreManifest, StoreAcl, job, history
  <2>2. \A q \in Procs : Pushes(q)' => Pushes(q)
    BY <2>1 DEF Pushes, Sending, TypesInv, CommandTypes
  <2> QED
    BY <2>1, <2>2, QuietOwner
<1>10. ASSUME NEW k \in Cores, Crash(k) PROVE OwnerOK'
  <2>1. /\ UNCHANGED <<who, pushed>>
        /\ \A q \in Procs : \/ pc'[q] = pc[q] /\ batch'[q] = batch[q]
                            \/ pc'[q] = "killed" /\ batch'[q] = <<>>
    BY <1>10 DEF Crash, job, history
  <2>2. \A q \in Procs : Pushes(q)' => Pushes(q)
    BY <2>1 DEF Pushes, Sending
  <2> QED
    BY <2>1, <2>2, QuietOwner
<1>11. ASSUME UNCHANGED vars \/ \E k \in Cores, i \in Ids : Revoke(k, i)
       PROVE  OwnerOK'
  <2>1. UNCHANGED <<who, pushed, pc, batch>>
    BY <1>11 DEF vars, command, job, history, Revoke
  <2> QED
    BY <2>1, QuietOwner DEF Pushes, Sending
<1> QED
  BY <1>1, <1>2, <1>3, <1>4, <1>5, <1>6, <1>7, <1>8, <1>9, <1>10, <1>11
     DEF StorageNext, ProcStep, CoreStep

\* No crash and no revocation: a core's access list is whole, its manifest
\* written with it, and no push is refused.
Calm == crashes = 0 /\ revocations = 0

CalmCore(k) ==
  /\ revoked[k] = {} /\ acl[k] # Torn
  /\ manifest[k] = "torn" => step[k] = "manifest"
  /\ step[k] = "acl" => manifest[k] = "full"
  /\ Readers(k) # {} => manifest[k] # "none"

CalmProc(p) ==
  /\ pc[p] # "refused"
  /\ pc[p] = "acked" => Owner \in Readers(at[p])
  /\ pc[p] = "sending" => rest[p] # <<>> \/ Owner \in Readers(at[p])

CalmOK ==
  /\ \A k \in Cores : CalmCore(k)
  /\ \A p \in Procs : CalmProc(p)
  /\ \A a \in acked : Owner \in Readers(a[1])

CalmInv == Calm => CalmOK

LEMMA InitCalm == StorageInit => CalmInv
BY StorageAssumption
   DEF StorageInit, CalmInv, CalmOK, CalmCore, CalmProc, Readers

\* A step of p that leaves the cores alone.
LEMMA ClientCalm ==
  ASSUME TypesInv, CalmOK, UNCHANGED <<store, step>>,
         NEW p \in Procs, CalmProc(p)',
         \A q \in Procs : q # p =>
           pc'[q] = pc[q] /\ at'[q] = at[q] /\ rest'[q] = rest[q],
         \A a \in acked' : Owner \in Readers(a[1])
  PROVE  CalmOK'
<1>1. \A k : Readers(k)' = Readers(k)
  BY DEF Readers, store
<1>2. \A q \in Procs : CalmProc(q)'
  BY <1>1 DEF CalmOK, CalmProc
<1>3. \A k \in Cores : CalmCore(k)'
  BY <1>1 DEF CalmOK, CalmCore, store
<1> QED
  BY <1>1, <1>2, <1>3 DEF CalmOK

\* A step of core k, which takes nobody off its access list.
LEMMA CoreCalm ==
  ASSUME TypesInv, CalmOK, NEW k \in Cores, CalmCore(k)',
         \A c \in Cores : c # k =>
           /\ revoked'[c] = revoked[c] /\ acl'[c] = acl[c]
           /\ manifest'[c] = manifest[c] /\ step'[c] = step[c],
         Readers(k) \subseteq Readers(k)',
         \A q \in Procs : CalmProc(q)' \/ pc'[q] = pc[q],
         UNCHANGED <<at, rest, acked>>
  PROVE  CalmOK'
<1>1. \A c \in Cores : Readers(c) \subseteq Readers(c)'
  BY DEF Readers
<1>2. ASSUME NEW q \in Procs, pc'[q] = pc[q] PROVE CalmProc(q)'
  <2>1. pc[q] # "idle" => at[q] \in Cores
    BY DEF TypesInv, CommandTypes
  <2>2. CalmProc(q)
    BY DEF CalmOK
  <2> QED
    BY <1>1, <1>2, <2>1, <2>2 DEF CalmProc
<1>3. \A c \in Cores : CalmCore(c)'
  BY DEF CalmOK, CalmCore, Readers
<1>4. \A a \in acked : a[1] \in Cores
  BY DEF TypesInv, CoreTypes
<1>5. \A a \in acked' : Owner \in Readers(a[1])'
  BY <1>1, <1>4 DEF CalmOK
<1> QED
  BY <1>2, <1>3, <1>5 DEF CalmOK

LEMMA StartCalm ==
  ASSUME TypesInv, CalmOK, NEW p \in Procs, NEW k \in Cores,
         \/ StartPush(p, k)
         \/ \E i \in Ids, d \in Cores \cup {NoCore} : StartPull(p, i, k, d)
  PROVE  CalmOK'
<1>1. /\ UNCHANGED <<store, step, acked>>
      /\ \E x : pc' = [pc EXCEPT ![p] = x]
      /\ at' = [at EXCEPT ![p] = k]
      /\ \E x : rest' = [rest EXCEPT ![p] = x]
  BY DEF StartPush, StartPull, Begin, task, history
<1>2. CASE StartPush(p, k)
  <2> DEFINE s == [j \in 1 .. NumChunks |->
                     [index |-> j - 1, nonce |-> encryptions + 1]]
  <2>1. pc' = [pc EXCEPT ![p] = "sending"] /\ rest' = [rest EXCEPT ![p] = s]
    BY <1>2 DEF StartPush
  <2>2. s # <<>>
    <3>1. 1 \in DOMAIN s
      BY StorageAssumption
    <3>2. 1 \notin DOMAIN <<>>
      OBVIOUS
    <3> QED
      BY <3>1, <3>2
  <2> HIDE DEF s
  <2>3. CalmProc(p)'
    BY <2>1, <2>2 DEF CalmProc, TypesInv, CommandTypes
  <2> QED
    BY <1>1, <2>3, ClientCalm DEF TypesInv, CommandTypes, CalmOK
<1>3. CASE \E i \in Ids, d \in Cores \cup {NoCore} : StartPull(p, i, k, d)
  <2>1. pc' = [pc EXCEPT ![p] = "fetching"]
    BY <1>3 DEF StartPull
  <2>2. CalmProc(p)'
    BY <2>1 DEF CalmProc, TypesInv, CommandTypes
  <2> QED
    BY <1>1, <2>2, ClientCalm DEF TypesInv, CommandTypes, CalmOK
<1> QED
  BY <1>2, <1>3

LEMMA SendBatchCalm ==
  ASSUME TypesInv, CalmOK, NEW p \in Procs, SendBatch(p)
  PROVE  CalmOK'
<1>1. /\ UNCHANGED <<store, step, at>> /\ pc[p] = "sending"
      /\ \E x \in {"storing", "done"} : pc' = [pc EXCEPT ![p] = x]
      /\ rest' = rest \/ \E s : rest' = [rest EXCEPT ![p] = s]
  BY DEF SendBatch, task
<1>2. CalmProc(p)'
  BY <1>1 DEF CalmProc, TypesInv, CommandTypes
<1>3. \A a \in acked' : Owner \in Readers(a[1])
  <2>1. \/ acked' = acked
        \/ rest[p] = <<>> /\ acked' = acked \cup {<<at[p], Elems(got[p])>>}
    BY DEF SendBatch
  <2>2. rest[p] = <<>> => Owner \in Readers(at[p])
    BY <1>1 DEF CalmOK, CalmProc
  <2> QED
    BY <2>1, <2>2 DEF CalmOK
<1> QED
  BY <1>1, <1>2, <1>3, ClientCalm DEF TypesInv, CommandTypes

LEMMA TakeAckCalm ==
  ASSUME TypesInv, CalmOK, NEW p \in Procs, TakeAck(p)
  PROVE  CalmOK'
<1>1. /\ UNCHANGED <<store, step, at, rest, acked>>
      /\ pc[p] \in {"acked", "refused"}
      /\ pc' = [pc EXCEPT ![p] = IF pc[p] = "acked" THEN "sending" ELSE "failed"]
  BY DEF TakeAck, task, history
<1>2. pc[p] = "acked" /\ Owner \in Readers(at[p])
  BY <1>1 DEF CalmOK, CalmProc
<1>3. CalmProc(p)'
  BY <1>1, <1>2 DEF CalmProc, Readers, store, TypesInv, CommandTypes
<1> QED
  BY <1>1, <1>3, ClientCalm DEF TypesInv, CommandTypes, CalmOK

LEMMA TakePageCalm ==
  ASSUME TypesInv, CalmOK, NEW p \in Procs, TakePage(p)
  PROVE  CalmOK'
<1>1. /\ UNCHANGED <<store, step, acked>>
      /\ got' = [got EXCEPT ![p] = got[p] \o batch[p]]
      /\ at' = at \/ at' = [at EXCEPT ![p] = dest[p]]
      /\ rest' = rest \/ rest' = [rest EXCEPT ![p] = Sort(got'[p])]
      /\ \E x : pc' = [pc EXCEPT ![p] = x]
  BY DEF TakePage, task
<1>2. \/ /\ pc' = [pc EXCEPT ![p] = "sending"] /\ Whole(got'[p])
         /\ rest' = [rest EXCEPT ![p] = Sort(got'[p])]
      \/ \E x \in {"fetching", "failed", "done"} : pc' = [pc EXCEPT ![p] = x]
  BY DEF TakePage
<1>3. Whole(got'[p]) => Sort(got'[p]) # <<>>
  <2>1. got[p] \o batch[p] \in Seq(Blobs)
    <3>1. got[p] \in Seq(Blobs) /\ batch[p] \in Seq(Blobs)
      BY DEF TypesInv, CommandTypes
    <3> QED
      BY <3>1
  <2>2. got'[p] \in Seq(Blobs)
    BY <1>1, <2>1 DEF TypesInv, CommandTypes
  <2>3. Len(Sort(got'[p])) = Len(got'[p])
    BY <2>2, PageTypes
  <2>4. Len(<<>>) = 0
    OBVIOUS
  <2> QED
    BY <2>3, <2>4, StorageAssumption DEF Whole
<1>4. CalmProc(p)'
  BY <1>2, <1>3 DEF CalmProc, TypesInv, CommandTypes
<1> QED
  BY <1>1, <1>4, ClientCalm DEF TypesInv, CommandTypes, CalmOK

\* A command that is gone, or reads.
LEMMA QuietCalm ==
  ASSUME TypesInv, CalmOK, UNCHANGED <<store, step, at, rest, acked>>,
         NEW p \in Procs, NEW x \in {"killed", "paged", "failed"},
         pc' = [pc EXCEPT ![p] = x]
  PROVE  CalmOK'
<1>1. CalmProc(p)'
  BY DEF CalmProc, TypesInv, CommandTypes
<1> QED
  BY <1>1, ClientCalm DEF TypesInv, CommandTypes, CalmOK

LEMMA BeginStoreCalm ==
  ASSUME TypesInv, CalmOK, NEW p \in Procs, NEW k \in Cores, BeginStore(p, k)
  PROVE  CalmOK'
<1>1. PermittedToStore(k, who[p])
  BY DEF PermittedToStore, CalmOK, CalmCore
<1>2. /\ UNCHANGED <<store, pc, at, rest, acked>>
      /\ step' = [step EXCEPT ![k] = "blobs"] /\ step[k] = "idle"
  BY <1>1 DEF BeginStore, TypesInv, CoreTypes
<1>3. CalmCore(k)'
  BY <1>2 DEF CalmOK, CalmCore, Readers, store, TypesInv, CoreTypes
<1> QED
  BY <1>2, <1>3, CoreCalm DEF TypesInv, CoreTypes, Readers, store

LEMMA StoreBlobCalm ==
  ASSUME TypesInv, CalmOK, NEW k \in Cores, StoreBlob(k)
  PROVE  CalmOK'
<1>1. /\ UNCHANGED <<acl, revoked, pc, at, rest, acked>> /\ step[k] = "blobs"
      /\ \/ UNCHANGED <<manifest, step>>
         \/ /\ manifest' = [manifest EXCEPT ![k] = "torn"]
            /\ step' = [step EXCEPT ![k] = "manifest"]
  BY DEF StoreBlob, history
<1>2. CalmCore(k)'
  BY <1>1 DEF CalmOK, CalmCore, Readers, TypesInv, CoreTypes
<1> QED
  BY <1>1, <1>2, CoreCalm DEF TypesInv, CoreTypes, Readers

LEMMA StoreManifestCalm ==
  ASSUME TypesInv, CalmOK, NEW k \in Cores, StoreManifest(k)
  PROVE  CalmOK'
<1>1. acl[k] # Torn
  BY DEF CalmOK, CalmCore
<1>2. /\ UNCHANGED <<acl, revoked, pc, at, rest, acked>>
      /\ manifest' = [manifest EXCEPT ![k] = "full"]
      /\ step' = [step EXCEPT ![k] = "acl"]
  BY <1>1 DEF StoreManifest, history
<1>3. CalmCore(k)'
  BY <1>2 DEF CalmOK, CalmCore, Readers, TypesInv, CoreTypes
<1> QED
  BY <1>2, <1>3, CoreCalm DEF TypesInv, CoreTypes, Readers

LEMMA StoreAclCalm ==
  ASSUME StorageInv, TypesInv, OwnerOK, CalmOK, NEW k \in Cores, StoreAcl(k)
  PROVE  CalmOK'
<1>1. /\ UNCHANGED <<manifest, revoked, at, rest, acked>>
      /\ acl' = [acl EXCEPT ![k] = Readers(k) \cup {who[busy[k]]}]
      /\ step[k] = "acl" /\ step' = [step EXCEPT ![k] = "idle"]
      /\ pc' = [pc EXCEPT ![busy[k]] =
                  IF pc[busy[k]] = "storing" THEN "acked" ELSE pc[busy[k]]]
  BY DEF StoreAcl, history
<1>2. PICK p \in Procs : p = busy[k]
  BY <1>1, AtWork
<1>3. pc[p] \in {"storing", "killed"} /\ at[p] = k
  BY <1>1, <1>2, AtWork
<1>4. who[p] = Owner
  BY <1>2, StorageAssumption DEF StorageInv, BusyOK, OwnerOK
<1>5. Readers(k) \cup {Owner} \in SUBSET Ids
  BY StorageAssumption DEF Readers, CalmOK, CalmCore, TypesInv, CoreTypes
<1>6. acl'[k] = Readers(k) \cup {Owner}
  BY <1>1, <1>2, <1>4 DEF TypesInv, CoreTypes
<1>7. Readers(k)' = Readers(k) \cup {Owner} /\ acl'[k] # Torn
  BY <1>5, <1>6, StorageAssumption DEF Readers
<1>8. CalmCore(k)'
  BY <1>1, <1>7 DEF CalmOK, CalmCore, TypesInv, CoreTypes
<1>9. CalmProc(p)'
  BY <1>1, <1>2, <1>3, <1>7 DEF CalmProc, TypesInv, CommandTypes
<1>10. \A q \in Procs : CalmProc(q)' \/ pc'[q] = pc[q]
  BY <1>1, <1>2, <1>9 DEF TypesInv, CommandTypes
<1> QED
  BY <1>1, <1>7, <1>8, <1>10, CoreCalm DEF TypesInv, CoreTypes

LEMMA NextCalm ==
  ASSUME StorageInv, TypesInv, OwnerOK, CalmInv, [StorageNext]_vars
  PROVE  CalmInv'
<1>1. ASSUME UNCHANGED <<crashes, revocations>>, CalmOK => CalmOK' PROVE CalmInv'
  BY <1>1 DEF CalmInv, Calm
<1>2. ASSUME NEW p \in Procs, NEW k \in Cores,
             \/ StartPush(p, k)
             \/ \E i \in Ids, d \in Cores \cup {NoCore} : StartPull(p, i, k, d)
      PROVE  CalmInv'
  BY <1>1, <1>2, StartCalm DEF StartPush, StartPull
<1>3. ASSUME NEW p \in Procs, ProcStep(p) PROVE CalmInv'
  BY <1>1, <1>3, SendBatchCalm, TakeAckCalm, TakePageCalm
     DEF ProcStep, SendBatch, TakeAck, TakePage, bounds
<1>4. ASSUME NEW p \in Procs, Kill(p) PROVE CalmInv'
  BY <1>1, <1>4, QuietCalm DEF Kill, task, history, bounds
<1>5. ASSUME NEW p \in Procs, NEW k \in Cores, Fetch(p, k) PROVE CalmInv'
  BY <1>1, <1>5, QuietCalm DEF Fetch, task, history, bounds
<1>6. ASSUME NEW p \in Procs, NEW k \in Cores, BeginStore(p, k) PROVE CalmInv'
  BY <1>1, <1>6, BeginStoreCalm DEF BeginStore, bounds
<1>7. ASSUME NEW k \in Cores, StoreBlob(k) \/ StoreManifest(k) \/ StoreAcl(k)
      PROVE  CalmInv'
  BY <1>1, <1>7, StoreBlobCalm, StoreManifestCalm, StoreAclCalm
     DEF StoreBlob, StoreManifest, StoreAcl, bounds
<1>8. ASSUME NEW k \in Cores, Crash(k) \/ \E i \in Ids : Revoke(k, i)
      PROVE  CalmInv'
  <2>1. crashes \in Nat /\ revocations \in Nat
    BY DEF TypesInv, BoundTypes
  <2>2. crashes' = crashes + 1 \/ revocations' = revocations + 1
    BY <1>8 DEF Crash, Revoke
  <2>3. ~Calm'
    BY <2>1, <2>2 DEF Calm
  <2> QED
    BY <2>3 DEF CalmInv
<1>9. CASE UNCHANGED vars
  BY <1>9 DEF vars, store, task, command, job, history, bounds, CalmInv, Calm,
              CalmOK, CalmCore, CalmProc, Readers
<1> QED
  BY <1>2, <1>3, <1>4, <1>5, <1>6, <1>7, <1>8, <1>9
     DEF StorageNext, CoreStep

\* A promised pull finds the whole file, and fails for others than the owner.
Promise(p) ==
  promised[p] =>
    /\ pc[p] \in {"fetching", "paged"} => \E a \in acked : a[1] = at[p]
    /\ pc[p] = "paged" => known[p] /\ (batch[p] = <<>> => Len(got[p]) = NumChunks)
    /\ pc[p] = "failed" => who[p] # Owner

PromiseInv == Calm /\ encryptions <= 1 => \A p \in Procs : Promise(p)

LEMMA InitPromise == StorageInit => PromiseInv
BY DEF StorageInit, PromiseInv, Promise

\* A step of p alone.
LEMMA OnePromise ==
  ASSUME \A q \in Procs : Promise(q), acked \subseteq acked',
         NEW p \in Procs, Promise(p)',
         \A q \in Procs : q # p =>
           /\ pc'[q] = pc[q] /\ at'[q] = at[q] /\ who'[q] = who[q]
           /\ promised'[q] = promised[q] /\ known'[q] = known[q]
           /\ got'[q] = got[q] /\ batch'[q] = batch[q]
  PROVE  \A q \in Procs : Promise(q)'
BY DEF Promise

LEMMA StartPromise ==
  ASSUME TypesInv, \A q \in Procs : Promise(q), NEW p \in Procs, NEW k \in Cores,
         \/ StartPush(p, k)
         \/ \E i \in Ids, d \in Cores \cup {NoCore} : StartPull(p, i, k, d)
  PROVE  \A q \in Procs : Promise(q)'
<1>1. /\ UNCHANGED <<acked, batch>>
      /\ \E x \in {"sending", "fetching"} : pc' = [pc EXCEPT ![p] = x]
      /\ at' = [at EXCEPT ![p] = k]
      /\ \E i : who' = [who EXCEPT ![p] = i]
      /\ promised' = [promised EXCEPT ![p] = \E a \in acked : a[1] = k]
      /\ known' = [known EXCEPT ![p] = FALSE]
  BY DEF StartPush, StartPull, Begin, history
<1>2. \E s : got' = [got EXCEPT ![p] = s]
  BY DEF StartPush, StartPull
<1>3. /\ pc'[p] \in {"sending", "fetching"} /\ at'[p] = k
      /\ promised'[p] => \E a \in acked : a[1] = k
  BY <1>1 DEF TypesInv, CommandTypes
<1>4. Promise(p)'
  BY <1>1, <1>3 DEF Promise
<1> QED
  BY <1>1, <1>2, <1>4, OnePromise DEF TypesInv, CommandTypes

\* A step to a place where nothing is promised.
LEMMA FreePromise ==
  ASSUME TypesInv, \A q \in Procs : Promise(q), acked \subseteq acked',
         NEW p \in Procs, pc'[p] \notin {"fetching", "paged", "failed"},
         \A q \in Procs : q # p => pc'[q] = pc[q] /\ batch'[q] = batch[q],
         UNCHANGED <<at, who, promised, known, got>>
  PROVE  \A q \in Procs : Promise(q)'
<1>1. Promise(p)'
  BY DEF Promise
<1> QED
  BY <1>1, OnePromise

\* reconstruct accepts the file.
LEMMA FileReconstructs == Reconstructs(Segment(0, NumChunks))
<1> DEFINE s == Segment(0, NumChunks)
<1>1. Len(s) = NumChunks
  BY StorageAssumption, SegmentOK
<1>2. Sizes(s) = [j \in 1 .. NumChunks |-> ChunkSize[j - 1]]
  <2>1. DOMAIN s = 1 .. NumChunks /\ \A j \in 1 .. NumChunks : s[j].index = j - 1
    <3>1. \A j \in 1 .. NumChunks : 0 + j - 1 = j - 1
      BY StorageAssumption
    <3> QED
      BY <3>1 DEF Segment, Blob
  <2> HIDE DEF s
  <2> QED
    BY <2>1 DEF Sizes
<1> HIDE DEF s
<1>3. Reconstructs(s)
  BY <1>1, <1>2 DEF Reconstructs
<1> QED
  BY <1>3 DEF s

LEMMA TakePagePromise ==
  ASSUME TypesInv, FileIs, \A q \in Procs : Promise(q),
         NEW p \in Procs, TakePage(p)
  PROVE  \A q \in Procs : Promise(q)'
<1>1. /\ pc[p] = "paged"
      /\ UNCHANGED <<acked, who, promised, known>>
      /\ got' = [got EXCEPT ![p] = got[p] \o batch[p]]
      /\ batch' = [batch EXCEPT ![p] = <<>>]
      /\ at' = at \/ at' = [at EXCEPT ![p] = dest[p]]
      /\ \E x : pc' = [pc EXCEPT ![p] = x]
  BY DEF TakePage, job
<1>2. PICK n, m \in Nat : PullIs(p, n, m)
  BY <1>1 DEF FileIs, OnFile
<1>4. /\ got'[p] = Segment(0, n + m) /\ Len(got'[p]) = n + m
      /\ Len(got[p]) = n
  BY <1>1, <1>2, PageJoins
<1>5. n + m <= NumChunks
  <2>1. Upto(n + m) \subseteq blobs[at[p]] /\ at[p] \in Cores /\ n + m \in Nat
    BY <1>1, <1>2 DEF PullIs, TypesInv, CommandTypes
  <2> QED
    BY <2>1, WithinFile
<1>6. CASE ~promised[p]
  <2>1. Promise(p)'
    BY <1>1, <1>6 DEF Promise
  <2> QED
    BY <1>1, <2>1, OnePromise DEF TypesInv, CommandTypes
<1>7. CASE promised[p]
  <2>1. /\ known[p] /\ \E a \in acked : a[1] = at[p]
        /\ batch[p] = <<>> => n = NumChunks
    BY <1>1, <1>4, <1>7 DEF Promise
  <2>2. LastPage(known[p], got'[p], batch[p]) => n + m = NumChunks
    <3>1. batch[p] = <<>> => n = NumChunks
      BY <2>1
    <3>2. NumChunks \in Nat
      BY StorageAssumption
    <3> QED
      BY <1>4, <1>5, <3>1, <3>2 DEF LastPage
  <2>3. n + m = NumChunks => Whole(got'[p]) /\ Reconstructs(got'[p])
    BY <1>4, FileReconstructs DEF Whole
  <2>4. \/ pc' = [pc EXCEPT ![p] = "fetching"] /\ at' = at
        \/ \E x \in {"done", "sending"} : pc' = [pc EXCEPT ![p] = x]
    BY <2>1, <2>2, <2>3 DEF TakePage
  <2>5. Promise(p)'
    BY <1>1, <2>1, <2>4 DEF Promise, TypesInv, CommandTypes
  <2> QED
    BY <1>1, <2>5, OnePromise DEF TypesInv, CommandTypes
<1> QED
  BY <1>6, <1>7

LEMMA FetchPromise ==
  ASSUME TypesInv, AckedStaysStored, CalmOK, FileIs, \A q \in Procs : Promise(q),
         NEW p \in Procs, NEW k \in Cores, Fetch(p, k)
  PROVE  \A q \in Procs : Promise(q)'
<1>1. /\ UNCHANGED <<acked, at, who, promised, got>>
      /\ pc[p] = "fetching" /\ at[p] = k /\ busy[k] = NoProc
  BY DEF Fetch, job, history
<1>2. CASE PermittedToFetch(k, who[p])
  <2>1. PICK place \in DirOrders :
          batch' = [batch EXCEPT ![p] =
                      PageFrom(SortedDir(blobs[k], place), Len(got[p]))]
    BY <1>2 DEF Fetch
  <2>2. /\ pc' = [pc EXCEPT ![p] = "paged"]
        /\ known' = [known EXCEPT ![p] = known[p] \/ manifest[k] = "full"]
    BY <1>2 DEF Fetch
  <2>3. known'[p]
    <3>1. step[k] = "idle"
      BY <1>1 DEF TypesInv, CoreTypes
    <3>2. manifest[k] = "full"
      BY <1>2, <3>1 DEF PermittedToFetch, CalmOK, CalmCore, TypesInv, CoreTypes
    <3> QED
      BY <2>2, <3>2 DEF TypesInv, CommandTypes
  <2>4. PICK n \in Nat, m \in Nat : PullIs(p, n, m)
    BY <1>1 DEF FileIs, OnFile
  <2>5. got[p] = Segment(0, n) /\ Len(got[p]) = n /\ Upto(n + m) \subseteq blobs[k]
    BY <1>1, <2>4, SegmentOK DEF PullIs
  <2>6. ASSUME NEW a \in acked, a[1] = k, batch'[p] = <<>> PROVE n = NumChunks
    <3>1. PICK l \in 0 .. NumChunks : blobs[k] = Upto(l)
      BY DEF FileIs, PrefixOK
    <3>2. l \in Nat /\ NumChunks \in Nat /\ l <= NumChunks /\ n + m \in Nat
      BY StorageAssumption
    <3>3. Upto(NumChunks) \subseteq Upto(l)
      BY <2>6, <3>1 DEF FileIs, DoneOK, AckedStaysStored
    <3>4. l = NumChunks
      <4>1. NumChunks <= l
        BY <3>2, <3>3, UptoOK
      <4> QED
        BY <3>2, <4>1
    <3>5. n <= l /\ l - n \in Nat /\ n \in 0 .. l /\ 0 + n = n
      <4>1. n + m <= l
        BY <2>5, <3>1, <3>2, UptoOK
      <4> QED
        BY <3>2, <4>1
    <3>6. SortedDir(blobs[k], place) = Segment(0, l)
      <4>1. blobs[k] \subseteq Blobs
        BY DEF TypesInv, CoreTypes
      <4> QED
        BY <3>1, <3>2, <4>1, SortedDirOK
    <3>7. After(Segment(0, l), n) = Segment(n, l - n)
      BY <3>2, <3>5, SegmentSplit
    <3>8. PICK j \in 0 .. l - n : /\ Page(Segment(n, l - n)) = Segment(n, j)
                                  /\ l - n # 0 => j # 0
      BY <3>5, SegmentPage
    <3>9. batch'[p] = Segment(n, j)
      BY <2>1, <2>5, <3>6, <3>7, <3>8 DEF PageFrom, TypesInv, CommandTypes
    <3>10. j \in Nat
      BY <3>5
    <3>11. j = 0
      BY <2>6, <3>9, <3>10, EmptySegment
    <3> QED
      BY <3>2, <3>4, <3>5, <3>8, <3>11
  <2>7. Promise(p)'
    <3>1. pc'[p] = "paged"
      BY <2>2 DEF TypesInv, CommandTypes
    <3>2. promised[p] => \E a \in acked : a[1] = k
      BY <1>1 DEF Promise
    <3> QED
      BY <1>1, <2>3, <2>5, <2>6, <3>1, <3>2 DEF Promise
  <2> QED
    BY <1>1, <2>1, <2>2, <2>7, OnePromise DEF TypesInv, CommandTypes
<1>3. CASE ~PermittedToFetch(k, who[p])
  <2>1. pc' = [pc EXCEPT ![p] = "failed"] /\ UNCHANGED <<batch, known>>
    BY <1>3 DEF Fetch
  <2>2. promised[p] => who[p] # Owner
    <3> SUFFICES ASSUME promised[p] PROVE who[p] # Owner
      OBVIOUS
    <3>1. PICK a \in acked : a[1] = k
      BY <1>1 DEF Promise
    <3>2. Owner \in Readers(k)
      BY <3>1 DEF CalmOK
    <3> QED
      BY <1>3, <3>2 DEF PermittedToFetch, CalmOK, CalmCore
  <2>3. Promise(p)'
    BY <1>1, <2>1, <2>2 DEF Promise, TypesInv, CommandTypes
  <2> QED
    BY <1>1, <2>1, <2>3, OnePromise DEF TypesInv, CommandTypes
<1> QED
  BY <1>2, <1>3

\* A core at work moves no pull.
LEMMA ServedPromise ==
  ASSUME TypesInv, \A q \in Procs : Promise(q), NEW k \in Cores,
         StoreBlob(k) \/ StoreManifest(k) \/ StoreAcl(k)
  PROVE  \A q \in Procs : Promise(q)'
<1>1. UNCHANGED <<acked, at, who, promised, known, got>> /\ step[k] # "idle"
  BY DEF StoreBlob, StoreManifest, StoreAcl, job, history
<1>2. PICK p \in Procs : p = busy[k]
  BY <1>1, AtWork
<1>3. pc[p] \in {"storing", "killed"}
  BY <1>1, <1>2, AtWork
<1>4. /\ \/ pc' = pc
         \/ \E x \in {"acked", "refused"} :
              pc' = [pc EXCEPT ![p] = IF pc[p] = "storing" THEN x ELSE pc[p]]
      /\ batch' = batch \/ \E s : batch' = [batch EXCEPT ![p] = s]
  BY <1>2 DEF StoreBlob, StoreManifest, StoreAcl
<1>5. pc'[p] \notin {"fetching", "paged", "failed"}
  BY <1>3, <1>4 DEF TypesInv, CommandTypes
<1>6. \A q \in Procs : q # p => pc'[q] = pc[q] /\ batch'[q] = batch[q]
  BY <1>4 DEF TypesInv, CommandTypes
<1> QED
  BY <1>1, <1>5, <1>6, FreePromise

LEMMA NextPromise ==
  ASSUME TypesInv, AckedStaysStored, CalmInv, FileInv, PromiseInv,
         [StorageNext]_vars
  PROVE  PromiseInv'
<1> SUFFICES ASSUME Calm', encryptions' <= 1
             PROVE  \A q \in Procs : Promise(q)'
  BY DEF PromiseInv
<1>1. crashes \in Nat /\ revocations \in Nat /\ encryptions \in Nat
  BY DEF TypesInv, BoundTypes
<1>2. ASSUME UNCHANGED <<crashes, revocations>>,
             encryptions' \in {encryptions, encryptions + 1}
      PROVE  CalmOK /\ FileIs /\ \A q \in Procs : Promise(q)
  <2>1. Calm /\ encryptions <= 1
    BY <1>1, <1>2 DEF Calm
  <2> QED
    BY <2>1 DEF CalmInv, FileInv, PromiseInv
<1>3. ASSUME NEW p \in Procs, NEW k \in Cores,
             \/ StartPush(p, k)
             \/ \E i \in Ids, d \in Cores \cup {NoCore} : StartPull(p, i, k, d)
      PROVE  \A q \in Procs : Promise(q)'
  <2>1. /\ UNCHANGED <<crashes, revocations>>
        /\ encryptions' \in {encryptions, encryptions + 1}
    BY <1>3 DEF StartPush, StartPull
  <2> QED
    BY <1>2, <1>3, <2>1, StartPromise
<1>4. ASSUME NEW p \in Procs, ProcStep(p) \/ Kill(p)
      PROVE  \A q \in Procs : Promise(q)'
  <2>1. UNCHANGED <<crashes, revocations, encryptions>>
    BY <1>4 DEF ProcStep, SendBatch, TakeAck, TakePage, Kill, bounds
  <2>2. CalmOK /\ FileIs /\ \A q \in Procs : Promise(q)
    BY <1>2, <2>1
  <2>3. CASE TakePage(p)
    BY <2>2, <2>3, TakePagePromise
  <2>4. CASE SendBatch(p) \/ TakeAck(p) \/ Kill(p)
    <3>1. /\ UNCHANGED <<at, who, promised, known, got>> /\ acked \subseteq acked'
          /\ batch' = batch \/ \E s : batch' = [batch EXCEPT ![p] = s]
      BY <2>4 DEF SendBatch, TakeAck, Kill, job, history
    <3>2. pc[p] # "refused"
      BY <2>2 DEF CalmOK, CalmProc
    <3>3. \E x \in {"storing", "done", "sending", "killed"} :
            pc' = [pc EXCEPT ![p] = x]
      BY <2>4, <3>2 DEF SendBatch, TakeAck, Kill
    <3> QED
      BY <2>2, <3>1, <3>3, FreePromise DEF TypesInv, CommandTypes
  <2> QED
    BY <1>4, <2>3, <2>4 DEF ProcStep
<1>5. ASSUME NEW k \in Cores, CoreStep(k) PROVE \A q \in Procs : Promise(q)'
  <2>1. UNCHANGED <<crashes, revocations, encryptions>>
    BY <1>5 DEF CoreStep, BeginStore, Fetch, StoreBlob, StoreManifest, StoreAcl,
                bounds
  <2>2. CalmOK /\ FileIs /\ \A q \in Procs : Promise(q)
    BY <1>2, <2>1
  <2>3. ASSUME NEW p \in Procs, BeginStore(p, k)
        PROVE  \A q \in Procs : Promise(q)'
    <3>1. /\ UNCHANGED <<at, who, promised, known, got, acked>>
          /\ pc[p] \in {"storing", "killed"}
          /\ \/ UNCHANGED <<pc, batch>>
             \/ /\ pc' = [pc EXCEPT ![p] = IF pc[p] = "storing" THEN "refused"
                                           ELSE pc[p]]
                /\ batch' = [batch EXCEPT ![p] = <<>>]
      BY <2>3 DEF BeginStore, job
    <3>2. pc'[p] \notin {"fetching", "paged", "failed"}
      BY <3>1 DEF TypesInv, CommandTypes
    <3>3. \A q \in Procs : q # p => pc'[q] = pc[q] /\ batch'[q] = batch[q]
      BY <3>1 DEF TypesInv, CommandTypes
    <3> QED
      BY <2>2, <3>1, <3>2, <3>3, FreePromise
  <2>4. ASSUME NEW p \in Procs, Fetch(p, k) PROVE \A q \in Procs : Promise(q)'
    BY <2>2, <2>4, FetchPromise
  <2>5. CASE StoreBlob(k) \/ StoreManifest(k) \/ StoreAcl(k)
    BY <2>2, <2>5, ServedPromise
  <2> QED
    BY <1>5, <2>3, <2>4, <2>5 DEF CoreStep
<1>6. ASSUME NEW k \in Cores, Crash(k) \/ \E i \in Ids : Revoke(k, i)
      PROVE  FALSE
  <2>1. crashes' = crashes + 1 \/ revocations' = revocations + 1
    BY <1>6 DEF Crash, Revoke
  <2> QED
    BY <1>1, <2>1 DEF Calm
<1>7. CASE UNCHANGED vars
  <2>1. /\ UNCHANGED <<crashes, revocations, encryptions>>
        /\ UNCHANGED <<at, who, promised, known, got, acked, pc, batch>>
    BY <1>7 DEF vars, command, job, history, bounds
  <2>2. \A q \in Procs : Promise(q)
    BY <1>2, <2>1
  <2> QED
    BY <2>1, <2>2 DEF Promise
<1> QED
  BY <1>3, <1>4, <1>5, <1>6, <1>7 DEF StorageNext

\* After a completed push a pull fails for want of nothing but a right to it, if
\* no core crashed, nobody was revoked and the file was encrypted once
\* (app/storage.rs store_chunks, fetch_chunks, pull_chunks).
THEOREM PromisedPulls == StorageSpec => []PromisedPullSucceeds
<1>1. StorageInit => OwnerOK /\ CalmInv /\ PromiseInv
  BY InitOwner, InitCalm, InitPromise
<1>2. /\ StorageInv /\ TypesInv /\ UnderWayOK /\ AckedStaysStored /\ FileInv
      /\ OwnerOK /\ CalmInv /\ PromiseInv /\ [StorageNext]_vars
      => OwnerOK' /\ CalmInv' /\ PromiseInv'
  BY NextOwner, NextCalm, NextPromise
<1>3. TypesInv /\ OwnerOK /\ PromiseInv => PromisedPullSucceeds
  <2> SUFFICES ASSUME TypesInv, OwnerOK, PromiseInv, NEW p \in Procs,
                      promised[p], pc[p] = "failed", Calm, encryptions <= 1
               PROVE  who[p] \notin pushed[at[p]]
    BY DEF PromisedPullSucceeds, Calm
  <2>1. at[p] \in Cores
    BY DEF TypesInv, CommandTypes
  <2>2. who[p] # Owner
    BY DEF PromiseInv, Promise
  <2> QED
    BY <2>1, <2>2 DEF OwnerOK
<1> QED
  BY <1>1, <1>2, <1>3, StorageFileInvariance, PTL DEF StorageSpec
=============================================================================
