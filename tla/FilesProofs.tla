----------------------------- MODULE FilesProofs ----------------------------
(***************************************************************************)
(* What the receiver of a file transfer keeps on disk, and what is there   *)
(* when a transfer counts as complete, and what a sender streams, for any  *)
(* file, any number of runs, and any edits, losses, alterations, failures  *)
(* and crashes.                                                            *)
(***************************************************************************)
EXTENDS Files, FiniteSetTheorems, SequenceTheorems, TLAPS

Sizes == {FileSize[v] : v \in Versions}

Announcements ==
  [kind : {"announce"}, run : Nat, manifest : Manifests, intact : BOOLEAN]

FrameOK(f) ==
  /\ "kind" \in DOMAIN f
  /\ f.kind = "announce" => f \in Announcements

\* What is announced is a manifest; chunks and requests may be about anything.
SenderOK ==
  /\ source \in Versions
  /\ run \in Nat
  /\ pc = "read" => size \in Sizes
  /\ \E S : toReceiver \in Seq(S) /\ \A f \in S : FrameOK(f)

\* The shape of what is under incoming/.
DiskOK ==
  /\ received \subseteq Manifests
  /\ cached = [m \in Manifests |-> cached[m]]
  /\ verified = [m \in Manifests |-> verified[m]]
  /\ \A m \in Manifests :
       /\ cached[m] \in [Indices(m) -> {"absent", "good", "bad"}]
       /\ verified[m] # NoState => verified[m] \in Seq(Indices(m))

\* The chunk that receive_chunk is about to record is on disk.
ArrivedOK ==
  step = "cached" =>
    /\ arrived[1] \in Manifests
    /\ arrived[2] \in Indices(arrived[1])
    /\ cached[arrived[1]][arrived[2]] = "good"

FilesInv ==
  /\ SenderOK
  /\ DiskOK
  /\ ArrivedOK
  /\ RecordedIsCached

-----------------------------------------------------------------------------
\* A sequence of distinct elements, extended by a new one.
LEMMA AppendNew ==
  ASSUME NEW S, NEW v \in Seq(S), NEW k \in S, k \notin Elems(v),
         \A i, j \in DOMAIN v : v[i] = v[j] => i = j
  PROVE  LET w == Append(v, k) IN
         /\ w \in Seq(S)
         /\ Elems(w) = Elems(v) \cup {k}
         /\ \A i, j \in DOMAIN w : w[i] = w[j] => i = j
<1> DEFINE w == Append(v, k)
<1>1. /\ w \in Seq(S)
      /\ Len(w) = Len(v) + 1
      /\ w[Len(v) + 1] = k
      /\ \A i \in 1 .. Len(v) : w[i] = v[i]
      /\ DOMAIN v = 1 .. Len(v) /\ DOMAIN w = 1 .. Len(v) + 1
      /\ Len(v) \in Nat
  OBVIOUS
<1>2. \A i \in DOMAIN w : i \in DOMAIN v \/ i = Len(v) + 1
  BY <1>1
<1>3. Elems(w) = Elems(v) \cup {k}
  <2>1. \A e \in Elems(w) : e \in Elems(v) \cup {k}
    BY <1>1, <1>2 DEF Elems
  <2>2. \A e \in Elems(v) \cup {k} : e \in Elems(w)
    <3>1. k \in Elems(w)
      BY <1>1 DEF Elems
    <3>2. \A e \in Elems(v) : e \in Elems(w)
      BY <1>1 DEF Elems
    <3> QED BY <3>1, <3>2
  <2> QED BY <2>1, <2>2
<1>4. ASSUME NEW i \in DOMAIN w, NEW j \in DOMAIN w, w[i] = w[j]
      PROVE  i = j
  <2>1. CASE i \in DOMAIN v /\ j \in DOMAIN v
    BY <2>1, <1>1, <1>4
  <2>2. CASE i \in DOMAIN v /\ j = Len(v) + 1
    BY <2>2, <1>1, <1>4 DEF Elems
  <2>3. CASE i = Len(v) + 1 /\ j \in DOMAIN v
    BY <2>3, <1>1, <1>4 DEF Elems
  <2> QED BY <2>1, <2>2, <2>3, <1>2
<1> HIDE DEF w
<1> QED BY <1>1, <1>3, <1>4 DEF w

\* The ways in which the frames under way change.
LEMMA FramesKept ==
  ASSUME NEW S, NEW q \in Seq(S)
  PROVE  /\ q # <<>> => Tail(q) \in Seq(S) /\ Head(q) \in S
         /\ <<>> \in Seq(S)
         /\ \A f : Append(q, f) \in Seq(S \cup {f})
         /\ \A i \in DOMAIN q : Without(q, i) \in Seq(S)
         /\ \A i \in DOMAIN q : \A f : [q EXCEPT ![i] = f] \in Seq(S \cup {f})
<1>1. q # <<>> => Tail(q) \in Seq(S) /\ Head(q) \in S
  OBVIOUS
<1>2. <<>> \in Seq(S)
  OBVIOUS
<1>3. ASSUME NEW f
      PROVE  Append(q, f) \in Seq(S \cup {f})
  OBVIOUS
<1>4. ASSUME NEW i \in DOMAIN q
      PROVE  Without(q, i) \in Seq(S)
  <2>1. i \in 1 .. Len(q) /\ Len(q) \in Nat
    OBVIOUS
  <2>2. SubSeq(q, 1, i - 1) \in Seq(S)
    BY <2>1
  <2>3. SubSeq(q, i + 1, Len(q)) \in Seq(S)
    BY <2>1
  <2> QED BY <2>2, <2>3 DEF Without
<1>5. ASSUME NEW i \in DOMAIN q, NEW f
      PROVE  [q EXCEPT ![i] = f] \in Seq(S \cup {f})
  OBVIOUS
<1> QED BY <1>1, <1>2, <1>3, <1>4, <1>5

LEMMA InitInv == ASSUME FilesAssumption, FilesInit PROVE FilesInv
<1>1. SenderOK
  <2>1. toReceiver \in Seq({})
    BY DEF FilesInit
  <2>2. \E S : toReceiver \in Seq(S) /\ \A f \in S : FrameOK(f)
    <3>1. \A f \in {} : FrameOK(f)
      OBVIOUS
    <3> QED BY <2>1, <3>1
  <2> QED BY <2>2 DEF FilesInit, FilesAssumption, SenderOK
<1>2. DiskOK
  BY DEF FilesInit, DiskOK
<1>3. ArrivedOK /\ RecordedIsCached
  BY DEF FilesInit, ArrivedOK, RecordedIsCached
<1> QED BY <1>1, <1>2, <1>3 DEF FilesInv

\* The frames under way stay well formed.
LEMMA SenderInv ==
  ASSUME FilesAssumption, FilesInv, [FilesNext]_vars
  PROVE  SenderOK'
<1> USE DEF sender, wire
<1>1. PICK S : toReceiver \in Seq(S) /\ \A f \in S : FrameOK(f)
  BY DEF FilesInv, SenderOK
<1>2. /\ source \in Versions /\ run \in Nat
      /\ pc = "read" => size \in Sizes
  BY DEF FilesInv, SenderOK
<1> DEFINE WireOK(q) == \E T : q \in Seq(T) /\ \A f \in T : FrameOK(f)
<1>3. WireOK(toReceiver)
  BY <1>1
<1>4. /\ toReceiver # <<>> => WireOK(Tail(toReceiver))
      /\ WireOK(<<>>)
      /\ \A i \in DOMAIN toReceiver : WireOK(Without(toReceiver, i))
  BY <1>1, FramesKept
<1>5. ASSUME NEW f, FrameOK(f)
      PROVE  WireOK(Append(toReceiver, f))
  <2>1. Append(toReceiver, f) \in Seq(S \cup {f})
    BY <1>1, FramesKept
  <2>2. \A g \in S \cup {f} : FrameOK(g)
    BY <1>1, <1>5
  <2> QED BY <2>1, <2>2
<1>6. SUFFICES /\ source' \in Versions /\ run' \in Nat
               /\ pc' = "read" => size' \in Sizes
               /\ WireOK(toReceiver')
  BY DEF SenderOK
<1> HIDE DEF WireOK
<1>7. CASE Start
  BY <1>2, <1>3, <1>7 DEF Start
<1>8. CASE OpenSource
  BY <1>2, <1>3, <1>8 DEF OpenSource, Sizes
<1>9. CASE ReadSource
  <2> DEFINE m == [content |-> source, total_size |-> size]
  <2>1. m \in Manifests
    BY <1>2, <1>9 DEF ReadSource, Manifests, Sizes
  <2>2. FrameOK(Announce(run, m))
    BY <2>1, <1>2 DEF FrameOK, Announce, Announcements
  <2>3. WireOK(Append(toReceiver, Announce(run, m)))
    BY <2>2, <1>5
  <2> HIDE DEF m
  <2>4. toReceiver' = toReceiver \/ toReceiver' = Append(toReceiver, Announce(run, m))
    BY <1>9 DEF ReadSource, m
  <2>5. /\ source' = source /\ run' = run
        /\ pc' # "read"
    BY <1>9 DEF ReadSource
  <2> QED BY <2>3, <2>4, <2>5, <1>2, <1>3
<1>10. CASE IgnoreReply
  BY <1>2, <1>3, <1>10 DEF IgnoreReply
<1>11. CASE TakeReply
  BY <1>2, <1>3, <1>11 DEF TakeReply
<1>12. CASE StreamChunk
  <2>1. PICK k \in queue : toReceiver' = Append(toReceiver, Chunk(target, k))
    BY <1>12 DEF StreamChunk
  <2>2. FrameOK(Chunk(target, k))
    BY DEF FrameOK, Chunk
  <2>3. WireOK(toReceiver')
    BY <2>1, <2>2, <1>5
  <2> QED BY <2>3, <1>2, <1>12 DEF StreamChunk
<1>13. CASE Poll
  <2>1. FrameOK(StatusRequest(run, planned))
    BY DEF FrameOK, StatusRequest
  <2>2. WireOK(toReceiver')
    BY <2>1, <1>5, <1>13 DEF Poll
  <2> QED BY <2>2, <1>2, <1>13 DEF Poll
<1>14. CASE Expire
  BY <1>2, <1>3, <1>14 DEF Expire
<1>15. CASE HandleAnnounce \/ HandleStatus \/ HandleChunk
  BY <1>2, <1>4, <1>15 DEF HandleAnnounce, HandleStatus, HandleChunk, Takes
<1>16. CASE RecordChunk \/ CreateFile \/ WriteFile
  BY <1>2, <1>3, <1>16 DEF RecordChunk, CreateFile, WriteFile
<1>17. CASE \E v \in Versions : EditSource(v)
  BY <1>2, <1>3, <1>17 DEF EditSource
<1>18. CASE Kill
  BY <1>2, <1>3, <1>18 DEF Kill
<1>19. CASE Lose
  BY <1>2, <1>3, <1>4, <1>19 DEF Lose
<1>20. CASE Alter
  <2>1. PICK i \in DOMAIN toReceiver :
          /\ toReceiver[i].kind \in {"announce", "chunk"}
          /\ toReceiver' = [toReceiver EXCEPT ![i].intact = FALSE]
    BY <1>20 DEF Alter
  <2> DEFINE f == toReceiver[i]
             g == [f EXCEPT !.intact = FALSE]
  <2>2. f \in S /\ FrameOK(f)
    BY <1>1
  <2>3. FrameOK(g)
    BY <2>2 DEF FrameOK, Announcements
  <2>4. [toReceiver EXCEPT ![i] = g] \in Seq(S \cup {g})
    BY <1>1, FramesKept
  <2>5. toReceiver' = [toReceiver EXCEPT ![i] = g]
    BY <2>1
  <2> HIDE DEF f, g
  <2>6. WireOK(toReceiver')
    <3>1. \A h \in S \cup {g} : FrameOK(h)
      BY <1>1, <2>3
    <3> QED BY <2>4, <2>5, <3>1 DEF WireOK
  <2> QED BY <2>6, <1>2, <1>20 DEF Alter
<1>21. CASE IoError \/ Crash
  BY <1>2, <1>3, <1>4, <1>21 DEF IoError, Crash
<1>22. CASE UNCHANGED vars
  BY <1>2, <1>3, <1>22 DEF vars
<1> QED
  BY <1>7, <1>8, <1>9, <1>10, <1>11, <1>12, <1>13, <1>14, <1>15, <1>16,
     <1>17, <1>18, <1>19, <1>20, <1>21, <1>22
  DEF FilesNext, SenderStep, ReceiverStep

\* What is on disk: only four steps of the receiver touch it.
LEMMA DiskInv ==
  ASSUME FilesAssumption, NoneAssumption, FilesInv, [FilesNext]_vars
  PROVE  (DiskOK /\ ArrivedOK /\ RecordedIsCached)'
<1> USE DEF FilesInv
<1>1. CASE HandleAnnounce
  <2>1. received' \subseteq Manifests
    <3> DEFINE f == Head(toReceiver)
    <3>1. f.kind = "announce" /\ (received' = received \/ received' = received \cup {f.manifest})
      BY <1>1 DEF HandleAnnounce, Takes
    <3>2. FrameOK(f)
      BY <1>1, FramesKept DEF HandleAnnounce, Takes, SenderOK
    <3>3. f.manifest \in Manifests
      BY <3>1, <3>2 DEF FrameOK, Announcements
    <3> QED BY <3>1, <3>3 DEF DiskOK
  <2>2. UNCHANGED <<cached, verified, step, arrived>>
    BY <1>1 DEF HandleAnnounce, task
  <2> QED BY <2>1, <2>2 DEF DiskOK, ArrivedOK, RecordedIsCached
<1>2. CASE HandleChunk
  <2> DEFINE f == Head(toReceiver)
             m == f.manifest
             k == f.index
  <2>1. CASE ~(m \in received /\ VerifyChunk(f))
    <3>1. UNCHANGED <<received, cached, verified, step, arrived>>
      BY <1>2, <2>1 DEF HandleChunk, task
    <3> QED BY <3>1 DEF DiskOK, ArrivedOK, RecordedIsCached
  <2>2. CASE m \in received /\ VerifyChunk(f)
    <3>1. /\ cached' = [cached EXCEPT ![m][k] = "good"]
          /\ step' = "cached" /\ arrived' = <<m, k>>
          /\ UNCHANGED <<received, verified>>
      BY <1>2, <2>2 DEF HandleChunk, VerifyChunk
    <3>2. m \in Manifests /\ k \in Indices(m)
      BY <2>2 DEF DiskOK, VerifyChunk
    <3> HIDE DEF m, k
    <3>3. /\ cached' = [n \in Manifests |-> cached'[n]]
          /\ cached'[m] = [cached[m] EXCEPT ![k] = "good"]
          /\ \A n \in Manifests : n # m => cached'[n] = cached[n]
      BY <3>1, <3>2 DEF DiskOK
    <3>4. /\ cached'[m] \in [Indices(m) -> {"absent", "good", "bad"}]
          /\ cached'[m][k] = "good"
          /\ \A j \in Indices(m) : cached[m][j] = "good" => cached'[m][j] = "good"
      BY <3>2, <3>3 DEF DiskOK
    <3>5. DiskOK'
      BY <3>1, <3>3, <3>4 DEF DiskOK, Indices
    <3>6. ArrivedOK'
      BY <3>1, <3>2, <3>4 DEF ArrivedOK, Indices
    <3>7. ASSUME NEW n \in Manifests, verified'[n] # NoState
          PROVE  /\ \A j \in Elems(verified'[n]) : cached'[n][j] = "good"
                 /\ \A i, j \in DOMAIN verified'[n] :
                      verified'[n][i] = verified'[n][j] => i = j
      <4>1. verified'[n] = verified[n]
        BY <3>1
      <4>2. \A j \in Elems(verified[n]) : j \in Indices(n) /\ cached[n][j] = "good"
        BY <4>1, <3>7 DEF DiskOK, RecordedIsCached, Elems
      <4>3. \A j \in Elems(verified[n]) : cached'[n][j] = "good"
        BY <4>2, <3>3, <3>4
      <4> QED BY <4>1, <4>3, <3>7 DEF RecordedIsCached
    <3>8. RecordedIsCached'
      BY <3>7 DEF RecordedIsCached, Elems
    <3> QED BY <3>5, <3>6, <3>8
  <2> QED BY <2>1, <2>2
<1>3. CASE RecordChunk
  <2> DEFINE m == arrived[1]
             k == arrived[2]
             v == IF verified[m] = NoState THEN <<>> ELSE verified[m]
  <2>1. /\ m \in Manifests /\ k \in Indices(m) /\ cached[m][k] = "good"
        /\ UNCHANGED <<received, cached>>
        /\ step' # "cached"
    BY <1>3 DEF RecordChunk, ArrivedOK
  <2>2. /\ v \in Seq(Indices(m))
        /\ \A i, j \in DOMAIN v : v[i] = v[j] => i = j
        /\ \A j \in Elems(v) : cached[m][j] = "good"
    <3>1. CASE verified[m] = NoState
      <4>1. v = <<>>
        BY <3>1
      <4> HIDE DEF v
      <4> QED BY <4>1 DEF Elems
    <3>2. CASE verified[m] # NoState
      <4>1. v = verified[m]
        BY <3>2
      <4> HIDE DEF v, m, k
      <4> QED BY <4>1, <3>2, <2>1 DEF DiskOK, RecordedIsCached
    <3> QED BY <3>1, <3>2
  <2>3. CASE verified' = verified
    BY <2>1, <2>3 DEF DiskOK, ArrivedOK, RecordedIsCached
  <2>4. CASE verified' = [verified EXCEPT ![m] = Append(v, k)] /\ k \notin Elems(v)
    <3> DEFINE w == Append(v, k)
    <3>1. /\ w \in Seq(Indices(m))
          /\ Elems(w) = Elems(v) \cup {k}
          /\ \A i, j \in DOMAIN w : w[i] = w[j] => i = j
      <4> HIDE DEF v, m, k
      <4> QED BY <2>1, <2>2, <2>4, AppendNew DEF w
    <3>2. /\ verified' = [n \in Manifests |-> verified'[n]]
          /\ verified'[m] = w
          /\ \A n \in Manifests : n # m => verified'[n] = verified[n]
      BY <2>1, <2>4 DEF DiskOK
    <3> HIDE DEF m, k, v, w
    <3>3. DiskOK'
      BY <2>1, <3>1, <3>2 DEF DiskOK, Indices
    <3>4. ASSUME NEW n \in Manifests, verified'[n] # NoState
          PROVE  /\ \A j \in Elems(verified'[n]) : cached'[n][j] = "good"
                 /\ \A i, j \in DOMAIN verified'[n] :
                      verified'[n][i] = verified'[n][j] => i = j
      <4>1. CASE n = m
        BY <4>1, <2>1, <2>2, <3>1, <3>2
      <4>2. CASE n # m
        BY <4>2, <2>1, <3>2, <3>4 DEF RecordedIsCached
      <4> QED BY <4>1, <4>2
    <3>5. RecordedIsCached'
      BY <3>4 DEF RecordedIsCached, Elems
    <3> QED BY <2>1, <3>3, <3>5 DEF ArrivedOK
  <2> QED BY <1>3, <2>3, <2>4 DEF RecordChunk, AlreadyVerified
<1>4. CASE CreateFile \/ WriteFile \/ IoError \/ Crash
  <2>1. step' # "cached" /\ UNCHANGED <<received, cached, verified>>
    BY <1>4 DEF CreateFile, WriteFile, IoError, Crash, disk
  <2> QED BY <2>1 DEF DiskOK, ArrivedOK, RecordedIsCached
<1>5. CASE UNCHANGED <<received, cached, verified, step, arrived>>
  BY <1>5 DEF DiskOK, ArrivedOK, RecordedIsCached
<1>6. ASSUME \/ Start \/ SenderStep \/ Expire \/ HandleStatus \/ Kill \/ Lose
             \/ Alter \/ (\E v \in Versions : EditSource(v)) \/ UNCHANGED vars
      PROVE  UNCHANGED <<received, cached, verified, step, arrived>>
  BY <1>6 DEF Start, SenderStep, OpenSource, ReadSource, IgnoreReply, TakeReply,
    StreamChunk, Poll, Expire, HandleStatus, Kill, Lose, Alter, EditSource,
    vars, disk, task
<1> QED
  BY <1>1, <1>2, <1>3, <1>4, <1>5, <1>6 DEF FilesNext, ReceiverStep

LEMMA NextInv ==
  ASSUME FilesAssumption, NoneAssumption, FilesInv, [FilesNext]_vars
  PROVE  FilesInv'
BY SenderInv, DiskInv DEF FilesInv

-----------------------------------------------------------------------------
\* The inductive invariant: announcements are manifests, the chunk about to be
\* recorded is on disk, and so is all that was recorded.
THEOREM FilesInvariance == FilesSpec => []FilesInv
<1>1. FilesInit => FilesInv
  BY InitInv, FilesAssumption
<1>2. FilesInv /\ [FilesNext]_vars => FilesInv'
  BY NextInv, FilesAssumption, NoneAssumption
<1> QED BY <1>1, <1>2, PTL DEF FilesSpec

\* receive_chunk writes the chunk file before state.json: however the transfer
\* is interrupted, each index that state.json records is recorded once and its
\* chunk is on disk, verified.
THEOREM RecordedOnDisk == FilesSpec => []RecordedIsCached
<1>1. FilesInv => RecordedIsCached
  BY DEF FilesInv
<1> QED BY <1>1, FilesInvariance, PTL

\* resume_for and receive_chunk only ever add to the verified set, whatever
\* is announced, lost, altered or interrupted.
THEOREM VerifiedNeverLost == FilesSpec => VerifiedKept
<1> DEFINE Kept == \A m \in Manifests : verified[m] # NoState =>
                     /\ verified'[m] # NoState
                     /\ Elems(verified[m]) \subseteq Elems(verified'[m])
<1>1. ASSUME FilesInv, [FilesNext]_vars
      PROVE  Kept
  <2>1. CASE verified' = verified
    BY <2>1
  <2>2. CASE RecordChunk /\ verified' # verified
    <3> DEFINE m == arrived[1]
               k == arrived[2]
               v == IF verified[m] = NoState THEN <<>> ELSE verified[m]
    <3>1. /\ verified' = [verified EXCEPT ![m] = Append(v, k)]
          /\ m \in Manifests /\ k \in Indices(m)
      BY <1>1, <2>2 DEF RecordChunk, FilesInv, ArrivedOK
    <3> SUFFICES ASSUME NEW n \in Manifests, verified[n] # NoState
                 PROVE  /\ verified'[n] # NoState
                        /\ Elems(verified[n]) \subseteq Elems(verified'[n])
      OBVIOUS
    <3>2. CASE n # m
      <4>1. verified'[n] = verified[n]
        BY <3>1, <3>2
      <4> QED BY <4>1
    <3>3. CASE n = m
      <4>1. v = verified[n] /\ v \in Seq(Indices(m))
        BY <1>1, <3>1, <3>3 DEF FilesInv, DiskOK
      <4>2. verified'[n] = Append(v, k)
        BY <1>1, <3>1, <3>3 DEF FilesInv, DiskOK
      <4> HIDE DEF m, k, v
      <4>3. Append(v, k) \in Seq(Indices(m))
        BY <3>1, <4>1
      <4>4. Append(v, k) \in Seq(Nat)
        <5>1. Indices(m) \subseteq Nat
          BY <3>1 DEF Indices
        <5> QED BY <4>3, <5>1
      <4>5. \A i \in DOMAIN v : i \in DOMAIN Append(v, k) /\ Append(v, k)[i] = v[i]
        BY <3>1, <4>1
      <4> QED BY <4>1, <4>2, <4>4, <4>5, NoneAssumption DEF Elems
    <3> QED BY <3>2, <3>3
  <2>3. ~RecordChunk => verified' = verified
    BY <1>1 DEF FilesNext, Start, SenderStep, OpenSource, ReadSource, IgnoreReply,
      TakeReply, StreamChunk, Poll, Expire, ReceiverStep, HandleAnnounce,
      HandleStatus, HandleChunk, CreateFile, WriteFile, EditSource, Kill, Lose,
      Alter, IoError, Crash, vars, disk
  <2> QED BY <2>1, <2>2, <2>3
<1>2. FilesInv /\ [FilesNext]_vars => [Kept]_vars
  BY <1>1
<1> QED BY <1>2, FilesInvariance, PTL DEF FilesSpec, VerifiedKept

(***************************************************************************)
(* What Complete stands for                                                *)
(***************************************************************************)
\* As many records as chunks, no two of them equal: every chunk is recorded.
LEMMA AllRecorded ==
  ASSUME FilesAssumption, NEW m \in Manifests, NEW v \in Seq(Indices(m)),
         Len(v) = NumChunks[m.content],
         \A i, j \in DOMAIN v : v[i] = v[j] => i = j
  PROVE  Elems(v) = Indices(m)
<1> DEFINE n == NumChunks[m.content]
<1>1. n \in Nat
  BY DEF FilesAssumption, Manifests
<1>2. Indices(m) = 0 .. n - 1
  BY DEF Indices
<1>3. Len(v) = n
  OBVIOUS
<1> HIDE DEF n
<1>4. v \in [1 .. n -> 0 .. n - 1] /\ DOMAIN v = 1 .. n
  BY <1>1, <1>2, <1>3
<1>5. ASSUME NEW k \in 0 .. n - 1, k \notin Elems(v) PROVE FALSE
  <2> DEFINE T == (0 .. n - 1) \ {k}
  <2>1. v \in [1 .. n -> T]
    BY <1>4, <1>5 DEF Elems
  <2>2. IsFiniteSet(1 .. n) /\ Cardinality(1 .. n) = n
    <3>1. /\ IsFiniteSet(1 .. n)
          /\ Cardinality(1 .. n) = IF 1 > n THEN 0 ELSE n - 1 + 1
      <4>1. 1 \in Int /\ n \in Int
        BY <1>1
      <4> QED
        BY <4>1, FS_Interval
    <3> QED
      BY <1>1, <3>1
  <2>3. IsFiniteSet(0 .. n - 1) /\ Cardinality(0 .. n - 1) = n
    <3>1. /\ IsFiniteSet(0 .. n - 1)
          /\ Cardinality(0 .. n - 1) = IF 0 > n - 1 THEN 0 ELSE (n - 1) - 0 + 1
      <4>1. 0 \in Int /\ n - 1 \in Int
        BY <1>1
      <4> QED
        BY <4>1, FS_Interval
    <3> QED
      BY <1>1, <3>1
  <2>4. IsFiniteSet(T) /\ Cardinality(T) = n - 1
    <3>1. /\ IsFiniteSet((0 .. n - 1) \ {k})
          /\ Cardinality((0 .. n - 1) \ {k}) =
               IF k \in 0 .. n - 1 THEN Cardinality(0 .. n - 1) - 1
                                   ELSE Cardinality(0 .. n - 1)
      BY <2>3, FS_RemoveElement
    <3> QED
      BY <1>5, <2>3, <3>1
  <2>5. Cardinality(T) < Cardinality(1 .. n)
    BY <1>1, <2>2, <2>4
  <2> HIDE DEF T
  <2>6. \E i, j \in 1 .. n : i # j /\ v[i] = v[j]
    BY <2>1, <2>2, <2>4, <2>5, FS_PigeonHole
  <2> QED
    BY <1>4, <2>6
<1>6. \A e \in Elems(v) : e \in 0 .. n - 1
  BY <1>4 DEF Elems
<1> QED
  BY <1>2, <1>5, <1>6

Done(m) == Complete(m, verified[m])

Finished(m) == Done(m) /\ (faults = 0 => out[m] = "full")

LEMMA DoneHasAll ==
  ASSUME FilesAssumption, FilesInv, NEW m \in Manifests, Done(m)
  PROVE  /\ verified[m] # NoState /\ Elems(verified[m]) = Indices(m)
         /\ \A k \in Indices(m) : cached[m][k] = "good"
<1>1. /\ verified[m] # NoState /\ Len(verified[m]) = NumChunks[m.content]
      /\ verified[m] \in Seq(Indices(m))
      /\ \A i, j \in DOMAIN verified[m] : verified[m][i] = verified[m][j] => i = j
      /\ \A k \in Elems(verified[m]) : cached[m][k] = "good"
  BY DEF Done, Complete, FilesInv, DiskOK, RecordedIsCached
<1>2. Elems(verified[m]) = Indices(m)
  BY <1>1, AllRecorded
<1> QED
  BY <1>1, <1>2

LEMMA ElemsOf ==
  ASSUME NEW S, NEW q \in Seq(S)
  PROVE  /\ \A f : Elems(Append(q, f)) = Elems(q) \cup {f}
         /\ q # <<>> => Head(q) \in Elems(q) /\ Elems(Tail(q)) \subseteq Elems(q)
         /\ Elems(<<>>) = {}
         /\ \A i \in DOMAIN q : Elems(Without(q, i)) \subseteq Elems(q)
<1>1. DOMAIN q = 1 .. Len(q) /\ Len(q) \in Nat
  OBVIOUS
<1>2. ASSUME NEW f PROVE Elems(Append(q, f)) = Elems(q) \cup {f}
  <2>1. /\ DOMAIN Append(q, f) = 1 .. Len(q) + 1 /\ Append(q, f)[Len(q) + 1] = f
        /\ \A i \in 1 .. Len(q) : Append(q, f)[i] = q[i]
    OBVIOUS
  <2>2. \A e \in Elems(Append(q, f)) : e \in Elems(q) \cup {f}
    BY <1>1, <2>1 DEF Elems
  <2>3. \A e \in Elems(q) : e \in Elems(Append(q, f))
    BY <1>1, <2>1 DEF Elems
  <2>4. f \in Elems(Append(q, f))
    BY <1>1, <2>1 DEF Elems
  <2> QED
    BY <2>2, <2>3, <2>4
<1>3. ASSUME q # <<>>
      PROVE  Head(q) \in Elems(q) /\ Elems(Tail(q)) \subseteq Elems(q)
  <2>1. /\ 1 \in DOMAIN q /\ Head(q) = q[1]
        /\ DOMAIN Tail(q) = 1 .. Len(q) - 1
        /\ \A i \in 1 .. Len(q) - 1 : Tail(q)[i] = q[i + 1] /\ i + 1 \in DOMAIN q
    BY <1>3
  <2> QED
    BY <2>1 DEF Elems
<1>4. ASSUME NEW i \in DOMAIN q PROVE Elems(Without(q, i)) \subseteq Elems(q)
  <2> DEFINE a == SubSeq(q, 1, i - 1)
  <2> DEFINE b == SubSeq(q, i + 1, Len(q))
  <2>1. /\ i \in 1 .. Len(q) /\ 1 \in 1 .. Len(q) + 1 /\ i - 1 \in 1 - 1 .. Len(q)
        /\ i + 1 \in 1 .. Len(q) + 1 /\ Len(q) \in (i + 1) - 1 .. Len(q)
    BY <1>1, <1>4
  <2>2. /\ a \in Seq(S) /\ Len(a) = (i - 1) - 1 + 1
        /\ \A j \in 1 .. (i - 1) - 1 + 1 : a[j] = q[1 + j - 1]
    BY <2>1, SubSeqProperties
  <2>3. /\ b \in Seq(S) /\ Len(b) = Len(q) - (i + 1) + 1
        /\ \A j \in 1 .. Len(q) - (i + 1) + 1 : b[j] = q[(i + 1) + j - 1]
    BY <2>1, SubSeqProperties
  <2> HIDE DEF a, b
  <2>4. \A j \in 1 .. Len(a) : a[j] \in Elems(q)
    <3>1. Len(a) = i - 1 /\ i - 1 \in Nat /\ (i - 1) - 1 + 1 = i - 1
      BY <2>1, <2>2
    <3>2. \A j \in 1 .. i - 1 : 1 + j - 1 = j /\ j \in DOMAIN q
      BY <1>1, <2>1
    <3>3. \A j \in 1 .. i - 1 : a[j] = q[j] /\ j \in DOMAIN q
      BY <2>2, <3>1, <3>2
    <3> QED
      BY <3>1, <3>3 DEF Elems
  <2>5. \A j \in 1 .. Len(b) : b[j] \in Elems(q)
    <3> DEFINE n == Len(q)
    <3>0. n \in Nat /\ i \in 1 .. n
      BY <1>1, <2>1
    <3> HIDE DEF n
    <3>1. n - i \in Nat /\ n - (i + 1) + 1 = n - i
      BY <3>0
    <3>2. \A j \in 1 .. n - i : (i + 1) + j - 1 = i + j /\ i + j \in 1 .. n
      BY <3>0
    <3>3. \A j \in 1 .. n - i : b[j] = q[(i + 1) + j - 1]
      BY <2>3, <3>1 DEF n
    <3>4. Len(b) = n - i /\ DOMAIN q = 1 .. n
      BY <1>1, <2>3, <3>1 DEF n
    <3> QED
      BY <3>2, <3>3, <3>4 DEF Elems
  <2>6. /\ Len(a \o b) = Len(a) + Len(b) /\ DOMAIN (a \o b) = 1 .. Len(a) + Len(b)
        /\ \A j \in 1 .. Len(a) + Len(b) :
             (a \o b)[j] = IF j <= Len(a) THEN a[j] ELSE b[j - Len(a)]
    <3>1. a \o b \in Seq(S) /\ Len(a \o b) = Len(a) + Len(b)
      BY <2>2, <2>3, ConcatProperties
    <3>2. DOMAIN (a \o b) = 1 .. Len(a) + Len(b)
      BY <3>1
    <3> QED
      BY <2>2, <2>3, <3>1, <3>2, ConcatProperties
  <2>7. \A j \in 1 .. Len(a) + Len(b) : j <= Len(a) => j \in 1 .. Len(a)
    BY <2>2
  <2>8. \A j \in 1 .. Len(a) + Len(b) : ~(j <= Len(a)) => j - Len(a) \in 1 .. Len(b)
    BY <2>2, <2>3
  <2>9. \A j \in DOMAIN (a \o b) : (a \o b)[j] \in Elems(q)
    BY <2>4, <2>5, <2>6, <2>7, <2>8
  <2>10. \A e \in Elems(a \o b) : e \in Elems(q)
    BY <2>9 DEF Elems
  <2> QED
    BY <2>10 DEF Without, a, b
<1>5. Elems(<<>>) = {}
  BY DEF Elems
<1> QED
  BY <1>2, <1>3, <1>4, <1>5

(***************************************************************************)
(* From the count of the chunks to the report of the sender                *)
(***************************************************************************)
\* A request of the present run, and the reply to it, are about the manifest
\* that is polled: a request of run r, when p is polled.
Asked(f, r, p) ==
  f.kind = "status" =>
    f.run \in 0 .. r /\ (f.run = r => f.manifest = p /\ p \in Manifests)

\* A reply that counts all chunks counted them on disk.
ReplyOK(f, r, p) ==
  f.kind = "state" =>
    /\ f.run \in 0 .. r
    /\ f.run = r => p \in Manifests /\ (Complete(p, f.data) => Finished(p))

PlansOK ==
  /\ planned \in Manifests \cup {NoManifest}
  /\ pc \in {"announced", "polling"} \cup Streaming => planned \in Manifests
  /\ \E S : toSender \in Seq(S)
  /\ \A f \in Elems(toReceiver) : Asked(f, run, planned)
  /\ \A f \in Elems(toSender) : ReplyOK(f, run, planned)

\* The file is assembled in the step that completes the set, once; after that
\* only a failure leaves it unfinished.
Assembling(m) == step \in {"saved", "created"} /\ arrived[1] = m

UnderWay ==
  step \in {"saved", "created"} =>
    arrived[1] \in Manifests /\ Done(arrived[1]) /\ out[arrived[1]] # "full"

StoredOK ==
  /\ faults \in Nat
  /\ out = [m \in Manifests |-> out[m]]
  /\ confirmed \cup told \subseteq Manifests
  /\ UnderWay
  /\ \A m \in Manifests : out[m] = "full" => Done(m)
  /\ \A m \in Manifests : faults = 0 /\ Done(m) => out[m] = "full" \/ Assembling(m)
  /\ \A m \in confirmed : Done(m)
  /\ \A m \in told : Finished(m)

StoredInv == FilesInv /\ PlansOK /\ StoredOK

LEMMA StoredInit ==
  ASSUME FilesAssumption, NoneAssumption, FilesInit PROVE PlansOK /\ StoredOK
<1> USE DEF FilesInit
<1>1. PlansOK
  BY DEF PlansOK, Elems, Streaming
<1>2. StoredOK
  <2>1. \A m \in Manifests : ~Done(m)
    BY DEF Done, Complete
  <2> QED
    BY <2>1 DEF StoredOK, UnderWay
<1> QED
  BY <1>1, <1>2

\* What the receiver finished stays finished: a chunk recorded anew was missing.
LEMMA FinishedStays ==
  ASSUME FilesAssumption, NoneAssumption, StoredInv, [FilesNext]_vars, NEW m \in Manifests
  PROVE  /\ Done(m) => Done(m)'
         /\ out[m] = "full" => out'[m] = "full"
         /\ Finished(m) => Finished(m)'
<1> USE DEF vars, sender, wire, disk, task, bounds
<1>1. Done(m) => verified'[m] = verified[m]
  <2>1. CASE RecordChunk /\ verified' # verified /\ Done(m)
    <3> DEFINE n == arrived[1]
               k == arrived[2]
               v == IF verified[n] = NoState THEN <<>> ELSE verified[n]
    <3>1. /\ verified' = [verified EXCEPT ![n] = Append(v, k)] /\ k \notin Elems(v)
          /\ n \in Manifests /\ k \in Indices(n)
      BY <2>1 DEF RecordChunk, AlreadyVerified, StoredInv, FilesInv, ArrivedOK
    <3>2. n # m
      <4>1. verified[m] # NoState /\ Elems(verified[m]) = Indices(m)
        BY <2>1, DoneHasAll DEF StoredInv
      <4> QED
        BY <3>1, <4>1
    <3> HIDE DEF n, k, v
    <3> QED
      BY <3>1, <3>2 DEF StoredInv, FilesInv, DiskOK
  <2>2. ~RecordChunk => verified' = verified
    BY DEF FilesNext, Start, SenderStep, OpenSource, ReadSource, IgnoreReply,
      TakeReply, StreamChunk, Poll, Expire, ReceiverStep, HandleAnnounce,
      HandleStatus, HandleChunk, CreateFile, WriteFile, EditSource, Kill, Lose,
      Alter, IoError, Crash
  <2> QED
    BY <2>1, <2>2
<1>2. Done(m) => Done(m)'
  BY <1>1 DEF Done
<1>3. out[m] = "full" => out'[m] = "full"
  <2>1. CASE CreateFile
    BY <2>1 DEF CreateFile, StoredInv, StoredOK, UnderWay
  <2>2. CASE WriteFile
    <3>1. out' = out \/ out' = [out EXCEPT ![arrived[1]] = "full"]
                     \/ out' = [out EXCEPT ![arrived[1]] = out[arrived[1]]]
      BY <2>2 DEF WriteFile
    <3> QED
      BY <3>1 DEF StoredInv, StoredOK
  <2>3. ~CreateFile /\ ~WriteFile => out' = out
    BY DEF FilesNext, Start, SenderStep, OpenSource, ReadSource, IgnoreReply,
      TakeReply, StreamChunk, Poll, Expire, ReceiverStep, HandleAnnounce,
      HandleStatus, HandleChunk, RecordChunk, EditSource, Kill, Lose,
      Alter, IoError, Crash
  <2> QED
    BY <2>1, <2>2, <2>3
<1>4. faults' = faults \/ faults' = faults + 1
  BY DEF FilesNext, Start, SenderStep, OpenSource, ReadSource, IgnoreReply,
    TakeReply, StreamChunk, Poll, Expire, ReceiverStep, HandleAnnounce,
    HandleStatus, HandleChunk, RecordChunk, CreateFile, WriteFile, EditSource,
    Kill, Lose, Alter, IoError, Crash
<1>5. faults' = 0 => faults = 0
  BY <1>4 DEF StoredInv, StoredOK
<1> QED
  BY <1>2, <1>3, <1>5 DEF Finished

\* Only the receiver's own steps, and the sender's report, touch the files.
LEMMA StoredNext ==
  ASSUME FilesAssumption, NoneAssumption, StoredInv, [FilesNext]_vars
  PROVE  StoredOK'
<1> USE DEF sender, wire, disk, task, bounds
<1>1. /\ FilesInv /\ PlansOK /\ StoredOK /\ faults \in Nat
      /\ out = [m \in Manifests |-> out[m]]
      /\ confirmed \subseteq Manifests /\ told \subseteq Manifests
  BY DEF StoredInv, StoredOK
<1>2. \A m \in Manifests : /\ Done(m) => Done(m)'
                           /\ out[m] = "full" => out'[m] = "full"
                           /\ Finished(m) => Finished(m)'
  BY FinishedStays
<1>3. CASE RecordChunk
  <2>0. PICK n : n = arrived[1]
    OBVIOUS
  <2> DEFINE k == arrived[2]
             v == IF verified[n] = NoState THEN <<>> ELSE verified[n]
  <2>1. /\ step = "cached" /\ n \in Manifests /\ k \in Indices(n)
        /\ UNCHANGED <<out, told, faults>>
    BY <1>1, <1>3, <2>0 DEF RecordChunk, FilesInv, ArrivedOK
  <2>2. CASE k \in Elems(v) /\ UNCHANGED verified /\ step' = "idle"
             /\ confirmed' = IF Complete(n, v) THEN confirmed \cup {n} ELSE confirmed
    <3>1. Complete(n, v) => Done(n)
      <4>1. v # <<>>
        BY <2>2 DEF Elems
      <4>2. v = verified[n]
        BY <4>1
      <4> QED
        BY <4>2 DEF Done
    <3>2. \A m \in Manifests : Done(m)' <=> Done(m)
      BY <2>2 DEF Done
    <3>3. \A m \in confirmed' : m \in Manifests /\ Done(m)'
      BY <1>1, <2>1, <2>2, <3>1, <3>2 DEF StoredOK
    <3>4. \A m \in told' : m \in Manifests /\ Finished(m)'
      BY <1>1, <1>2, <2>1 DEF StoredOK
    <3>5. \A m \in Manifests : ~Assembling(m)
      BY <2>1 DEF Assembling
    <3> HIDE DEF k, v
    <3>6. /\ \A m \in Manifests : out'[m] = "full" => Done(m)'
          /\ \A m \in Manifests : faults' = 0 /\ Done(m)' => out'[m] = "full" \/ Assembling(m)'
          /\ UnderWay'
      BY <1>1, <2>1, <2>2, <3>2, <3>5 DEF StoredOK, UnderWay
    <3> QED
      BY <1>1, <2>1, <3>3, <3>4, <3>6 DEF StoredOK
  <2>3. CASE /\ k \notin Elems(v) /\ verified' = [verified EXCEPT ![n] = Append(v, k)]
             /\ step' = IF Complete(n, verified'[n]) THEN "saved" ELSE "idle"
             /\ arrived' = IF step' = "saved" THEN arrived ELSE <<>>
             /\ UNCHANGED confirmed
    <3>1. ~Done(n)
      <4>1. ASSUME Done(n) PROVE FALSE
        <5>1. verified[n] # NoState /\ Elems(verified[n]) = Indices(n)
          BY <1>1, <2>1, <4>1, DoneHasAll
        <5> QED
          BY <2>1, <2>3, <5>1
      <4> QED
        BY <4>1
    <3>2. out[n] # "full"
      BY <1>1, <2>1, <3>1 DEF StoredOK
    <3> HIDE DEF k, v
    <3>3. \A m \in Manifests : m # n => (Done(m)' <=> Done(m))
      <4>1. \A m \in Manifests : m # n => verified'[m] = verified[m]
        BY <1>1, <2>3 DEF FilesInv, DiskOK
      <4> QED
        BY <4>1 DEF Done
    <3>4. Done(n)' => step' = "saved" /\ arrived' = arrived
      BY <2>3 DEF Done
    <3>5. step' \in {"saved", "created"} => arrived' = arrived /\ Done(n)'
      BY <2>3 DEF Done
    <3>6. \A m \in Manifests : ~Assembling(m)
      BY <2>1 DEF Assembling
    <3>7. \A m \in Manifests : faults' = 0 /\ Done(m)' => out'[m] = "full" \/ Assembling(m)'
      <4>1. ASSUME NEW m \in Manifests, m # n, faults' = 0, Done(m)'
            PROVE  out'[m] = "full"
        BY <1>1, <2>1, <3>3, <3>6, <4>1 DEF StoredOK
      <4>2. Done(n)' => Assembling(n)'
        BY <2>0, <3>4 DEF Assembling
      <4> QED
        BY <4>1, <4>2
    <3>8. \A m \in Manifests : out'[m] = "full" => Done(m)'
      BY <1>1, <1>2, <2>1 DEF StoredOK
    <3>9. UnderWay'
      BY <2>0, <2>1, <3>2, <3>5 DEF UnderWay, Done
    <3>10. /\ \A m \in confirmed' : Done(m)'
           /\ \A m \in told' : Finished(m)'
      BY <1>1, <1>2, <2>1, <2>3 DEF StoredOK
    <3> QED
      BY <1>1, <2>1, <2>3, <3>7, <3>8, <3>9, <3>10 DEF StoredOK
  <2> QED
    BY <1>3, <2>0, <2>2, <2>3 DEF RecordChunk, AlreadyVerified
<1>4. CASE CreateFile
  <2>1. /\ step = "saved" /\ step' = "created" /\ arrived[1] \in Manifests
        /\ Done(arrived[1]) /\ out' = [out EXCEPT ![arrived[1]] = "partial"]
        /\ UNCHANGED <<verified, arrived, confirmed, told, faults>>
    BY <1>1, <1>4 DEF CreateFile, StoredOK, UnderWay
  <2>2. out'[arrived[1]] = "partial"
        /\ \A m \in Manifests : m # arrived[1] => out'[m] = out[m]
    BY <1>1, <2>1
  <2>3. \A m \in Manifests : (Done(m)' <=> Done(m)) /\ (Assembling(m)' <=> Assembling(m))
    BY <2>1 DEF Done, Assembling
  <2>4. \A m \in Manifests : out'[m] = "full" => out[m] = "full"
    BY <2>2
  <2>5. \A m \in Manifests : faults' = 0 /\ Done(m)' => out'[m] = "full" \/ Assembling(m)'
    BY <1>1, <1>2, <2>1, <2>3 DEF StoredOK
  <2>6. UnderWay'
    BY <2>1, <2>2 DEF UnderWay, Done
  <2>7. /\ \A m \in confirmed' : Done(m)'
        /\ \A m \in told' : Finished(m)'
        /\ \A m \in Manifests : out'[m] = "full" => Done(m)'
    BY <1>1, <1>2, <2>1, <2>3, <2>4 DEF StoredOK
  <2> QED
    BY <1>1, <2>1, <2>5, <2>6, <2>7 DEF StoredOK
<1>5. CASE WriteFile
  <2>0. PICK n : n = arrived[1]
    OBVIOUS
  <2>1. /\ step = "created" /\ step' = "idle" /\ n \in Manifests /\ Done(n)
        /\ UNCHANGED <<verified, told, faults>>
        /\ confirmed' = confirmed \/ confirmed' = confirmed \cup {n}
    BY <1>1, <1>5, <2>0 DEF WriteFile, StoredOK, UnderWay
  <2>2. \A k \in Elems(verified[n]) : cached[n][k] = "good"
    BY <1>1, <2>1, DoneHasAll
  <2>3. out' = [out EXCEPT ![n] = "full"]
    BY <1>5, <2>0, <2>2 DEF WriteFile
  <2>4. out'[n] = "full" /\ \A m \in Manifests : m # n => out'[m] = out[m]
    BY <1>1, <2>1, <2>3
  <2>5. \A m \in Manifests : Done(m)' <=> Done(m)
    BY <2>1 DEF Done
  <2>6. \A m \in Manifests : Assembling(m) => m = n
    BY <2>0 DEF Assembling
  <2>7. \A m \in Manifests : faults' = 0 /\ Done(m)' => out'[m] = "full"
    BY <1>1, <2>1, <2>4, <2>5, <2>6 DEF StoredOK
  <2>8. /\ \A m \in confirmed' : Done(m)'
        /\ \A m \in told' : Finished(m)'
        /\ \A m \in Manifests : out'[m] = "full" => Done(m)'
    BY <1>1, <1>2, <2>1, <2>4, <2>5 DEF StoredOK
  <2> QED
    BY <1>1, <2>1, <2>3, <2>7, <2>8 DEF StoredOK, UnderWay
<1>6. ASSUME UNCHANGED <<verified, out, confirmed>>,
             told' = told \/ \E m \in Manifests : told' = told \cup {m} /\ Finished(m),
             faults' = faults \/ faults' = faults + 1,
             UNCHANGED <<step, arrived>> \/
               (step' \in {"idle", "cached"} /\ (faults' = faults => step = "idle"))
      PROVE  StoredOK'
  <2>1. \A m \in Manifests : Done(m)' <=> Done(m)
    BY <1>6 DEF Done
  <2>2. faults' \in Nat /\ (faults' = 0 => faults = 0 /\ faults' = faults)
    BY <1>1, <1>6
  <2>3. \A m \in Manifests : faults' = 0 /\ Assembling(m) => Assembling(m)'
    BY <1>6, <2>2 DEF Assembling
  <2>4. \A m \in Manifests : faults' = 0 /\ Done(m)' => out'[m] = "full" \/ Assembling(m)'
    BY <1>1, <1>6, <2>1, <2>2, <2>3 DEF StoredOK
  <2>5. UnderWay'
    BY <1>1, <1>6 DEF StoredOK, UnderWay, Done
  <2>6. /\ \A m \in confirmed' : Done(m)'
        /\ \A m \in Manifests : out'[m] = "full" => Done(m)'
    BY <1>1, <1>6, <2>1 DEF StoredOK
  <2>7. \A m \in told' : m \in Manifests /\ Finished(m)'
    BY <1>1, <1>2, <1>6 DEF StoredOK
  <2> QED
    BY <1>1, <1>6, <2>2, <2>4, <2>5, <2>6, <2>7 DEF StoredOK
<1>7. CASE TakeReply
  <2>1. /\ UNCHANGED <<verified, out, confirmed, faults, step, arrived>>
        /\ toSender # <<>> /\ Awaited(Head(toSender))
        /\ \/ told' = told
           \/ /\ Head(toSender).kind = "state"
              /\ Complete(planned, Head(toSender).data)
              /\ told' = told \cup {planned}
    BY <1>7 DEF TakeReply
  <2>2. ReplyOK(Head(toSender), run, planned)
    BY <1>1, <2>1, ElemsOf DEF PlansOK
  <2> QED
    BY <1>6, <2>1, <2>2 DEF ReplyOK, Awaited
<1>8. CASE IoError \/ Crash
  BY <1>1, <1>6, <1>8 DEF IoError, Crash
<1>9. CASE HandleChunk
  BY <1>6, <1>9 DEF HandleChunk, Takes
<1>10. CASE \/ Start \/ OpenSource \/ ReadSource \/ IgnoreReply \/ StreamChunk \/ Poll
            \/ Expire \/ HandleAnnounce \/ HandleStatus
            \/ (\E v \in Versions : EditSource(v)) \/ Kill \/ Lose \/ Alter
            \/ UNCHANGED vars
  <2>1. UNCHANGED <<verified, out, confirmed, told, faults, step, arrived>>
    BY <1>10 DEF Start, OpenSource, ReadSource, IgnoreReply, StreamChunk, Poll, Expire,
      HandleAnnounce, HandleStatus, EditSource, Kill, Lose, Alter, vars
  <2> QED
    BY <1>6, <2>1
<1> QED
  BY <1>3, <1>4, <1>5, <1>7, <1>8, <1>9, <1>10
  DEF FilesNext, SenderStep, ReceiverStep

\* Requests and replies stay about the manifest that is polled, which a run
\* fixes once, before it asks anything.
LEMMA PlansNext ==
  ASSUME FilesAssumption, NoneAssumption, StoredInv, [FilesNext]_vars
  PROVE  PlansOK'
<1> USE DEF sender, wire, disk, task, bounds, Streaming
<1>1. /\ FilesInv /\ PlansOK /\ StoredOK /\ run \in Nat
      /\ planned \in Manifests \cup {NoManifest}
      /\ pc \in {"announced", "polling"} \cup Streaming => planned \in Manifests
      /\ \A f \in Elems(toReceiver) : Asked(f, run, planned)
      /\ \A f \in Elems(toSender) : ReplyOK(f, run, planned)
  BY DEF StoredInv, PlansOK, FilesInv, SenderOK
<1>2. PICK R : toReceiver \in Seq(R) /\ \A f \in R : FrameOK(f)
  BY <1>1 DEF FilesInv, SenderOK
<1>3. PICK Q : toSender \in Seq(Q)
  BY <1>1 DEF PlansOK
<1>4. /\ \A f : Elems(Append(toReceiver, f)) = Elems(toReceiver) \cup {f}
      /\ toReceiver # <<>> =>
           /\ Head(toReceiver) \in Elems(toReceiver)
           /\ Elems(Tail(toReceiver)) \subseteq Elems(toReceiver)
      /\ Elems(<<>>) = {}
      /\ \A i \in DOMAIN toReceiver :
           Elems(Without(toReceiver, i)) \subseteq Elems(toReceiver)
  BY <1>2, ElemsOf
<1>5. /\ \A f : Elems(Append(toSender, f)) = Elems(toSender) \cup {f}
      /\ toSender # <<>> => Elems(Tail(toSender)) \subseteq Elems(toSender)
      /\ \A i \in DOMAIN toSender :
           Elems(Without(toSender, i)) \subseteq Elems(toSender)
  BY <1>3, ElemsOf
<1>6. /\ toSender # <<>> => \E T : Tail(toSender) \in Seq(T)
      /\ \A f : \E T : Append(toSender, f) \in Seq(T)
      /\ \A i \in DOMAIN toSender : \E T : Without(toSender, i) \in Seq(T)
  BY <1>3, FramesKept
<1>7. \A m \in Manifests : Finished(m) => Finished(m)'
  BY FinishedStays
<1>8. ASSUME run' = run, planned' = planned,
             pc' \in {"announced", "polling"} \cup Streaming => planned \in Manifests,
             \A f \in Elems(toReceiver') :
               f \in Elems(toReceiver) \/ Asked(f, run, planned),
             \E T : toSender' \in Seq(T),
             \A f \in Elems(toSender') :
               f \in Elems(toSender) \/ ReplyOK(f, run, planned)
      PROVE  PlansOK'
  <2>1. \A f \in Elems(toReceiver') : Asked(f, run, planned)'
    BY <1>1, <1>8 DEF Asked
  <2>2. ASSUME NEW f \in Elems(toSender') PROVE ReplyOK(f, run, planned)'
    <3>1. ReplyOK(f, run, planned)
      BY <1>1, <1>8, <2>2
    <3> QED
      BY <1>7, <1>8, <3>1 DEF ReplyOK, Complete
  <2> QED
    BY <1>1, <1>8, <2>1, <2>2 DEF PlansOK, Elems
<1>9. CASE Start
  <2>1. /\ run' = run + 1 /\ planned' = NoManifest /\ pc' = "build"
        /\ UNCHANGED <<toReceiver, toSender>>
    BY <1>9 DEF Start
  <2>2. ASSUME NEW f \in Elems(toReceiver) PROVE Asked(f, run, planned)'
    <3>1. Asked(f, run, planned)
      BY <1>1, <2>2
    <3> QED
      BY <1>1, <2>1, <3>1 DEF Asked
  <2>3. ASSUME NEW f \in Elems(toSender) PROVE ReplyOK(f, run, planned)'
    <3>1. ReplyOK(f, run, planned)
      BY <1>1, <2>3
    <3> QED
      BY <1>1, <2>1, <3>1 DEF ReplyOK
  <2> QED
    BY <1>3, <2>1, <2>2, <2>3 DEF PlansOK, Elems
<1>10. CASE ReadSource
  <2> DEFINE m == [content |-> source, total_size |-> size]
  <2>1. m \in Manifests /\ UNCHANGED <<run, toSender>>
    BY <1>1, <1>10 DEF ReadSource, FilesInv, SenderOK, Sizes, Manifests
  <2>2. CASE /\ planned = NoManifest /\ planned' = m /\ pc' = "build"
             /\ UNCHANGED toReceiver
    <3>1. ASSUME NEW f \in Elems(toReceiver) PROVE Asked(f, run, planned)'
      <4>1. Asked(f, run, planned)
        BY <1>1, <3>1
      <4> QED
        BY <2>1, <2>2, <4>1, NoneAssumption DEF Asked
    <3>2. ASSUME NEW f \in Elems(toSender) PROVE ReplyOK(f, run, planned)'
      <4>1. ReplyOK(f, run, planned)
        BY <1>1, <3>2
      <4> QED
        BY <2>1, <2>2, <4>1, NoneAssumption DEF ReplyOK
    <3> HIDE DEF m
    <3> QED
      BY <1>3, <2>1, <2>2, <3>1, <3>2 DEF PlansOK, Elems
  <2>3. CASE /\ planned # NoManifest /\ UNCHANGED planned
             /\ toReceiver' = Append(toReceiver, Announce(run, m))
    <3>1. Asked(Announce(run, m), run, planned)
      BY DEF Asked, Announce
    <3> HIDE DEF m
    <3> QED
      BY <1>1, <1>3, <1>4, <1>8, <2>1, <2>3, <3>1
  <2> QED
    BY <1>10, <2>2, <2>3 DEF ReadSource
<1>11. CASE Poll
  <2>1. Asked(StatusRequest(run, planned), run, planned)
    BY <1>1, <1>11 DEF Asked, StatusRequest, Poll
  <2> QED
    BY <1>1, <1>3, <1>4, <1>8, <1>11, <2>1 DEF Poll
<1>12. CASE StreamChunk
  <2>1. \A k : Asked(Chunk(target, k), run, planned)
    BY DEF Asked, Chunk
  <2> QED
    BY <1>1, <1>3, <1>4, <1>8, <1>12, <2>1 DEF StreamChunk
<1>13. CASE TakeReply
  <2>1. /\ toSender # <<>> /\ toSender' = Tail(toSender)
        /\ pc \in {"announced", "polling"}
        /\ UNCHANGED <<run, planned, toReceiver>>
    BY <1>13 DEF TakeReply, Awaited
  <2> QED
    BY <1>1, <1>5, <1>6, <1>8, <2>1
<1>14. CASE IgnoreReply
  BY <1>1, <1>5, <1>6, <1>8, <1>14 DEF IgnoreReply
<1>15. CASE HandleAnnounce
  <2>1. PICK f : /\ f.kind \in {"accept", "error"}
                 /\ toSender' = Append(toSender, f)
    BY <1>15 DEF HandleAnnounce, Reply
  <2>2. ReplyOK(f, run, planned)
    BY <2>1 DEF ReplyOK
  <2>3. /\ toReceiver # <<>> /\ toReceiver' = Tail(toReceiver)
        /\ UNCHANGED <<run, planned, pc>>
    BY <1>15 DEF HandleAnnounce, Takes
  <2>4. \A g \in Elems(toReceiver') : g \in Elems(toReceiver)
    BY <1>4, <2>3
  <2>5. \A g \in Elems(toSender') : g \in Elems(toSender) \/ ReplyOK(g, run, planned)
    BY <1>5, <2>1, <2>2
  <2>6. \E T : toSender' \in Seq(T)
    BY <1>6, <2>1
  <2> QED
    BY <1>1, <1>8, <2>3, <2>4, <2>5, <2>6
<1>16. CASE HandleStatus
  <2> DEFINE f == Head(toReceiver)
             v == verified[f.manifest]
             a == IF v = NoState THEN Reply(f.run, "error", {})
                  ELSE Reply(f.run, "state", v)
  <2>1. /\ f \in Elems(toReceiver) /\ f.kind = "status" /\ step = "idle"
        /\ toReceiver # <<>> /\ toReceiver' = Tail(toReceiver)
        /\ toSender' = Append(toSender, a)
        /\ UNCHANGED <<run, planned, pc>>
    BY <1>4, <1>16 DEF HandleStatus, Takes
  <2>2. f.run \in 0 .. run /\ (f.run = run => f.manifest = planned /\ planned \in Manifests)
    BY <1>1, <2>1 DEF Asked
  <2>3. \A m \in Manifests : Done(m) => Finished(m)
    BY <1>1, <2>1 DEF StoredOK, Assembling, Finished
  <2> HIDE DEF f
  <2>4. ReplyOK(a, run, planned)
    <3>1. a.kind = "state" => a.run = f.run /\ a.data = v
      BY DEF Reply
    <3> QED
      BY <2>2, <2>3, <3>1 DEF ReplyOK, Done
  <2> HIDE DEF v, a
  <2>5. \A g \in Elems(toReceiver') : g \in Elems(toReceiver)
    BY <1>4, <2>1
  <2>6. \A g \in Elems(toSender') : g \in Elems(toSender) \/ ReplyOK(g, run, planned)
    BY <1>5, <2>1, <2>4
  <2>7. \E T : toSender' \in Seq(T)
    BY <1>6, <2>1
  <2> QED
    BY <1>1, <1>8, <2>1, <2>5, <2>6, <2>7
<1>17. CASE HandleChunk
  BY <1>1, <1>3, <1>4, <1>8, <1>17 DEF HandleChunk, Takes
<1>18. CASE Lose
  <2>1. /\ UNCHANGED <<run, planned, pc>>
        /\ \/ \E i \in DOMAIN toReceiver :
                toReceiver' = Without(toReceiver, i) /\ UNCHANGED toSender
           \/ \E i \in DOMAIN toSender :
                toSender' = Without(toSender, i) /\ UNCHANGED toReceiver
    BY <1>18 DEF Lose
  <2> QED
    BY <1>1, <1>3, <1>4, <1>5, <1>6, <1>8, <2>1
<1>19. CASE Alter
  <2>1. PICK i \in DOMAIN toReceiver :
               /\ toReceiver[i].kind \in {"announce", "chunk"}
               /\ toReceiver' = [toReceiver EXCEPT ![i].intact = FALSE]
    BY <1>19 DEF Alter
  <2> DEFINE g == [toReceiver[i] EXCEPT !.intact = FALSE]
  <2>2. DOMAIN toReceiver' = DOMAIN toReceiver /\ toReceiver'[i] = g
        /\ \A j \in DOMAIN toReceiver : j # i => toReceiver'[j] = toReceiver[j]
    BY <1>2, <2>1
  <2>3. g.kind \in {"announce", "chunk"}
    <3>1. "kind" \in DOMAIN toReceiver[i]
      BY <1>2 DEF FrameOK
    <3> QED
      BY <2>1, <3>1
  <2>4. Asked(g, run, planned)
    BY <2>3 DEF Asked
  <2> HIDE DEF g
  <2>5. \A f \in Elems(toReceiver') : f \in Elems(toReceiver) \/ f = g
    BY <2>2 DEF Elems
  <2>6. UNCHANGED <<run, planned, pc, toSender>>
    BY <1>19 DEF Alter
  <2> QED
    BY <1>1, <1>3, <1>8, <2>4, <2>5, <2>6
<1>20. CASE Crash
  BY <1>1, <1>3, <1>4, <1>8, <1>20 DEF Crash
<1>21. CASE \/ OpenSource \/ Expire \/ RecordChunk \/ CreateFile \/ WriteFile
            \/ (\E v \in Versions : EditSource(v)) \/ Kill \/ IoError
            \/ UNCHANGED vars
  <2>1. /\ UNCHANGED <<run, planned, toReceiver, toSender>>
        /\ pc' = pc \/ pc' \in {"read", "killed"}
    BY <1>21 DEF OpenSource, Expire, RecordChunk, CreateFile, WriteFile, EditSource,
      Kill, IoError, vars
  <2> QED
    BY <1>1, <1>3, <1>8, <2>1
<1> QED
  BY <1>9, <1>10, <1>11, <1>12, <1>13, <1>14, <1>15, <1>16, <1>17, <1>18, <1>19,
     <1>20, <1>21
  DEF FilesNext, SenderStep, ReceiverStep

\* As StoredInv is inductive, and a set that is complete has all its chunks on
\* disk: Complete is sent, the output file finished and a transfer reported
\* complete only when every chunk of that manifest is there; and a reported
\* transfer has left its file behind unless the receiver failed meanwhile.
THEOREM CompleteStored == FilesSpec => []CompleteIsStored
<1>1. FilesInit => StoredInv
  BY FilesAssumption, NoneAssumption, InitInv, StoredInit DEF StoredInv
<1>2. StoredInv /\ [FilesNext]_vars => StoredInv'
  <2> SUFFICES ASSUME StoredInv, [FilesNext]_vars PROVE StoredInv'
    OBVIOUS
  <2>0. FilesInv
    BY DEF StoredInv
  <2>1. FilesInv'
    BY <2>0, FilesAssumption, NoneAssumption, NextInv
  <2>2. PlansOK'
    BY FilesAssumption, NoneAssumption, PlansNext
  <2>3. StoredOK'
    BY FilesAssumption, NoneAssumption, StoredNext
  <2> QED
    BY <2>1, <2>2, <2>3 DEF StoredInv
<1>3. StoredInv => CompleteIsStored
  <2> SUFFICES ASSUME StoredInv PROVE CompleteIsStored
    OBVIOUS
  <2>1. /\ confirmed \cup told \subseteq Manifests
        /\ \A m \in confirmed \cup told \cup {n \in Manifests : out[n] = "full"} : Done(m)
        /\ \A m \in told : faults = 0 => out[m] = "full"
    BY DEF StoredInv, StoredOK, Finished
  <2>2. \A m \in Manifests : Done(m) => \A k \in Indices(m) : cached[m][k] = "good"
    BY FilesAssumption, DoneHasAll DEF StoredInv
  <2> QED
    BY <2>1, <2>2 DEF CompleteIsStored
<1> QED
  BY <1>1, <1>2, <1>3, PTL DEF FilesSpec

(***************************************************************************)
(* The types: a run is announced and accepted once                         *)
(***************************************************************************)
Opens(f, kind, r) == f.kind = kind /\ f.run = r

\* At most one frame of q opens run r; none does.
Once(q, kind, r) ==
  \A i, j \in DOMAIN q : Opens(q[i], kind, r) /\ Opens(q[j], kind, r) => i = j

Free(q, kind, r) == \A i \in DOMAIN q : ~Opens(q[i], kind, r)

\* What is in w comes from different places of q.
LEMMA OnceFrom ==
  ASSUME NEW q, NEW w, NEW kind, NEW r, NEW o \in [DOMAIN w -> DOMAIN q],
         \A i, j \in DOMAIN w : o[i] = o[j] => i = j,
         \A i \in DOMAIN w : Opens(w[i], kind, r) => Opens(q[o[i]], kind, r)
  PROVE  /\ Once(q, kind, r) => Once(w, kind, r)
         /\ Free(q, kind, r) => Free(w, kind, r)
BY DEF Once, Free

LEMMA OnceTail ==
  ASSUME NEW S, NEW q \in Seq(S), q # <<>>, NEW kind, NEW r
  PROVE  /\ Once(q, kind, r) => Once(Tail(q), kind, r)
         /\ Free(q, kind, r) => Free(Tail(q), kind, r)
         /\ Once(q, kind, r) /\ Opens(Head(q), kind, r) => Free(Tail(q), kind, r)
<1>1. /\ Len(q) \in Nat /\ DOMAIN q = 1 .. Len(q) /\ Head(q) = q[1] /\ 1 \in DOMAIN q
      /\ DOMAIN Tail(q) = 1 .. Len(q) - 1
      /\ \A i \in 1 .. Len(q) - 1 : Tail(q)[i] = q[i + 1]
  OBVIOUS
<1> DEFINE o == [i \in DOMAIN Tail(q) |-> i + 1]
<1>2. o \in [DOMAIN Tail(q) -> DOMAIN q] /\ \A i \in DOMAIN Tail(q) : o[i] = i + 1
  BY <1>1
<1>3. \A i, j \in DOMAIN Tail(q) : o[i] = o[j] => i = j
  BY <1>1, <1>2
<1>4. \A i \in DOMAIN Tail(q) : Tail(q)[i] = q[o[i]] /\ o[i] # 1
  BY <1>1, <1>2
<1> HIDE DEF o
<1>5. \A i \in DOMAIN Tail(q) : Opens(Tail(q)[i], kind, r) => Opens(q[o[i]], kind, r)
  BY <1>4
<1>6. /\ Once(q, kind, r) => Once(Tail(q), kind, r)
      /\ Free(q, kind, r) => Free(Tail(q), kind, r)
  BY <1>2, <1>3, <1>5, OnceFrom
<1>7. Once(q, kind, r) /\ Opens(Head(q), kind, r) => Free(Tail(q), kind, r)
  BY <1>1, <1>2, <1>4 DEF Once, Free
<1> QED
  BY <1>6, <1>7

LEMMA OnceAppend ==
  ASSUME NEW S, NEW q \in Seq(S), NEW f, NEW kind, NEW r
  PROVE  /\ Free(q, kind, r) => Once(Append(q, f), kind, r)
         /\ ~Opens(f, kind, r) /\ Once(q, kind, r) => Once(Append(q, f), kind, r)
         /\ ~Opens(f, kind, r) /\ Free(q, kind, r) => Free(Append(q, f), kind, r)
<1> DEFINE w == Append(q, f)
<1>1. /\ Len(q) \in Nat /\ DOMAIN q = 1 .. Len(q) /\ DOMAIN w = 1 .. Len(q) + 1
      /\ w[Len(q) + 1] = f
      /\ \A i \in 1 .. Len(q) : w[i] = q[i]
  OBVIOUS
<1> HIDE DEF w
<1>2. ASSUME NEW i \in DOMAIN w
      PROVE  \/ i \in DOMAIN q /\ w[i] = q[i]
             \/ i = Len(q) + 1 /\ w[i] = f
  <2>1. i \in 1 .. Len(q) \/ i = Len(q) + 1
    BY <1>1, <1>2
  <2> QED
    BY <1>1, <2>1
<1>3. /\ Free(q, kind, r) => Once(w, kind, r)
      /\ ~Opens(f, kind, r) /\ Once(q, kind, r) => Once(w, kind, r)
      /\ ~Opens(f, kind, r) /\ Free(q, kind, r) => Free(w, kind, r)
  BY <1>2 DEF Once, Free
<1> QED
  BY <1>3 DEF w

\* Without leaves out one place and moves those behind it up.
LEMMA WithoutAt ==
  ASSUME NEW S, NEW q \in Seq(S), NEW i \in DOMAIN q
  PROVE  \A j \in DOMAIN Without(q, i) :
           /\ j \in Nat
           /\ j < i => j \in DOMAIN q /\ Without(q, i)[j] = q[j]
           /\ ~(j < i) => j + 1 \in DOMAIN q /\ Without(q, i)[j] = q[j + 1]
<1> DEFINE a == SubSeq(q, 1, i - 1)
           b == SubSeq(q, i + 1, Len(q))
           n == Len(q)
<1>1. n \in Nat /\ DOMAIN q = 1 .. n /\ i \in 1 .. n
  OBVIOUS
<1>2. a \in Seq(S) /\ Len(a) = i - 1 /\ \A j \in 1 .. i - 1 : a[j] = q[j]
  OBVIOUS
<1>3. b \in Seq(S) /\ Len(b) = n - i /\ \A j \in 1 .. n - i : b[j] = q[i + j]
  <2>1. b \in Seq(S) /\ Len(b) = n - i
    BY <1>1
  <2>2. /\ i + 1 \in 1 .. Len(q) + 1 /\ Len(q) \in (i + 1) - 1 .. Len(q)
    BY <1>1
  <2>3. \A j \in 1 .. Len(q) - (i + 1) + 1 : b[j] = q[(i + 1) + j - 1]
    BY <2>2, SubSeqProperties
  <2> HIDE DEF b, n
  <2>4. n - (i + 1) + 1 = n - i /\ \A j \in 1 .. n - i : (i + 1) + j - 1 = i + j
    BY <1>1
  <2>5. \A j \in 1 .. n - i : b[j] = q[(i + 1) + j - 1]
    BY <2>3, <2>4 DEF n
  <2> QED
    BY <2>1, <2>4, <2>5
<1> HIDE DEF a, b, n
<1>4. /\ Len(a \o b) = Len(a) + Len(b) /\ DOMAIN (a \o b) = 1 .. Len(a) + Len(b)
      /\ \A j \in 1 .. Len(a) + Len(b) :
           (a \o b)[j] = IF j <= Len(a) THEN a[j] ELSE b[j - Len(a)]
  <2>1. a \o b \in Seq(S) /\ Len(a \o b) = Len(a) + Len(b)
    BY <1>2, <1>3, ConcatProperties
  <2>2. DOMAIN (a \o b) = 1 .. Len(a) + Len(b)
    BY <2>1
  <2> QED
    BY <1>2, <1>3, <2>1, <2>2, ConcatProperties
<1>5. PICK w : w = a \o b
  OBVIOUS
<1>6. /\ DOMAIN w = 1 .. n - 1
      /\ \A j \in 1 .. n - 1 : w[j] = IF j <= i - 1 THEN a[j] ELSE b[j - (i - 1)]
  <2>1. Len(a) + Len(b) = n - 1
    BY <1>1, <1>2, <1>3
  <2> QED
    BY <1>2, <1>4, <1>5, <2>1
<1>7. ASSUME NEW j \in 1 .. n - 1
      PROVE  /\ j < i => j \in 1 .. n /\ w[j] = q[j]
             /\ ~(j < i) => j + 1 \in 1 .. n /\ w[j] = q[j + 1]
  <2>1. CASE j < i
    <3>1. j <= i - 1 /\ j \in 1 .. i - 1 /\ j \in 1 .. n
      BY <1>1, <1>7, <2>1
    <3> QED
      BY <1>2, <1>6, <2>1, <3>1
  <2>2. CASE ~(j < i)
    <3>1. /\ ~(j <= i - 1) /\ j - (i - 1) \in 1 .. n - i
          /\ i + (j - (i - 1)) = j + 1 /\ j + 1 \in 1 .. n
      BY <1>1, <1>7, <2>2
    <3>2. w[j] = b[j - (i - 1)]
      BY <1>6, <3>1
    <3>3. b[j - (i - 1)] = q[i + (j - (i - 1))]
      BY <1>3, <3>1
    <3> QED
      BY <2>2, <3>1, <3>2, <3>3
  <2> QED
    BY <2>1, <2>2
<1>8. Without(q, i) = w
  BY <1>5 DEF Without, a, b, n
<1> QED
  BY <1>1, <1>6, <1>7, <1>8

LEMMA OnceWithout ==
  ASSUME NEW S, NEW q \in Seq(S), NEW i \in DOMAIN q, NEW kind, NEW r
  PROVE  /\ Once(q, kind, r) => Once(Without(q, i), kind, r)
         /\ Free(q, kind, r) => Free(Without(q, i), kind, r)
<1>0. PICK w : w = Without(q, i)
  OBVIOUS
<1>1. \A j \in DOMAIN w :
        /\ j \in Nat
        /\ j < i => j \in DOMAIN q /\ w[j] = q[j]
        /\ ~(j < i) => j + 1 \in DOMAIN q /\ w[j] = q[j + 1]
  BY <1>0, WithoutAt
<1>2. i \in Nat
  OBVIOUS
<1> DEFINE o == [j \in DOMAIN w |-> IF j < i THEN j ELSE j + 1]
<1>3. /\ o \in [DOMAIN w -> DOMAIN q]
      /\ \A j \in DOMAIN w : o[j] = IF j < i THEN j ELSE j + 1
  BY <1>1
<1> HIDE DEF o
<1>4. \A j, k \in DOMAIN w : o[j] = o[k] => j = k
  BY <1>1, <1>2, <1>3
<1>5. \A j \in DOMAIN w : Opens(w[j], kind, r) => Opens(q[o[j]], kind, r)
  BY <1>1, <1>3
<1> QED
  BY <1>0, <1>3, <1>4, <1>5, OnceFrom


\* Before a run announces its manifest, and once its announcement was answered,
\* no announcement of it and no answer to one is under way.
Answered == Streaming \cup {"build", "read", "polling"}

OpensOnce ==
  /\ \A f \in Elems(toReceiver) : f.kind = "announce" => f.run \in 0 .. run
  /\ \A f \in Elems(toSender) : f.kind = "accept" => f.run \in 0 .. run
  /\ Once(toReceiver, "announce", run) /\ Once(toSender, "accept", run)
  /\ Free(toReceiver, "announce", run) \/ Free(toSender, "accept", run)
  /\ pc \in Answered =>
       Free(toReceiver, "announce", run) /\ Free(toSender, "accept", run)
  /\ pc = "announced" =>
       /\ \A f \in Elems(toReceiver) :
            Opens(f, "announce", run) => f.manifest = target
       /\ \A f \in Elems(toSender) :
            Opens(f, "accept", run) => f.data \subseteq Indices(target)

\* The status is asked for after that.
NotAsked ==
  pc \in {"build", "read", "announced"} =>
    /\ \A f \in Elems(toReceiver) : ~Opens(f, "status", run)
    /\ \A f \in Elems(toSender) : ~Opens(f, "state", run)

\* What is left to stream are chunks of the target.
TargetOK ==
  /\ target \in Manifests \cup {NoManifest}
  /\ pc \in {"announced", "polling"} \cup Streaming => target \in Manifests
  /\ pc \in {"build", "read", "announced"} => queue = {}
  /\ queue # {} => target \in Manifests /\ queue \subseteq Indices(target)

PlainTypes ==
  /\ pc \in Pcs
  /\ run \in 0 .. MaxRuns
  /\ size \in Nat
  /\ expired \in BOOLEAN
  /\ \A m \in Manifests : out[m] \in {"absent", "partial", "full"}
  /\ step \in Steps
  /\ step # "idle" =>
       arrived[1] \in Manifests /\ arrived[2] \in Indices(arrived[1])

TypedInv == StoredInv /\ OpensOnce /\ NotAsked /\ TargetOK /\ PlainTypes

LEMMA TypedInit ==
  ASSUME FilesAssumption, NoneAssumption, FilesInit
  PROVE  OpensOnce /\ NotAsked /\ TargetOK /\ PlainTypes
<1>1. OpensOnce
  BY DEF FilesInit, OpensOnce, Elems, Once, Free, Answered, Streaming
<1>2. NotAsked /\ TargetOK
  BY DEF FilesInit, NotAsked, TargetOK, Elems, Streaming
<1>3. PlainTypes
  <2>1. 0 \in 0 .. MaxRuns
    BY DEF FilesAssumption
  <2> QED
    BY <2>1 DEF FilesInit, PlainTypes, Pcs, Ended, Steps
<1> QED
  BY <1>1, <1>2, <1>3

\* A run announces once, the receiver answers an announcement once, and an
\* answer that is awaited is about the manifest that was announced.
LEMMA OpensNext ==
  ASSUME FilesAssumption, NoneAssumption, TypedInv, [FilesNext]_vars
  PROVE  OpensOnce'
<1> USE DEF sender, wire, disk, task, bounds
<1>0. OpensOnce /\ NotAsked /\ TargetOK /\ run \in Nat
  BY DEF TypedInv, StoredInv, FilesInv, SenderOK
<1>1. PICK R : toReceiver \in Seq(R) /\ \A f \in R : FrameOK(f)
  BY DEF TypedInv, StoredInv, FilesInv, SenderOK
<1>2. PICK Q : toSender \in Seq(Q)
  BY DEF TypedInv, StoredInv, PlansOK
<1>3. /\ \A f : Elems(Append(toReceiver, f)) = Elems(toReceiver) \cup {f}
      /\ toReceiver # <<>> =>
           /\ Head(toReceiver) \in Elems(toReceiver)
           /\ Elems(Tail(toReceiver)) \subseteq Elems(toReceiver)
      /\ Elems(<<>>) = {}
      /\ \A i \in DOMAIN toReceiver :
           Elems(Without(toReceiver, i)) \subseteq Elems(toReceiver)
  BY <1>1, ElemsOf
<1>4. /\ \A f : Elems(Append(toSender, f)) = Elems(toSender) \cup {f}
      /\ toSender # <<>> =>
           /\ Head(toSender) \in Elems(toSender)
           /\ Elems(Tail(toSender)) \subseteq Elems(toSender)
      /\ \A i \in DOMAIN toSender :
           Elems(Without(toSender, i)) \subseteq Elems(toSender)
  BY <1>2, ElemsOf
\* From a queue to what is left of it.
<1> DEFINE LikeReceived(q) ==
  /\ Once(toReceiver, "announce", run) => Once(q, "announce", run)
  /\ Free(toReceiver, "announce", run) => Free(q, "announce", run)
<1> DEFINE LikeSent(q) ==
  /\ Once(toSender, "accept", run) => Once(q, "accept", run)
  /\ Free(toSender, "accept", run) => Free(q, "accept", run)
<1>5. /\ LikeReceived(toReceiver)
      /\ LikeReceived(<<>>)
      /\ toReceiver # <<>> => LikeReceived(Tail(toReceiver))
      /\ \A f : f.kind # "announce" => LikeReceived(Append(toReceiver, f))
      /\ \A i \in DOMAIN toReceiver : LikeReceived(Without(toReceiver, i))
  <2>1. LikeReceived(<<>>)
    BY DEF Once, Free
  <2>2. toReceiver # <<>> => LikeReceived(Tail(toReceiver))
    BY <1>1, OnceTail
  <2>3. ASSUME NEW f, f.kind # "announce" PROVE LikeReceived(Append(toReceiver, f))
    <3>1. ~Opens(f, "announce", run)
      BY <2>3 DEF Opens
    <3> QED
      BY <1>1, <3>1, OnceAppend
  <2>4. ASSUME NEW i \in DOMAIN toReceiver PROVE LikeReceived(Without(toReceiver, i))
    BY <1>1, OnceWithout
  <2> HIDE DEF LikeReceived
  <2>5. LikeReceived(toReceiver)
    BY DEF LikeReceived
  <2> QED
    BY <2>1, <2>2, <2>3, <2>4, <2>5
<1>6. /\ LikeSent(toSender)
      /\ toSender # <<>> => LikeSent(Tail(toSender))
      /\ \A f : f.kind # "accept" => LikeSent(Append(toSender, f))
      /\ \A i \in DOMAIN toSender : LikeSent(Without(toSender, i))
  <2>1. toSender # <<>> => LikeSent(Tail(toSender))
    BY <1>2, OnceTail
  <2>2. ASSUME NEW f, f.kind # "accept" PROVE LikeSent(Append(toSender, f))
    <3>1. ~Opens(f, "accept", run)
      BY <2>2 DEF Opens
    <3> QED
      BY <1>2, <3>1, OnceAppend
  <2>3. ASSUME NEW i \in DOMAIN toSender PROVE LikeSent(Without(toSender, i))
    BY <1>2, OnceWithout
  <2> HIDE DEF LikeSent
  <2>4. LikeSent(toSender)
    BY DEF LikeSent
  <2> QED
    BY <2>1, <2>2, <2>3, <2>4
<1>7. ASSUME run' = run,
             pc' \in Answered => pc \in Answered,
             pc' = "announced" => pc = "announced" /\ target' = target,
             LikeReceived(toReceiver'), LikeSent(toSender'),
             \A f \in Elems(toReceiver') : f.kind = "announce" =>
               \E g \in Elems(toReceiver) : /\ g.kind = "announce"
                                            /\ g.run = f.run
                                            /\ g.manifest = f.manifest,
             \A f \in Elems(toSender') : f.kind = "accept" => f \in Elems(toSender)
      PROVE  OpensOnce'
  <2>1. /\ \A f \in Elems(toReceiver') : f.kind = "announce" => f.run \in 0 .. run
        /\ \A f \in Elems(toSender') : f.kind = "accept" => f.run \in 0 .. run
    BY <1>0, <1>7 DEF OpensOnce
  <2>2. /\ Once(toReceiver', "announce", run) /\ Once(toSender', "accept", run)
        /\ Free(toReceiver', "announce", run) \/ Free(toSender', "accept", run)
        /\ pc' \in Answered =>
             Free(toReceiver', "announce", run) /\ Free(toSender', "accept", run)
    BY <1>0, <1>7 DEF OpensOnce
  <2>3. pc' = "announced" =>
          /\ \A f \in Elems(toReceiver') : Opens(f, "announce", run) => f.manifest = target'
          /\ \A f \in Elems(toSender') :
               Opens(f, "accept", run) => f.data \subseteq Indices(target')
    BY <1>0, <1>7 DEF OpensOnce, Opens
  <2> QED
    BY <1>7, <2>1, <2>2, <2>3 DEF OpensOnce, Answered, Elems, Opens, Once, Free, Indices
<1> HIDE DEF LikeReceived, LikeSent
<1>8. \A f \in Elems(toReceiver) : \E g \in Elems(toReceiver) :
        g.kind = f.kind /\ g.run = f.run /\ g.manifest = f.manifest
  OBVIOUS
<1>9. CASE Start
  <2>1. /\ run' = run + 1 /\ pc' = "build"
        /\ UNCHANGED <<toReceiver, toSender>>
    BY <1>9 DEF Start
  <2>2. /\ \A f \in Elems(toReceiver) :
             f.kind = "announce" => f.run \in 0 .. run + 1 /\ f.run # run + 1
        /\ \A f \in Elems(toSender) :
             f.kind = "accept" => f.run \in 0 .. run + 1 /\ f.run # run + 1
    BY <1>0 DEF OpensOnce
  <2>3. /\ Free(toReceiver, "announce", run + 1)
        /\ Free(toSender, "accept", run + 1)
    BY <2>2 DEF Free, Opens, Elems
  <2>4. Once(toReceiver, "announce", run + 1) /\ Once(toSender, "accept", run + 1)
    BY <2>3 DEF Free, Once
  <2> QED
    BY <2>1, <2>2, <2>3, <2>4 DEF OpensOnce, Elems, Free, Once, Opens
<1>10. CASE ReadSource
  <2> DEFINE m == [content |-> source, total_size |-> size]
             f == Announce(run, m)
  <2>1. UNCHANGED <<run, toSender>> /\ pc = "read"
    BY <1>10 DEF ReadSource
  <2>2. CASE pc' = "build" /\ UNCHANGED <<target, toReceiver>>
    BY <1>5, <1>6, <1>7, <1>8, <2>1, <2>2 DEF Answered
  <2>3. CASE pc' = "announced" /\ target' = m /\ toReceiver' = Append(toReceiver, f)
    <3>1. f.kind = "announce" /\ f.run = run /\ f.manifest = m
      BY DEF Announce
    <3> HIDE DEF f, m
    <3>2. Free(toReceiver, "announce", run) /\ Free(toSender, "accept", run)
      BY <1>0, <2>1 DEF OpensOnce, Answered
    <3>3. Once(toReceiver', "announce", run)
      BY <1>1, <2>3, <3>2, OnceAppend
    <3>4. \A g \in Elems(toReceiver') : g \in Elems(toReceiver) \/ g = f
      BY <1>3, <2>3
    <3>5. \A g \in Elems(toReceiver) : ~Opens(g, "announce", run)
      BY <3>2 DEF Free, Elems
    <3>6. \A g \in Elems(toSender) : ~Opens(g, "accept", run)
      BY <3>2 DEF Free, Elems
    <3>7. \A g \in Elems(toReceiver') :
            /\ g.kind = "announce" => g.run \in 0 .. run
            /\ Opens(g, "announce", run) => g.manifest = m
      BY <1>0, <3>1, <3>4, <3>5 DEF OpensOnce
    <3>8. Once(toSender, "accept", run)
      BY <1>0 DEF OpensOnce
    <3>9. \A g \in Elems(toSender) : g.kind = "accept" => g.run \in 0 .. run
      BY <1>0 DEF OpensOnce
    <3> QED
      BY <2>1, <2>3, <3>2, <3>3, <3>6, <3>7, <3>8, <3>9
      DEF OpensOnce, Answered, Streaming, Once, Free, Opens, Elems, Indices
  <2> QED
    BY <1>10, <2>2, <2>3 DEF ReadSource
<1>11. CASE TakeReply
  <2>1. /\ toSender # <<>> /\ toSender' = Tail(toSender)
        /\ Head(toSender).run = run /\ pc \in {"announced", "polling"}
        /\ UNCHANGED <<run, toReceiver>>
    BY <1>11 DEF TakeReply, Awaited
  <2>2. /\ LikeReceived(toReceiver') /\ LikeSent(toSender')
        /\ \A f \in Elems(toSender') : f \in Elems(toSender)
    BY <1>4, <1>5, <1>6, <2>1
  <2>3. CASE pc' = "failed"
    BY <1>7, <1>8, <2>1, <2>2, <2>3 DEF Answered, Streaming
  <2>4. CASE Head(toSender).kind = "state"
    <3>1. Opens(Head(toSender), "state", run) /\ Head(toSender) \in Elems(toSender)
      BY <1>4, <2>1, <2>4 DEF Opens
    <3>2. pc = "polling"
      BY <1>0, <2>1, <3>1 DEF NotAsked
    <3>3. pc' \in {"done", "resending", "failed", "streaming"}
      BY <1>11 DEF TakeReply
    <3> QED
      BY <1>7, <1>8, <2>1, <2>2, <3>2, <3>3 DEF Answered, Streaming
  <2>5. CASE Head(toSender).kind = "accept" /\ pc' = "streaming"
    <3>1. Opens(Head(toSender), "accept", run) /\ Head(toSender) \in Elems(toSender)
      BY <1>4, <2>1, <2>5 DEF Opens
    <3>2. ~Free(toSender, "accept", run)
      BY <3>1 DEF Free, Elems
    <3>3. Free(toReceiver', "announce", run)
      BY <1>0, <2>1, <3>2 DEF OpensOnce
    <3>4. Free(toSender', "accept", run)
      BY <1>0, <1>2, <2>1, <3>1, OnceTail DEF OpensOnce
    <3>5. Once(toReceiver', "announce", run) /\ Once(toSender', "accept", run)
      BY <3>3, <3>4 DEF Free, Once
    <3>6. /\ \A g \in Elems(toReceiver') : g.kind = "announce" => g.run \in 0 .. run
          /\ \A g \in Elems(toSender') : g.kind = "accept" => g.run \in 0 .. run
      BY <1>0, <2>1, <2>2 DEF OpensOnce
    <3> QED
      BY <2>1, <2>5, <3>3, <3>4, <3>5, <3>6
      DEF OpensOnce, Answered, Streaming, Once, Free, Opens, Elems
  <2> QED
    BY <1>11, <2>3, <2>4, <2>5 DEF TakeReply
<1>12. CASE HandleAnnounce
  <2> DEFINE f == Head(toReceiver)
             m == f.manifest
  <2>1. /\ toReceiver # <<>> /\ toReceiver' = Tail(toReceiver)
        /\ f.kind = "announce" /\ f \in Elems(toReceiver)
        /\ UNCHANGED <<run, pc, target>>
    BY <1>3, <1>12 DEF HandleAnnounce, Takes
  <2>2. \A g \in Elems(toReceiver') : g \in Elems(toReceiver)
    BY <1>3, <2>1
  <2>3. LikeReceived(toReceiver')
    BY <1>5, <2>1
  <2>4. PICK a : /\ toSender' = Append(toSender, a)
                 /\ a.run = f.run
                 /\ a.kind = "accept" => a.data = Missing(m, verified[m])
    <3>1. \/ toSender' = Append(toSender, Reply(f.run, "error", {}))
          \/ toSender' = Append(toSender, Reply(f.run, "accept", Missing(m, verified[m])))
      BY <1>12 DEF HandleAnnounce
    <3> HIDE DEF f, m
    <3>2. \A k, d : /\ Reply(f.run, k, d).run = f.run /\ Reply(f.run, k, d).kind = k
                    /\ Reply(f.run, k, d).data = d
      BY DEF Reply
    <3> QED
      BY <3>1, <3>2
  <2>5. \A g \in Elems(toSender') : g \in Elems(toSender) \/ g = a
    BY <1>4, <2>4
  <2> HIDE DEF f
  <2>6. CASE ~Opens(a, "accept", run)
    <3>1. LikeSent(toSender')
      BY <1>2, <2>4, <2>6, OnceAppend DEF LikeSent
    <3>2. f.run \in 0 .. run
      BY <1>0, <2>1 DEF OpensOnce
    <3>3. \A g \in Elems(toSender') : g.kind = "accept" => g.run \in 0 .. run
      BY <1>0, <2>4, <2>5, <3>2 DEF OpensOnce
    <3>4. \A g \in Elems(toReceiver') : g.kind = "announce" => g.run \in 0 .. run
      BY <1>0, <2>2 DEF OpensOnce
    <3>5. /\ Once(toReceiver', "announce", run) /\ Once(toSender', "accept", run)
          /\ Free(toReceiver', "announce", run) \/ Free(toSender', "accept", run)
          /\ pc \in Answered =>
               Free(toReceiver', "announce", run) /\ Free(toSender', "accept", run)
      BY <1>0, <2>3, <3>1 DEF OpensOnce, LikeReceived, LikeSent
    <3>6. pc = "announced" =>
            /\ \A g \in Elems(toReceiver') : Opens(g, "announce", run) => g.manifest = target
            /\ \A g \in Elems(toSender') :
                 Opens(g, "accept", run) => g.data \subseteq Indices(target)
      BY <1>0, <2>2, <2>5, <2>6 DEF OpensOnce
    <3> QED
      BY <2>1, <3>3, <3>4, <3>5, <3>6
      DEF OpensOnce, Answered, Streaming, Once, Free, Opens, Elems, Indices
  <2>7. CASE Opens(a, "accept", run)
    <3>1. Opens(f, "announce", run) /\ a.data \subseteq Indices(m)
      BY <2>1, <2>4, <2>7 DEF Opens, Missing
    <3>2. ~Free(toReceiver, "announce", run)
      BY <2>1, <3>1 DEF Free, Elems
    <3>3. Free(toReceiver', "announce", run)
      BY <1>0, <1>1, <2>1, <3>1, OnceTail DEF OpensOnce, f
    <3>4. pc \notin Answered /\ Free(toSender, "accept", run)
      BY <1>0, <3>2 DEF OpensOnce
    <3>5. Once(toReceiver', "announce", run) /\ Once(toSender', "accept", run)
      <4>1. Once(toReceiver', "announce", run)
        BY <3>3 DEF Free, Once
      <4> QED
        BY <1>2, <2>4, <3>4, <4>1, OnceAppend
    <3>6. /\ \A g \in Elems(toReceiver') : g.kind = "announce" => g.run \in 0 .. run
          /\ \A g \in Elems(toSender') : g.kind = "accept" => g.run \in 0 .. run
      <4>1. f.run \in 0 .. run
        BY <1>0, <2>1 DEF OpensOnce
      <4> QED
        BY <1>0, <2>2, <2>4, <2>5, <4>1 DEF OpensOnce
    <3>7. pc = "announced" =>
            /\ \A g \in Elems(toReceiver') : Opens(g, "announce", run) => g.manifest = target
            /\ \A g \in Elems(toSender') :
                 Opens(g, "accept", run) => g.data \subseteq Indices(target)
      <4>1. ASSUME pc = "announced"
            PROVE  m = target
        BY <1>0, <2>1, <3>1, <4>1 DEF OpensOnce
      <4>2. \A g \in Elems(toSender) : ~Opens(g, "accept", run)
        BY <3>4 DEF Free, Elems
      <4> QED
        BY <1>0, <2>2, <2>5, <3>1, <4>1, <4>2 DEF OpensOnce
    <3> QED
      BY <2>1, <3>3, <3>4, <3>5, <3>6, <3>7
      DEF OpensOnce, Answered, Streaming, Once, Free, Opens, Elems, Indices
  <2> QED
    BY <2>6, <2>7
<1>13. CASE HandleStatus
  <2>1. PICK a : toSender' = Append(toSender, a) /\ a.kind # "accept"
    BY <1>13 DEF HandleStatus, Reply
  <2>2. /\ toReceiver # <<>> /\ toReceiver' = Tail(toReceiver)
        /\ UNCHANGED <<run, pc, target>>
    BY <1>13 DEF HandleStatus, Takes
  <2>3. /\ LikeReceived(toReceiver') /\ LikeSent(toSender')
        /\ \A f \in Elems(toReceiver') : f \in Elems(toReceiver)
        /\ \A f \in Elems(toSender') : f.kind = "accept" => f \in Elems(toSender)
    BY <1>3, <1>4, <1>5, <1>6, <2>1, <2>2
  <2> QED
    BY <1>7, <1>8, <2>2, <2>3
<1>14. CASE HandleChunk
  <2>1. /\ toReceiver # <<>> /\ toReceiver' = Tail(toReceiver)
        /\ UNCHANGED <<run, pc, target, toSender>>
    BY <1>14 DEF HandleChunk, Takes
  <2>2. /\ LikeReceived(toReceiver') /\ LikeSent(toSender')
        /\ \A f \in Elems(toReceiver') : f \in Elems(toReceiver)
    BY <1>3, <1>5, <1>6, <2>1
  <2> QED
    BY <1>7, <1>8, <2>1, <2>2
<1>15. CASE StreamChunk \/ Poll
  <2>1. PICK a : /\ a.kind # "announce"
                 /\ toReceiver' = Append(toReceiver, a)
                 /\ pc \in Streaming /\ pc' \in {pc, "polling"}
                 /\ UNCHANGED <<run, target, toSender>>
    BY <1>15 DEF StreamChunk, Poll, Chunk, StatusRequest
  <2>2. /\ LikeReceived(toReceiver') /\ LikeSent(toSender')
        /\ \A f \in Elems(toReceiver') : f.kind = "announce" => f \in Elems(toReceiver)
    BY <1>3, <1>5, <1>6, <2>1
  <2> QED
    BY <1>7, <1>8, <2>1, <2>2 DEF Answered, Streaming
<1>16. CASE IgnoreReply
  <2>1. /\ toSender # <<>> /\ toSender' = Tail(toSender)
        /\ UNCHANGED <<run, pc, target, toReceiver>>
    BY <1>16 DEF IgnoreReply
  <2>2. /\ LikeReceived(toReceiver') /\ LikeSent(toSender')
        /\ \A f \in Elems(toSender') : f \in Elems(toSender)
    BY <1>4, <1>5, <1>6, <2>1
  <2> QED
    BY <1>7, <1>8, <2>1, <2>2
<1>17. CASE Lose
  <2>1. /\ UNCHANGED <<run, pc, target>>
        /\ \/ \E i \in DOMAIN toReceiver :
                toReceiver' = Without(toReceiver, i) /\ UNCHANGED toSender
           \/ \E i \in DOMAIN toSender :
                toSender' = Without(toSender, i) /\ UNCHANGED toReceiver
    BY <1>17 DEF Lose
  <2>2. /\ LikeReceived(toReceiver') /\ LikeSent(toSender')
        /\ \A f \in Elems(toReceiver') : f \in Elems(toReceiver)
        /\ \A f \in Elems(toSender') : f \in Elems(toSender)
    BY <1>3, <1>4, <1>5, <1>6, <2>1
  <2> QED
    BY <1>7, <1>8, <2>1, <2>2
<1>18. CASE Alter
  <2>1. PICK i \in DOMAIN toReceiver :
               /\ toReceiver[i].kind \in {"announce", "chunk"}
               /\ toReceiver' = [toReceiver EXCEPT ![i].intact = FALSE]
    BY <1>18 DEF Alter
  <2> DEFINE f == toReceiver[i]
             g == [f EXCEPT !.intact = FALSE]
  <2>2. DOMAIN toReceiver' = DOMAIN toReceiver /\ toReceiver'[i] = g
        /\ \A j \in DOMAIN toReceiver : j # i => toReceiver'[j] = toReceiver[j]
    BY <1>1, <2>1
  <2>3. g.kind = f.kind /\ (f.kind = "announce" => g.run = f.run /\ g.manifest = f.manifest)
    <3>1. FrameOK(f)
      BY <1>1
    <3> HIDE DEF f
    <3> QED
      BY <3>1 DEF FrameOK, Announcements
  <2> HIDE DEF f, g
  <2>4. \A j \in DOMAIN toReceiver :
          /\ toReceiver'[j].kind = toReceiver[j].kind
          /\ toReceiver[j].kind = "announce" =>
               /\ toReceiver'[j].run = toReceiver[j].run
               /\ toReceiver'[j].manifest = toReceiver[j].manifest
    BY <2>2, <2>3 DEF f
  <2>5. LikeReceived(toReceiver')
    BY <2>2, <2>4 DEF LikeReceived, Once, Free, Opens
  <2>6. \A h \in Elems(toReceiver') : h.kind = "announce" =>
          \E e \in Elems(toReceiver) : /\ e.kind = "announce"
                                       /\ e.run = h.run
                                       /\ e.manifest = h.manifest
    BY <2>2, <2>4 DEF Elems
  <2>7. UNCHANGED <<run, pc, target, toSender>>
    BY <1>18 DEF Alter
  <2> QED
    BY <1>6, <1>7, <2>5, <2>6, <2>7
<1>19. CASE Crash
  BY <1>3, <1>5, <1>6, <1>7, <1>19 DEF Crash
<1>20. CASE \/ OpenSource \/ Expire \/ RecordChunk \/ CreateFile \/ WriteFile
            \/ (\E v \in Versions : EditSource(v)) \/ Kill \/ IoError
            \/ UNCHANGED vars
  <2>1. /\ UNCHANGED <<run, target, toReceiver, toSender>>
        /\ pc' = pc \/ (pc = "build" /\ pc' = "read") \/ pc' = "killed"
    BY <1>20 DEF OpenSource, Expire, RecordChunk, CreateFile, WriteFile, EditSource,
      Kill, IoError, vars
  <2> QED
    BY <1>5, <1>6, <1>7, <1>8, <2>1 DEF Answered, Streaming
<1> QED
  BY <1>9, <1>10, <1>11, <1>12, <1>13, <1>14, <1>15, <1>16, <1>17, <1>18, <1>19,
     <1>20
  DEF FilesNext, SenderStep, ReceiverStep

LEMMA AskedNext ==
  ASSUME FilesAssumption, NoneAssumption, TypedInv, [FilesNext]_vars
  PROVE  NotAsked'
<1> USE DEF sender, wire, disk, task, bounds
<1>0. /\ NotAsked /\ run \in Nat
      /\ \A f \in Elems(toReceiver) : Asked(f, run, planned)
      /\ \A f \in Elems(toSender) : ReplyOK(f, run, planned)
  BY DEF TypedInv, StoredInv, FilesInv, SenderOK, PlansOK
<1>1. PICK R : toReceiver \in Seq(R) /\ \A f \in R : FrameOK(f)
  BY DEF TypedInv, StoredInv, FilesInv, SenderOK
<1>2. PICK Q : toSender \in Seq(Q)
  BY DEF TypedInv, StoredInv, PlansOK
<1>3. /\ \A f : Elems(Append(toReceiver, f)) = Elems(toReceiver) \cup {f}
      /\ toReceiver # <<>> =>
           /\ Head(toReceiver) \in Elems(toReceiver)
           /\ Elems(Tail(toReceiver)) \subseteq Elems(toReceiver)
      /\ Elems(<<>>) = {}
      /\ \A i \in DOMAIN toReceiver :
           Elems(Without(toReceiver, i)) \subseteq Elems(toReceiver)
  BY <1>1, ElemsOf
<1>4. /\ \A f : Elems(Append(toSender, f)) = Elems(toSender) \cup {f}
      /\ toSender # <<>> => Elems(Tail(toSender)) \subseteq Elems(toSender)
      /\ \A i \in DOMAIN toSender :
           Elems(Without(toSender, i)) \subseteq Elems(toSender)
  BY <1>2, ElemsOf
<1>5. ASSUME run' = run,
             pc' \in {"build", "read", "announced"} => pc \in {"build", "read", "announced"},
             \A f \in Elems(toReceiver') :
               pc' # "polling" => f \in Elems(toReceiver) \/ f.kind # "status",
             \A f \in Elems(toSender') :
               \/ f \in Elems(toSender)
               \/ f.kind # "state"
               \/ \E g \in Elems(toReceiver) : g.kind = "status" /\ g.run = f.run
      PROVE  NotAsked'
  <2>1. ASSUME pc' \in {"build", "read", "announced"}
        PROVE  /\ \A f \in Elems(toReceiver') : ~Opens(f, "status", run)
               /\ \A f \in Elems(toSender') : ~Opens(f, "state", run)
    BY <1>0, <1>5, <2>1 DEF NotAsked, Opens
  <2> QED
    BY <1>5, <2>1 DEF NotAsked, Elems, Opens
<1>6. CASE Start
  <2>1. run' = run + 1 /\ UNCHANGED <<toReceiver, toSender>>
    BY <1>6 DEF Start
  <2>2. /\ \A f \in Elems(toReceiver) : ~Opens(f, "status", run + 1)
        /\ \A f \in Elems(toSender) : ~Opens(f, "state", run + 1)
    BY <1>0 DEF Asked, ReplyOK, Opens
  <2> QED
    BY <2>1, <2>2 DEF NotAsked, Elems, Opens
<1>7. CASE ReadSource
  <2>1. PICK a : /\ a.kind # "status"
                 /\ toReceiver' = toReceiver \/ toReceiver' = Append(toReceiver, a)
                 /\ pc = "read" /\ UNCHANGED <<run, toSender>>
    BY <1>7 DEF ReadSource, Announce
  <2>2. ASSUME NEW f \in Elems(toReceiver')
        PROVE  f \in Elems(toReceiver) \/ f.kind # "status"
    <3>1. CASE toReceiver' = toReceiver
      BY <2>2, <3>1
    <3>2. CASE toReceiver' = Append(toReceiver, a)
      <4>1. f \in Elems(toReceiver) \cup {a}
        BY <1>3, <2>2, <3>2
      <4> QED
        BY <2>1, <4>1
    <3> QED
      BY <2>1, <3>1, <3>2
  <2> QED
    BY <1>5, <2>1, <2>2
<1>8. CASE StreamChunk
  <2>1. PICK a : /\ a.kind # "status" /\ toReceiver' = Append(toReceiver, a)
                 /\ UNCHANGED <<run, pc, toSender>>
    BY <1>8 DEF StreamChunk, Chunk
  <2> QED
    BY <1>3, <1>5, <2>1
<1>9. CASE Poll
  <2>1. pc' = "polling" /\ UNCHANGED <<run, toSender>>
    BY <1>9 DEF Poll
  <2> QED
    BY <1>5, <2>1
<1>10. CASE TakeReply
  <2>1. /\ toSender # <<>> /\ toSender' = Tail(toSender)
        /\ pc' \in {"failed", "streaming", "done", "resending"}
        /\ UNCHANGED <<run, toReceiver>>
    BY <1>10 DEF TakeReply
  <2> QED
    BY <1>4, <1>5, <2>1
<1>11. CASE IgnoreReply
  BY <1>4, <1>5, <1>11 DEF IgnoreReply
<1>12. CASE HandleAnnounce
  <2>1. PICK a : a.kind # "state" /\ toSender' = Append(toSender, a)
    BY <1>12 DEF HandleAnnounce, Reply
  <2>2. /\ toReceiver # <<>> /\ toReceiver' = Tail(toReceiver)
        /\ UNCHANGED <<run, pc>>
    BY <1>12 DEF HandleAnnounce, Takes
  <2>3. /\ \A f \in Elems(toReceiver') : f \in Elems(toReceiver)
        /\ \A f \in Elems(toSender') : f \in Elems(toSender) \/ f.kind # "state"
    BY <1>3, <1>4, <2>1, <2>2
  <2> QED
    BY <1>5, <2>2, <2>3
<1>13. CASE HandleStatus
  <2> DEFINE f == Head(toReceiver)
  <2>1. PICK a : toSender' = Append(toSender, a) /\ a.run = f.run
    <3>1. \/ toSender' = Append(toSender, Reply(f.run, "error", {}))
          \/ toSender' = Append(toSender, Reply(f.run, "state", verified[f.manifest]))
      BY <1>13 DEF HandleStatus
    <3> HIDE DEF f
    <3>2. \A k, d : Reply(f.run, k, d).run = f.run
      BY DEF Reply
    <3> QED
      BY <3>1, <3>2
  <2>2. /\ toReceiver # <<>> /\ toReceiver' = Tail(toReceiver)
        /\ f \in Elems(toReceiver) /\ f.kind = "status"
        /\ UNCHANGED <<run, pc>>
    BY <1>3, <1>13 DEF HandleStatus, Takes
  <2> HIDE DEF f
  <2>3. /\ \A g \in Elems(toReceiver') : g \in Elems(toReceiver)
        /\ \A g \in Elems(toSender') : g \in Elems(toSender) \/ g.run = f.run
    BY <1>3, <1>4, <2>1, <2>2
  <2> QED
    BY <1>5, <2>2, <2>3
<1>14. CASE HandleChunk
  <2>1. /\ toReceiver # <<>> /\ toReceiver' = Tail(toReceiver)
        /\ UNCHANGED <<run, pc, toSender>>
    BY <1>14 DEF HandleChunk, Takes
  <2> QED
    BY <1>3, <1>5, <2>1
<1>15. CASE Lose
  <2>1. /\ UNCHANGED <<run, pc>>
        /\ \/ \E i \in DOMAIN toReceiver :
                toReceiver' = Without(toReceiver, i) /\ UNCHANGED toSender
           \/ \E i \in DOMAIN toSender :
                toSender' = Without(toSender, i) /\ UNCHANGED toReceiver
    BY <1>15 DEF Lose
  <2>2. /\ \A f \in Elems(toReceiver') : f \in Elems(toReceiver)
        /\ \A f \in Elems(toSender') : f \in Elems(toSender)
    BY <1>3, <1>4, <2>1
  <2> QED
    BY <1>5, <2>1, <2>2
<1>16. CASE Alter
  <2>1. PICK i \in DOMAIN toReceiver :
               /\ toReceiver[i].kind \in {"announce", "chunk"}
               /\ toReceiver' = [toReceiver EXCEPT ![i].intact = FALSE]
    BY <1>16 DEF Alter
  <2> DEFINE g == [toReceiver[i] EXCEPT !.intact = FALSE]
  <2>2. DOMAIN toReceiver' = DOMAIN toReceiver /\ toReceiver'[i] = g
        /\ \A j \in DOMAIN toReceiver : j # i => toReceiver'[j] = toReceiver[j]
    BY <1>1, <2>1
  <2>3. g.kind \in {"announce", "chunk"}
    <3>1. "kind" \in DOMAIN toReceiver[i]
      BY <1>1 DEF FrameOK
    <3> QED
      BY <2>1, <3>1
  <2> HIDE DEF g
  <2>4. \A f \in Elems(toReceiver') : f \in Elems(toReceiver) \/ f.kind # "status"
    BY <2>2, <2>3 DEF Elems
  <2>5. UNCHANGED <<run, pc, toSender>>
    BY <1>16 DEF Alter
  <2> QED
    BY <1>5, <2>4, <2>5
<1>17. CASE Crash
  BY <1>3, <1>5, <1>17 DEF Crash
<1>18. CASE \/ OpenSource \/ Expire \/ RecordChunk \/ CreateFile \/ WriteFile
            \/ (\E v \in Versions : EditSource(v)) \/ Kill \/ IoError
            \/ UNCHANGED vars
  <2>1. /\ UNCHANGED <<run, toReceiver, toSender>>
        /\ pc' = pc \/ (pc = "build" /\ pc' = "read") \/ pc' = "killed"
    BY <1>18 DEF OpenSource, Expire, RecordChunk, CreateFile, WriteFile, EditSource,
      Kill, IoError, vars
  <2> QED
    BY <1>5, <2>1
<1> QED
  BY <1>6, <1>7, <1>8, <1>9, <1>10, <1>11, <1>12, <1>13, <1>14, <1>15, <1>16,
     <1>17, <1>18
  DEF FilesNext, SenderStep, ReceiverStep

\* An awaited Accept lists chunks of the target; an awaited Status is about the
\* manifest that is polled.
LEMMA TargetNext ==
  ASSUME FilesAssumption, NoneAssumption, TypedInv, [FilesNext]_vars
  PROVE  TargetOK'
<1> USE DEF sender, wire, disk, task, bounds, Streaming
<1>1. /\ TargetOK /\ OpensOnce /\ FilesInv /\ PlansOK
  BY DEF TypedInv, StoredInv
<1>2. CASE Start
  BY <1>2 DEF Start, TargetOK
<1>3. CASE ReadSource
  <2> DEFINE m == [content |-> source, total_size |-> size]
  <2>1. m \in Manifests
    BY <1>1, <1>3 DEF ReadSource, FilesInv, SenderOK, Sizes, Manifests
  <2>2. /\ queue = {} /\ queue' = {}
        /\ \/ pc' = "build" /\ target' = target
           \/ pc' = "announced" /\ target' = m
    BY <1>1, <1>3 DEF ReadSource, TargetOK
  <2> HIDE DEF m
  <2> QED
    BY <1>1, <2>1, <2>2 DEF TargetOK
<1>4. CASE TakeReply
  <2> DEFINE f == Head(toSender)
  <2>1. /\ f.run = run /\ pc \in {"announced", "polling"} /\ f \in Elems(toSender)
    BY <1>1, <1>4, ElemsOf DEF TakeReply, Awaited, PlansOK
  <2>2. CASE pc' = "failed" /\ UNCHANGED <<target, queue>>
    BY <1>1, <2>2 DEF TargetOK
  <2>3. CASE f.kind = "accept" /\ pc' = "streaming" /\ target' = target
             /\ queue' = Need(target, f.data)
    <3>1. pc = "announced"
      <4>1. ~Free(toSender, "accept", run)
        BY <2>1, <2>3 DEF Free, Elems, Opens
      <4> QED
        BY <1>1, <2>1, <4>1 DEF OpensOnce, Answered
    <3>2. f.data \subseteq Indices(target)
      BY <1>1, <2>1, <2>3, <3>1 DEF OpensOnce, Opens
    <3>3. target \in Manifests
      BY <1>1, <3>1 DEF TargetOK
    <3> HIDE DEF f
    <3>4. queue' \subseteq Indices(target)
      BY <2>3, <3>2 DEF Need
    <3> QED
      BY <2>3, <3>3, <3>4 DEF TargetOK, Indices
  <2>4. CASE target' = planned /\ queue' = Missing(planned, f.data)
             /\ pc' \in {"done", "resending"}
    <3>1. planned \in Manifests
      BY <1>1, <2>1 DEF PlansOK
    <3>2. queue' \subseteq Indices(planned)
      BY <2>4 DEF Missing
    <3> QED
      BY <2>4, <3>1, <3>2 DEF TargetOK, Indices
  <2> QED
    BY <1>4, <2>2, <2>3, <2>4 DEF TakeReply
<1>5. CASE StreamChunk
  <2>1. UNCHANGED <<pc, target>> /\ queue' \subseteq queue /\ pc \in Streaming
    BY <1>5 DEF StreamChunk
  <2> QED
    BY <1>1, <2>1 DEF TargetOK, Indices
<1>6. CASE \/ OpenSource \/ IgnoreReply \/ Poll \/ Expire \/ ReceiverStep
           \/ (\E v \in Versions : EditSource(v)) \/ Kill \/ Lose \/ Alter
           \/ IoError \/ Crash \/ UNCHANGED vars
  <2>1. /\ UNCHANGED <<target, queue>>
        /\ \/ pc' = pc
           \/ pc = "build" /\ pc' = "read"
           \/ pc \in Streaming /\ pc' = "polling"
           \/ pc' = "killed"
    BY <1>6 DEF OpenSource, IgnoreReply, Poll, Expire, ReceiverStep, HandleAnnounce,
      HandleStatus, HandleChunk, RecordChunk, CreateFile, WriteFile, EditSource,
      Kill, Lose, Alter, IoError, Crash, vars
  <2> QED
    BY <1>1, <2>1 DEF TargetOK, Indices
<1> QED
  BY <1>2, <1>3, <1>4, <1>5, <1>6 DEF FilesNext, SenderStep

LEMMA PlainNext ==
  ASSUME FilesAssumption, NoneAssumption, TypedInv, [FilesNext]_vars
  PROVE  PlainTypes'
<1> USE DEF sender, wire, disk, task, bounds
<1>1. /\ PlainTypes /\ FilesInv /\ StoredOK
      /\ MaxRuns \in Nat /\ \A v \in Versions : FileSize[v] \in Nat
  BY DEF TypedInv, StoredInv, FilesAssumption
<1>2. pc' \in Pcs
  BY <1>1 DEF PlainTypes, Pcs, Ended, Streaming, FilesNext, Start, SenderStep,
    OpenSource, ReadSource, IgnoreReply, TakeReply, StreamChunk, Poll, Expire,
    ReceiverStep, HandleAnnounce, HandleStatus, HandleChunk, RecordChunk,
    CreateFile, WriteFile, EditSource, Kill, Lose, Alter, IoError, Crash, vars
<1>3. run' = run \/ (run < MaxRuns /\ run' = run + 1)
  BY DEF FilesNext, Start, SenderStep, OpenSource, ReadSource, IgnoreReply,
    TakeReply, StreamChunk, Poll, Expire, ReceiverStep, HandleAnnounce,
    HandleStatus, HandleChunk, RecordChunk, CreateFile, WriteFile, EditSource,
    Kill, Lose, Alter, IoError, Crash, vars
<1>4. run' \in 0 .. MaxRuns
  BY <1>1, <1>3 DEF PlainTypes
<1>5. size' = size \/ size' = FileSize[source]
  BY DEF FilesNext, Start, SenderStep, OpenSource, ReadSource, IgnoreReply,
    TakeReply, StreamChunk, Poll, Expire, ReceiverStep, HandleAnnounce,
    HandleStatus, HandleChunk, RecordChunk, CreateFile, WriteFile, EditSource,
    Kill, Lose, Alter, IoError, Crash, vars
<1>6. size' \in Nat
  BY <1>1, <1>5 DEF PlainTypes, FilesInv, SenderOK
<1>7. expired' = expired \/ expired' \in {TRUE, FALSE}
  BY DEF FilesNext, Start, SenderStep, OpenSource, ReadSource, IgnoreReply,
    TakeReply, StreamChunk, Poll, Expire, ReceiverStep, HandleAnnounce,
    HandleStatus, HandleChunk, RecordChunk, CreateFile, WriteFile, EditSource,
    Kill, Lose, Alter, IoError, Crash, vars
<1>8. expired' \in BOOLEAN
  BY <1>1, <1>7 DEF PlainTypes
<1>9. \A m \in Manifests : out'[m] \in {"absent", "partial", "full"}
  <2>1. \/ out' = out
        \/ \E n : \/ out' = [out EXCEPT ![n] = "partial"]
                  \/ out' = [out EXCEPT ![n] = "full"]
                  \/ out' = [out EXCEPT ![n] = out[n]]
    <3>1. WriteFile => \/ out' = [out EXCEPT ![arrived[1]] = "full"]
                       \/ out' = [out EXCEPT ![arrived[1]] = out[arrived[1]]]
      BY DEF WriteFile
    <3>2. CreateFile => out' = [out EXCEPT ![arrived[1]] = "partial"]
      BY DEF CreateFile
    <3>3. ~WriteFile /\ ~CreateFile => out' = out
      BY DEF FilesNext, Start, SenderStep, OpenSource, ReadSource, IgnoreReply,
        TakeReply, StreamChunk, Poll, Expire, ReceiverStep, HandleAnnounce,
        HandleStatus, HandleChunk, RecordChunk, EditSource, Kill, Lose, Alter,
        IoError, Crash, vars
    <3> QED
      BY <3>1, <3>2, <3>3
  <2>2. out = [m \in Manifests |-> out[m]]
    BY <1>1 DEF StoredOK
  <2> QED
    BY <1>1, <2>1, <2>2 DEF PlainTypes
<1>10. step' \in Steps /\ (step' # "idle" =>
         arrived'[1] \in Manifests /\ arrived'[2] \in Indices(arrived'[1]))
  <2>1. CASE HandleChunk
    <3> DEFINE f == Head(toReceiver)
    <3>1. CASE UNCHANGED <<step, arrived>>
      BY <1>1, <3>1 DEF PlainTypes
    <3>2. CASE /\ f.manifest \in received /\ VerifyChunk(f)
               /\ step' = "cached" /\ arrived' = <<f.manifest, f.index>>
      <4>1. f.manifest \in Manifests /\ f.index \in Indices(f.manifest)
        BY <1>1, <3>2 DEF FilesInv, DiskOK, VerifyChunk
      <4> HIDE DEF f
      <4> QED
        BY <3>2, <4>1 DEF Steps
    <3> QED
      BY <2>1, <3>1, <3>2 DEF HandleChunk
  <2>2. ~HandleChunk => \/ UNCHANGED <<step, arrived>>
                        \/ step' = "idle"
                        \/ step # "idle" /\ step' \in Steps /\ arrived' = arrived
    BY DEF FilesNext, Start, SenderStep, OpenSource, ReadSource, IgnoreReply,
      TakeReply, StreamChunk, Poll, Expire, ReceiverStep, HandleAnnounce,
      HandleStatus, RecordChunk, CreateFile, WriteFile, EditSource, Kill, Lose,
      Alter, IoError, Crash, Steps, vars
  <2> QED
    BY <1>1, <2>1, <2>2 DEF PlainTypes, Steps
<1> QED
  BY <1>2, <1>4, <1>6, <1>8, <1>9, <1>10 DEF PlainTypes, Indices

\* Every variable has its type.  What the sender still has to stream are chunks
\* of the manifest it streams: the answer to its announcement comes once, before
\* anything else is answered, and lists chunks of what was announced.
THEOREM FilesTypeCorrect == FilesSpec => []FilesTypeOK
<1>1. FilesInit => TypedInv
  BY FilesAssumption, NoneAssumption, InitInv, StoredInit, TypedInit
  DEF TypedInv, StoredInv
<1>2. TypedInv /\ [FilesNext]_vars => TypedInv'
  <2> SUFFICES ASSUME TypedInv, [FilesNext]_vars PROVE TypedInv'
    OBVIOUS
  <2>1. StoredInv
    BY DEF TypedInv
  <2>2. FilesInv
    BY <2>1 DEF StoredInv
  <2>3. FilesInv'
    BY <2>2, FilesAssumption, NoneAssumption, NextInv
  <2>4. PlansOK' /\ StoredOK'
    BY <2>1, FilesAssumption, NoneAssumption, PlansNext, StoredNext
  <2>5. OpensOnce' /\ NotAsked'
    BY FilesAssumption, NoneAssumption, OpensNext, AskedNext
  <2>6. TargetOK' /\ PlainTypes'
    BY FilesAssumption, NoneAssumption, TargetNext, PlainNext
  <2> QED
    BY <2>3, <2>4, <2>5, <2>6 DEF TypedInv, StoredInv
<1>3. TypedInv => FilesTypeOK
  <2> SUFFICES ASSUME TypedInv PROVE FilesTypeOK
    OBVIOUS
  <2>1. /\ source \in Versions /\ received \subseteq Manifests
        /\ \A m \in Manifests :
             /\ cached[m] \in [Indices(m) -> {"absent", "good", "bad"}]
             /\ verified[m] # NoState => verified[m] \in Seq(Indices(m))
    BY DEF TypedInv, StoredInv, FilesInv, SenderOK, DiskOK
  <2>2. /\ {planned, target} \subseteq Manifests \cup {NoManifest}
        /\ queue # {} => target \in Manifests /\ queue \subseteq Indices(target)
        /\ confirmed \subseteq Manifests /\ told \subseteq Manifests
    BY DEF TypedInv, StoredInv, PlansOK, StoredOK, TargetOK
  <2>3. PlainTypes
    BY DEF TypedInv
  <2> QED
    BY <2>1, <2>2, <2>3 DEF FilesTypeOK, PlainTypes
<1> QED
  BY <1>1, <1>2, <1>3, PTL DEF FilesSpec
=============================================================================
