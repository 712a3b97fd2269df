---------------------------- MODULE RouterProofs ----------------------------
(***************************************************************************)
(* Proofs, for every set of identities, channels and messages and every    *)
(* capacity, of the safety properties of Router.  RouterInv is inductive:  *)
(* queues and channels are ordered because the message under way is the    *)
(* newest (StampsOK), and the inbox-before-queue order rests on            *)
(* RegisteredNotQueued, which in turn rests on what the walk of send has   *)
(* already ruled out (WalkOK).                                             *)
(***************************************************************************)
EXTENDS Router, TLAPS, SequenceTheorems

(***************************************************************************)
(* Sequences                                                               *)
(***************************************************************************)
\* push_back adds one element at the end.
LEMMA AppendFacts ==
  ASSUME NEW S, NEW s \in Seq(S), NEW e \in S
  PROVE  /\ Append(s, e) \in Seq(S)
         /\ Len(Append(s, e)) = Len(s) + 1
         /\ Elems(Append(s, e)) = Elems(s) \cup {e}
<1>1. /\ Append(s, e) \in Seq(S)
      /\ Len(Append(s, e)) = Len(s) + 1
      /\ Append(s, e)[Len(s) + 1] = e
      /\ \A k \in 1 .. Len(s) : Append(s, e)[k] = s[k]
      /\ DOMAIN s = 1 .. Len(s)
      /\ DOMAIN Append(s, e) = 1 .. Len(s) + 1
      /\ Len(s) \in Nat
  OBVIOUS
<1>2. Elems(Append(s, e)) \subseteq Elems(s) \cup {e}
  BY <1>1 DEF Elems
<1>3. Elems(s) \subseteq Elems(Append(s, e))
  BY <1>1 DEF Elems
<1>4. e \in Elems(Append(s, e))
  <2>1. Len(s) + 1 \in DOMAIN Append(s, e)
    BY <1>1
  <2> QED
    BY <1>1, <2>1 DEF Elems
<1> QED
  BY <1>1, <1>2, <1>3, <1>4

\* Appending something newer keeps a sequence increasing.
LEMMA AppendIncreasing ==
  ASSUME NEW S, NEW f \in [S -> Nat], NEW s \in Seq(S), NEW e \in S,
         Increasing(f, s), \A x \in Elems(s) : f[x] < f[e]
  PROVE  Increasing(f, Append(s, e))
<1> SUFFICES ASSUME NEW j \in DOMAIN Append(s, e),
                    NEW k \in DOMAIN Append(s, e), j < k
             PROVE  f[Append(s, e)[j]] < f[Append(s, e)[k]]
  BY DEF Increasing
<1>1. j \in DOMAIN s /\ Append(s, e)[j] = s[j]
  OBVIOUS
<1>2. CASE k \in DOMAIN s
  BY <1>1, <1>2 DEF Increasing
<1>3. CASE k \notin DOMAIN s
  <2>1. Append(s, e)[k] = e
    BY <1>3
  <2>2. s[j] \in Elems(s)
    BY <1>1 DEF Elems
  <2> QED
    BY <1>1, <2>1, <2>2
<1> QED
  BY <1>2, <1>3

\* pop_front takes the oldest element off an increasing sequence.
LEMMA TailFacts ==
  ASSUME NEW S, NEW f \in [S -> Nat], NEW s \in Seq(S), s # <<>>,
         Increasing(f, s)
  PROVE  /\ Tail(s) \in Seq(S)
         /\ Head(s) \in Elems(s)
         /\ Len(Tail(s)) = Len(s) - 1
         /\ Elems(Tail(s)) = Elems(s) \ {Head(s)}
         /\ Increasing(f, Tail(s))
         /\ \A x \in Elems(Tail(s)) : f[Head(s)] < f[x]
<1>1. /\ Tail(s) \in Seq(S)
      /\ Head(s) = s[1]
      /\ Len(s) \in Nat \ {0}
      /\ Len(Tail(s)) = Len(s) - 1
      /\ DOMAIN s = 1 .. Len(s)
      /\ DOMAIN Tail(s) = 1 .. Len(s) - 1
      /\ \A k \in 1 .. Len(s) - 1 : Tail(s)[k] = s[k + 1]
  OBVIOUS
<1>2. \A x \in Elems(Tail(s)) : f[Head(s)] < f[x]
  <2> SUFFICES ASSUME NEW k \in DOMAIN Tail(s)
               PROVE  f[s[1]] < f[Tail(s)[k]]
    BY <1>1 DEF Elems
  <2>1. 1 \in DOMAIN s /\ k + 1 \in DOMAIN s /\ 1 < k + 1
    BY <1>1
  <2> QED
    BY <1>1, <2>1 DEF Increasing
<1>3. Head(s) \in Elems(s)
  <2>1. 1 \in DOMAIN s
    BY <1>1
  <2> QED
    BY <1>1, <2>1 DEF Elems
<1>4. Elems(Tail(s)) = Elems(s) \ {Head(s)}
  <2>1. ASSUME NEW x \in Elems(Tail(s)) PROVE x \in Elems(s) /\ x # Head(s)
    <3>1. PICK k \in DOMAIN Tail(s) : x = Tail(s)[k]
      BY <2>1 DEF Elems
    <3>2. k + 1 \in DOMAIN s /\ x = s[k + 1]
      BY <1>1, <3>1
    <3>3. x \in Elems(s)
      BY <3>2 DEF Elems
    <3>4. x \in S /\ Head(s) \in S
      BY <1>1, <3>2
    <3>5. f[x] \in Nat /\ f[Head(s)] \in Nat /\ f[Head(s)] < f[x]
      BY <1>2, <2>1, <3>4
    <3> QED
      BY <3>3, <3>5
  <2>2. ASSUME NEW x \in Elems(s), x # Head(s) PROVE x \in Elems(Tail(s))
    <3>1. PICK k \in DOMAIN s : x = s[k]
      BY <2>2 DEF Elems
    <3>2. k - 1 \in DOMAIN Tail(s) /\ Tail(s)[k - 1] = x
      BY <1>1, <2>2, <3>1
    <3> QED
      BY <3>2 DEF Elems
  <2> QED
    BY <2>1, <2>2
<1>5. Increasing(f, Tail(s))
  <2> SUFFICES ASSUME NEW j \in DOMAIN Tail(s), NEW k \in DOMAIN Tail(s), j < k
               PROVE  f[Tail(s)[j]] < f[Tail(s)[k]]
    BY DEF Increasing
  <2>1. j + 1 \in DOMAIN s /\ k + 1 \in DOMAIN s /\ j + 1 < k + 1
    BY <1>1
  <2> QED
    BY <1>1, <2>1 DEF Increasing
<1> QED
  BY <1>1, <1>2, <1>3, <1>4, <1>5

\* OfflineQueue::push keeps a bounded increasing queue bounded and increasing,
\* keeps the new message, and drops at most the oldest one.
LEMMA PushFacts ==
  ASSUME RouterAssumption, NEW f \in [Messages -> Nat],
         NEW q \in Seq(Messages), NEW m \in Messages,
         Increasing(f, q), Len(q) <= Capacity,
         \A x \in Elems(q) : f[x] < f[m]
  PROVE  /\ Push(q, m) \in Seq(Messages)
         /\ Len(Push(q, m)) <= Capacity
         /\ Increasing(f, Push(q, m))
         /\ m \in Elems(Push(q, m))
         /\ Elems(Push(q, m)) \subseteq Elems(q) \cup {m}
         /\ \A x \in Elems(Push(q, m)) :
              \A y \in (Elems(q) \cup {m}) \ Elems(Push(q, m)) : f[y] < f[x]
<1> DEFINE a == Append(q, m)
<1>1. /\ a \in Seq(Messages)
      /\ Len(a) = Len(q) + 1
      /\ Elems(a) = Elems(q) \cup {m}
  BY AppendFacts
<1>2. Increasing(f, a)
  BY AppendIncreasing
<1>3. Len(q) \in Nat /\ Capacity \in Nat \ {0} /\ a # <<>>
  BY <1>1 DEF RouterAssumption
<1>4. CASE Len(a) > Capacity
  <2>1. Push(q, m) = Tail(a)
    BY <1>4 DEF Push
  <2>2. /\ Tail(a) \in Seq(Messages)
        /\ Head(a) \in Elems(a)
        /\ Len(Tail(a)) = Len(a) - 1
        /\ Elems(Tail(a)) = Elems(a) \ {Head(a)}
        /\ Increasing(f, Tail(a))
        /\ \A x \in Elems(Tail(a)) : f[Head(a)] < f[x]
    <3> HIDE DEF a
    <3> QED
      BY <1>1, <1>2, <1>3, TailFacts
  <2>3. Head(a) # m
    <3>1. Len(q) >= 1
      BY <1>1, <1>3, <1>4
    <3>2. Head(a) = q[1] /\ 1 \in DOMAIN q
      BY <3>1
    <3>3. Head(a) \in Elems(q)
      BY <3>2 DEF Elems
    <3>4. Head(a) \in Messages
      BY <3>2
    <3> QED
      BY <3>3, <3>4
  <2> QED
    BY <1>1, <1>3, <2>1, <2>2, <2>3
<1>5. CASE ~(Len(a) > Capacity)
  <2>1. Push(q, m) = a
    BY <1>5 DEF Push
  <2> QED
    BY <1>1, <1>2, <1>3, <1>5, <2>1
<1> QED
  BY <1>4, <1>5

\* A bounded queue fits whole in the inbox register creates for it.
LEMMA FitsWhole ==
  ASSUME RouterAssumption, NEW q \in Seq(Messages), Len(q) <= Capacity
  PROVE  SubSeq(q, 1, Fits(q)) = q
<1>1. Len(q) \in Nat /\ Capacity \in Nat
  BY DEF RouterAssumption
<1>2. Fits(q) = Len(q)
  BY <1>1 DEF Fits, Smaller
<1> QED
  BY <1>1, <1>2

(***************************************************************************)
(* The invariant, one lemma per kind of step                               *)
(***************************************************************************)
LEMMA InitInv == ASSUME RouterAssumption, RouterInit PROVE RouterInv
<1>1. TypeOK
  BY DEF RouterInit, RouterAssumption, TypeOK, RxStates, Stages, Places
<1>2. WalkOK /\ StampsOK /\ ChannelsOK /\ RegisteredNotQueued
  BY DEF RouterInit, WalkOK, StampsOK, ChannelsOK, RegisteredNotQueued, Unstamped
<1>3. QueueBound
  BY DEF RouterInit, QueueBound, RouterAssumption, Room
<1>4. AccountedFor
  <2>1. Elems(<<>>) = {}
    BY DEF Elems
  <2>2. \A m \in Messages : sending # m
    BY DEF RouterInit, RouterAssumption
  <2> QED
    BY <2>1, <2>2 DEF RouterInit, AccountedFor
<1>5. LostOnlyWithReceiver /\ Fifo /\ InboxBeforeQueue /\ EvictedAreOldest
  BY DEF RouterInit, LostOnlyWithReceiver, Fifo, Increasing, InboxBeforeQueue,
         EvictedAreOldest, Elems
<1> QED
  BY <1>1, <1>2, <1>3, <1>4, <1>5 DEF RouterInv

\* Operations on the tables alone, with the mutex just taken.
TableStep ==
  /\ stage = "idle"
  /\ peers' \in [Ids -> Inboxes \cup {NoChan}]
  /\ \A i \in Ids : peers'[i] # NoChan => peers'[i] = peers[i]
  /\ next_hops' \in [Ids -> Links \cup {NoChan}]
  /\ relays' \subseteq Ids
  /\ rx' \in [Chans -> RxStates]
  /\ \A c \in Chans : rx[c] # "unused" => rx'[c] = rx[c]
  /\ UNCHANGED <<offline, buf, walk, history>>

LEMMA TableStepInv ==
  ASSUME RouterAssumption, RouterInv, TableStep PROVE RouterInv'
<1> USE DEF RouterInv, TableStep, walk, history
<1>1. TypeOK'
  BY DEF TypeOK, WalkOK
<1>2. WalkOK' /\ StampsOK'
  BY DEF WalkOK, StampsOK
<1>3. ChannelsOK'
  <2>1. ASSUME NEW c \in Chans, rx'[c] # "open" PROVE buf'[c] = <<>>
    BY <2>1 DEF ChannelsOK
  <2> QED
    BY <2>1 DEF ChannelsOK
<1>4. RegisteredNotQueued'
  BY DEF RegisteredNotQueued
<1>5. QueueBound' /\ AccountedFor' /\ Fifo'
  BY DEF QueueBound, Room, AccountedFor, Fifo
<1>6. LostOnlyWithReceiver'
  BY DEF LostOnlyWithReceiver
<1>7. InboxBeforeQueue' /\ EvictedAreOldest'
  BY DEF InboxBeforeQueue, EvictedAreOldest
<1> QED
  BY <1>1, <1>2, <1>3, <1>4, <1>5, <1>6, <1>7

LEMMA TablesInv ==
  ASSUME RouterAssumption, RouterInv, NEW i \in Ids,
         \/ Unregister(i)
         \/ RemoveNextHop(i)
         \/ SetRelay(i)
         \/ \E c \in Links : SetNextHop(i, c)
         \/ \E c \in Links, is_relay \in BOOLEAN : RemoveRoute(i, c, is_relay)
  PROVE  RouterInv'
<1> USE DEF TypeOK, channels, walk, history, RxStates, Chans
<1>0. TypeOK
  BY DEF RouterInv
<1>1. CASE Unregister(i)
  BY <1>0, <1>1, TableStepInv DEF Unregister, TableStep
<1>2. CASE RemoveNextHop(i)
  BY <1>0, <1>2, TableStepInv DEF RemoveNextHop, TableStep
<1>3. CASE SetRelay(i)
  BY <1>0, <1>3, TableStepInv DEF SetRelay, TableStep
<1>4. ASSUME NEW c \in Links, SetNextHop(i, c) PROVE RouterInv'
  BY <1>0, <1>4, TableStepInv DEF SetNextHop, TableStep
<1>5. ASSUME NEW c \in Links, NEW r \in BOOLEAN, RemoveRoute(i, c, r)
      PROVE  RouterInv'
  BY <1>0, <1>5, TableStepInv
     DEF RemoveRoute, TableStep, NextHopsWithoutIfCurrent, RelaysWithout
<1> QED
  BY <1>1, <1>2, <1>3, <1>4, <1>5

\* register moves the whole queue of i into the fresh inbox.
LEMMA RegisterInv ==
  ASSUME RouterAssumption, RouterInv, NEW i \in Ids, NEW c \in Inboxes,
         Register(i, c)
  PROVE  RouterInv'
<1> DEFINE q == offline[i]
<1>0. TypeOK /\ AccountedFor /\ stage = "idle" /\ c \in Chans
  BY DEF RouterInv, Register, Chans
<1>1. q \in Seq(Messages) /\ Len(q) <= Capacity /\ Increasing(stamp, q)
  BY <1>0 DEF RouterInv, TypeOK, QueueBound, Fifo
<1>2. buf' = [buf EXCEPT ![c] = q]
  BY <1>1, FitsWhole DEF Register
<1>3. buf'[c] = q /\ \A d \in Chans \ {c} : buf'[d] = buf[d]
  BY <1>0, <1>2 DEF TypeOK
<1>4. offline'[i] = <<>> /\ \A j \in Ids \ {i} : offline'[j] = offline[j]
  BY <1>0 DEF TypeOK, Register
<1>5. /\ place' = [m \in Messages |-> IF m \in Elems(q) THEN "chan" ELSE place[m]]
      /\ via' = [m \in Messages |-> IF m \in Elems(q) THEN c ELSE via[m]]
  BY <1>3 DEF Register
<1>6. Elems(q) = {m \in Messages : place[m] = "queue" /\ m.recipient = i}
  BY <1>0 DEF AccountedFor
<1>7. /\ rx[c] = "unused" /\ rx' = [rx EXCEPT ![c] = "open"]
      /\ peers' = [peers EXCEPT ![i] = c]
      /\ UNCHANGED <<next_hops, relays, stage, sending, left, stamp, clock>>
  BY DEF Register, walk
<1>8. Elems(<<>>) = {}
  BY DEF Elems
<1> HIDE DEF q
<1>a. TypeOK'
  <2>1. buf' \in [Chans -> Seq(Messages)] /\ offline' \in [Ids -> Seq(Messages)]
    <3>1. offline' = [offline EXCEPT ![i] = <<>>] /\ <<>> \in Seq(Messages)
      BY DEF Register
    <3> QED
      BY <1>0, <1>1, <1>2, <3>1 DEF TypeOK
  <2> QED
    BY <1>0, <1>5, <1>7, <2>1 DEF TypeOK, RxStates, Places
<1>b. WalkOK'
  BY <1>0, <1>7 DEF RouterInv, WalkOK
<1>c. StampsOK'
  BY <1>0, <1>5, <1>6, <1>7 DEF RouterInv, StampsOK, Unstamped
<1>d. ChannelsOK'
  BY <1>0, <1>3, <1>5, <1>6, <1>7 DEF RouterInv, ChannelsOK, TypeOK
<1>e. RegisteredNotQueued'
  BY <1>0, <1>4, <1>7 DEF RouterInv, RegisteredNotQueued, TypeOK
<1>f. QueueBound'
  BY <1>0, <1>1, <1>3, <1>4 DEF RouterInv, QueueBound, Room, RouterAssumption
<1>g. AccountedFor'
  <2>1. ASSUME NEW d \in Chans
        PROVE  Elems(buf'[d]) = {m \in Messages : place'[m] = "chan" /\ via'[m] = d}
    <3>1. CASE d = c
      <4>1. Elems(buf[c]) = {}
        BY <1>0, <1>7, <1>8 DEF RouterInv, ChannelsOK
      <4>2. \A m \in Messages : ~(place[m] = "chan" /\ via[m] = c)
        BY <1>0, <4>1 DEF AccountedFor
      <4> QED
        BY <1>3, <1>5, <1>6, <3>1, <4>2
    <3>2. CASE d # c
      BY <1>0, <1>3, <1>5, <1>6, <3>2 DEF AccountedFor
    <3> QED
      BY <3>1, <3>2
  <2>2. ASSUME NEW j \in Ids
        PROVE  Elems(offline'[j])
                 = {m \in Messages : place'[m] = "queue" /\ m.recipient = j}
    BY <1>0, <1>4, <1>5, <1>6, <1>8 DEF AccountedFor
  <2>3. ASSUME NEW m \in Messages PROVE place'[m] = "sending" <=> sending' = m
    BY <1>0, <1>5, <1>6, <1>7 DEF AccountedFor
  <2> QED
    BY <2>1, <2>2, <2>3 DEF AccountedFor
<1>h. LostOnlyWithReceiver'
  BY <1>0, <1>5, <1>6, <1>7 DEF RouterInv, LostOnlyWithReceiver, TypeOK
<1>i. Fifo'
  <2>1. Increasing(stamp, <<>>)
    BY DEF Increasing
  <2> QED
    BY <1>0, <1>1, <1>3, <1>4, <1>7, <2>1 DEF RouterInv, Fifo
<1>j. InboxBeforeQueue'
  BY <1>0, <1>4, <1>5, <1>6, <1>7, <1>8 DEF RouterInv, InboxBeforeQueue
<1>k. EvictedAreOldest'
  BY <1>0, <1>4, <1>5, <1>6, <1>7, <1>8 DEF RouterInv, EvictedAreOldest
<1> QED
  BY <1>a, <1>b, <1>c, <1>d, <1>e, <1>f, <1>g, <1>h, <1>i, <1>j, <1>k
     DEF RouterInv

\* Entering send: the message becomes the newest one.
LEMMA SendStartInv ==
  ASSUME RouterAssumption, RouterInv, NEW m \in Messages, SendStart(m)
  PROVE  RouterInv'
<1>0. /\ TypeOK /\ AccountedFor /\ stage = "idle" /\ place[m] = "new"
      /\ UNCHANGED <<peers, next_hops, relays, offline, buf, rx, via>>
  BY DEF RouterInv, SendStart, tables, channels
<1>1. sending = NoMsg /\ left = {}
  BY <1>0 DEF RouterInv, WalkOK
<1>2. CASE m.size <= MaxMessageSize /\ stage' = "peer"
  <2>1. /\ stage' = "peer" /\ sending' = m /\ left' = relays
        /\ place' = [place EXCEPT ![m] = "sending"]
        /\ stamp' = [stamp EXCEPT ![m] = clock]
        /\ clock' = clock + 1
    BY <1>0, <1>2 DEF SendStart, walk
  <2>2. \A n \in Messages \ {m} : place'[n] = place[n] /\ stamp'[n] = stamp[n]
    BY <1>0, <2>1 DEF TypeOK
  <2>3. place'[m] = "sending" /\ stamp'[m] = clock
    BY <1>0, <2>1 DEF TypeOK
  <2>4. /\ \A c \in Chans : m \notin Elems(buf[c])
        /\ \A i \in Ids : m \notin Elems(offline[i])
    BY <1>0 DEF AccountedFor
  <2>a. TypeOK'
    BY <1>0, <2>1 DEF TypeOK, Stages, Places
  <2>b. WalkOK'
    BY <1>0, <2>1 DEF WalkOK
  <2>c. StampsOK'
    <3>1. \A n \in Messages \ {m} : place[n] \notin Unstamped => stamp[n] < clock
      BY DEF RouterInv, StampsOK
    <3> QED
      BY <1>0, <2>1, <2>2, <2>3, <3>1 DEF StampsOK, Unstamped, TypeOK
  <2>d. ChannelsOK' /\ RegisteredNotQueued'
    BY <1>0, <2>2 DEF RouterInv, ChannelsOK, RegisteredNotQueued
  <2>e. QueueBound'
    BY <1>0 DEF RouterInv, QueueBound, Room
  <2>f. AccountedFor'
    BY <1>0, <1>1, <2>1, <2>2, <2>3 DEF AccountedFor, RouterAssumption
  <2>g. LostOnlyWithReceiver'
    BY <1>0, <2>2, <2>3 DEF RouterInv, LostOnlyWithReceiver
  <2>h. Fifo'
    <3>1. ASSUME NEW s \in Seq(Messages), m \notin Elems(s), Increasing(stamp, s)
          PROVE  Increasing(stamp', s)
      BY <2>2, <3>1 DEF Increasing, Elems
    <3> QED
      BY <1>0, <2>4, <3>1 DEF RouterInv, Fifo, TypeOK
  <2>i. InboxBeforeQueue'
    <3>1. via[m] = NoChan /\ NoChan \notin Inboxes
      BY <1>0 DEF RouterInv, ChannelsOK, RouterAssumption, Chans
    <3>2. \A i \in Ids : Elems(offline[i]) \subseteq Messages
      BY <1>0 DEF AccountedFor
    <3> QED
      BY <1>0, <2>2, <2>4, <3>1, <3>2 DEF RouterInv, InboxBeforeQueue
  <2>j. EvictedAreOldest'
    <3>1. \A i \in Ids : Elems(offline[i]) \subseteq Messages
      BY <1>0 DEF AccountedFor
    <3> QED
      BY <1>0, <2>2, <2>3, <2>4, <3>1 DEF RouterInv, EvictedAreOldest
  <2> QED
    BY <2>a, <2>b, <2>c, <2>d, <2>e, <2>f, <2>g, <2>h, <2>i, <2>j DEF RouterInv
<1>3. CASE m.size > MaxMessageSize /\ UNCHANGED <<walk, stamp, clock>>
             /\ place' = [place EXCEPT ![m] = "rejected"]
  <2>1. UNCHANGED <<stage, sending, left, stamp, clock>>
    BY <1>3 DEF walk
  <2>2. /\ place'[m] = "rejected"
        /\ \A n \in Messages \ {m} : place'[n] = place[n]
    BY <1>0, <1>3 DEF TypeOK
  <2>a. TypeOK'
    BY <1>0, <1>3, <2>1 DEF TypeOK, Places
  <2>b. WalkOK'
    BY <1>0, <2>1 DEF RouterInv, WalkOK
  <2>c. StampsOK'
    BY <1>0, <2>1, <2>2 DEF RouterInv, StampsOK, Unstamped
  <2>d. ChannelsOK' /\ RegisteredNotQueued'
    BY <1>0, <2>2 DEF RouterInv, ChannelsOK, RegisteredNotQueued
  <2>e. QueueBound' /\ Fifo'
    BY <1>0, <2>1 DEF RouterInv, QueueBound, Room, Fifo
  <2>f. AccountedFor'
    BY <1>0, <2>1, <2>2 DEF AccountedFor
  <2>g. LostOnlyWithReceiver' /\ InboxBeforeQueue' /\ EvictedAreOldest'
    BY <1>0, <2>1, <2>2
       DEF RouterInv, LostOnlyWithReceiver, InboxBeforeQueue, EvictedAreOldest
  <2> QED
    BY <2>a, <2>b, <2>c, <2>d, <2>e, <2>f, <2>g DEF RouterInv
<1> QED
  BY <1>2, <1>3 DEF SendStart

\* The message under way, in every step of the walk.
LEMMA UnderWay ==
  ASSUME RouterAssumption, RouterInv, stage # "idle"
  PROVE  /\ sending \in Messages
         /\ sending.recipient \in Ids
         /\ place[sending] = "sending"
         /\ via[sending] = NoChan
         /\ \A n \in Messages : place[n] = "sending" <=> n = sending
<1>1. sending \in Messages
  BY DEF RouterInv, WalkOK
<1>2. sending.recipient \in Ids
  BY <1>1 DEF RouterAssumption, Message
<1>3. \A n \in Messages : place[n] = "sending" <=> n = sending
  BY DEF RouterInv, AccountedFor
<1> QED
  BY <1>1, <1>2, <1>3 DEF RouterInv, ChannelsOK

\* A send that succeeds; into an inbox only when its owner is registered.
LEMMA EnqueueInv ==
  ASSUME RouterAssumption, RouterInv, stage # "idle", NEW c \in Chans,
         Enqueue(c), c \in Inboxes => peers[sending.recipient] = c
  PROVE  RouterInv'
<1> DEFINE m == sending
<1>0. /\ m \in Messages /\ m.recipient \in Ids /\ place[m] = "sending"
      /\ \A n \in Messages : place[n] = "sending" <=> n = m
  BY UnderWay
<1>1. TypeOK /\ AccountedFor
  BY DEF RouterInv
<1>2. /\ rx[c] = "open" /\ Len(buf[c]) < Room(c)
      /\ buf' = [buf EXCEPT ![c] = Append(@, m)]
      /\ place' = [place EXCEPT ![m] = "chan"]
      /\ via' = [via EXCEPT ![m] = c]
      /\ stage' = "idle" /\ sending' = NoMsg /\ left' = {}
      /\ UNCHANGED <<peers, next_hops, relays, offline, rx, stamp, clock>>
  BY DEF Enqueue, tables
<1> HIDE DEF m
<1>3. /\ place'[m] = "chan" /\ via'[m] = c
      /\ \A n \in Messages \ {m} : place'[n] = place[n] /\ via'[n] = via[n]
  BY <1>0, <1>1, <1>2 DEF TypeOK
<1>4. /\ buf[c] \in Seq(Messages) /\ buf'[c] = Append(buf[c], m)
      /\ \A d \in Chans \ {c} : buf'[d] = buf[d]
  BY <1>1, <1>2 DEF TypeOK
<1>5. /\ buf'[c] \in Seq(Messages)
      /\ Len(buf'[c]) = Len(buf[c]) + 1
      /\ Elems(buf'[c]) = Elems(buf[c]) \cup {m}
  BY <1>0, <1>4, AppendFacts
<1>6. \A n \in Messages : place[n] \notin Unstamped \cup {"sending"}
                           => stamp[n] < stamp[m]
  BY DEF RouterInv, StampsOK, m
<1>a. TypeOK'
  <2>1. buf' \in [Chans -> Seq(Messages)]
    BY <1>1, <1>2, <1>4, <1>5 DEF TypeOK
  <2> QED
    BY <1>0, <1>1, <1>2, <2>1 DEF TypeOK, Stages, Places
<1>b. WalkOK'
  BY <1>2 DEF WalkOK
<1>c. StampsOK'
  BY <1>0, <1>2, <1>3 DEF RouterInv, StampsOK, Unstamped
<1>d. ChannelsOK' /\ RegisteredNotQueued'
  BY <1>0, <1>2, <1>3, <1>4 DEF RouterInv, ChannelsOK, RegisteredNotQueued
<1>e. QueueBound'
  <2>1. Room(c) \in Nat /\ Len(buf[c]) \in Nat
    BY <1>4 DEF Room, RouterAssumption
  <2>2. Len(buf'[c]) <= Room(c)
    BY <1>2, <1>5, <2>1
  <2> QED
    BY <1>2, <1>4, <2>2 DEF RouterInv, QueueBound, Room
<1>f. AccountedFor'
  <2>1. ASSUME NEW d \in Chans
        PROVE  Elems(buf'[d]) = {n \in Messages : place'[n] = "chan" /\ via'[n] = d}
    <3>1. Elems(buf[d]) = {n \in Messages : place[n] = "chan" /\ via[n] = d}
      BY <1>1 DEF AccountedFor
    <3>2. CASE d = c
      BY <1>0, <1>3, <1>5, <3>1, <3>2
    <3>3. CASE d # c
      BY <1>0, <1>3, <1>4, <3>1, <3>3
    <3> QED
      BY <3>2, <3>3
  <2>2. ASSUME NEW i \in Ids
        PROVE  Elems(offline'[i])
                 = {n \in Messages : place'[n] = "queue" /\ n.recipient = i}
    BY <1>0, <1>1, <1>2, <1>3 DEF AccountedFor
  <2>3. \A n \in Messages : place'[n] = "sending" <=> sending' = n
    BY <1>0, <1>2, <1>3 DEF RouterAssumption
  <2> QED
    BY <2>1, <2>2, <2>3 DEF AccountedFor
<1>g. LostOnlyWithReceiver'
  BY <1>0, <1>2, <1>3 DEF RouterInv, LostOnlyWithReceiver
<1>h. Fifo'
  <2>1. \A x \in Elems(buf[c]) : stamp[x] < stamp[m]
    BY <1>1, <1>6 DEF AccountedFor, Unstamped
  <2>2. stamp \in [Messages -> Nat] /\ Increasing(stamp, buf[c])
    BY <1>1 DEF RouterInv, Fifo, TypeOK
  <2>3. Increasing(stamp, buf'[c])
    BY <1>0, <1>4, <2>1, <2>2, AppendIncreasing
  <2> QED
    BY <1>2, <1>4, <2>3 DEF RouterInv, Fifo
<1>i. InboxBeforeQueue'
  <2>1. c \in Inboxes => offline[m.recipient] = <<>>
    BY <1>0 DEF RouterInv, RegisteredNotQueued, RouterAssumption, Chans, m
  <2>2. Elems(<<>>) = {}
    BY DEF Elems
  <2> QED
    BY <1>0, <1>2, <1>3, <2>1, <2>2 DEF RouterInv, InboxBeforeQueue
<1>j. EvictedAreOldest'
  BY <1>0, <1>2, <1>3 DEF RouterInv, EvictedAreOldest
<1> QED
  BY <1>a, <1>b, <1>c, <1>d, <1>e, <1>f, <1>g, <1>h, <1>i, <1>j DEF RouterInv

\* A route found absent or dead: the walk goes on without it.
LEMMA RouteFailsInv ==
  ASSUME RouterAssumption, RouterInv, stage # "idle",
         peers' \in [Ids -> Inboxes \cup {NoChan}],
         next_hops' \in [Ids -> Links \cup {NoChan}],
         left' \subseteq left, stage' \in Stages \ {"idle"},
         \A i \in Ids : peers'[i] # NoChan => peers'[i] = peers[i],
         WalkOK',
         UNCHANGED <<relays, offline, buf, rx, sending, place, via, stamp, clock>>
  PROVE  RouterInv'
<1>1. TypeOK'
  BY DEF RouterInv, TypeOK
<1>2. StampsOK' /\ ChannelsOK' /\ RegisteredNotQueued'
  BY DEF RouterInv, StampsOK, ChannelsOK, RegisteredNotQueued
<1>3. QueueBound' /\ AccountedFor' /\ Fifo'
  BY DEF RouterInv, QueueBound, Room, AccountedFor, Fifo
<1>4. LostOnlyWithReceiver' /\ InboxBeforeQueue' /\ EvictedAreOldest'
  BY DEF RouterInv, LostOnlyWithReceiver, InboxBeforeQueue, EvictedAreOldest
<1> QED
  BY <1>1, <1>2, <1>3, <1>4 DEF RouterInv

\* No route is left: the message is queued, the oldest one possibly evicted.
LEMMA PushOfflineInv ==
  ASSUME RouterAssumption, RouterInv, PushOffline PROVE RouterInv'
<1> DEFINE m == sending
           d == m.recipient
           q == offline[d]
<1>0. /\ stage = "relay" /\ left = {} /\ stage' = "idle" /\ sending' = NoMsg
      /\ UNCHANGED <<peers, next_hops, relays, buf, rx, left, via, stamp, clock>>
  BY DEF PushOffline, tables, channels
<1>1. /\ m \in Messages /\ d \in Ids /\ place[m] = "sending" /\ via[m] = NoChan
      /\ \A n \in Messages : place[n] = "sending" <=> n = m
  BY <1>0, UnderWay
<1>2. TypeOK /\ AccountedFor /\ peers[d] = NoChan
  BY <1>0 DEF RouterInv, WalkOK
<1>3. /\ q \in Seq(Messages) /\ Len(q) <= Capacity /\ Increasing(stamp, q)
      /\ stamp \in [Messages -> Nat]
  BY <1>1, <1>2 DEF RouterInv, TypeOK, QueueBound, Fifo
<1>4. \A n \in Messages : place[n] \notin Unstamped \cup {"sending"}
                           => stamp[n] < stamp[m]
  BY <1>0 DEF RouterInv, StampsOK
<1>5. Elems(q) = {n \in Messages : place[n] = "queue" /\ n.recipient = d}
  BY <1>1, <1>2 DEF AccountedFor
<1>6. \A x \in Elems(q) : stamp[x] < stamp[m]
  BY <1>4, <1>5 DEF Unstamped
<1> DEFINE p == Push(q, m)
<1>7. /\ p \in Seq(Messages) /\ Len(p) <= Capacity /\ Increasing(stamp, p)
      /\ m \in Elems(p) /\ Elems(p) \subseteq Elems(q) \cup {m}
      /\ \A x \in Elems(p) :
           \A y \in (Elems(q) \cup {m}) \ Elems(p) : stamp[y] < stamp[x]
  <2> HIDE DEF m, q, d
  <2> QED
    BY <1>1, <1>3, <1>6, PushFacts
<1>8. /\ offline' = [offline EXCEPT ![d] = p] /\ offline'[d] = p
      /\ \A i \in Ids \ {d} : offline'[i] = offline[i]
  BY <1>1, <1>2 DEF PushOffline, TypeOK
<1>9. place' = [n \in Messages |->
                  IF n \in Elems(p) THEN "queue"
                  ELSE IF n \in Elems(q) \cup {m} THEN "evicted"
                  ELSE place[n]]
  <2>1. Elems(Append(q, m)) = Elems(q) \cup {m}
    BY <1>1, <1>3, AppendFacts
  <2>2. place' = [n \in Messages |->
                    CASE n \in Elems(p) -> "queue"
                      [] n \in (Elems(q) \cup {m}) \ Elems(p) -> "evicted"
                      [] OTHER -> place[n]]
    BY <1>8, <2>1 DEF PushOffline
  <2> HIDE DEF p, q, m, d
  <2> QED
    BY <2>2
<1> HIDE DEF p, q, d, m
<1>10. /\ \A n \in Elems(p) : place'[n] = "queue" /\ n.recipient = d
       /\ \A n \in Messages : place'[n] # place[n] =>
            /\ n.recipient = d
            /\ place[n] \in {"queue", "sending"} /\ place'[n] \in {"queue", "evicted"}
       /\ \A n \in Messages : place'[n] = "evicted" /\ n.recipient = d =>
            \A x \in Elems(p) : stamp[n] < stamp[x]
  <2>1. \A n \in Elems(p) : n \in Messages /\ place'[n] = "queue" /\ n.recipient = d
    BY <1>1, <1>5, <1>7, <1>9 DEF d
  <2>2. ASSUME NEW n \in Messages, place'[n] # place[n]
        PROVE  /\ n.recipient = d /\ place[n] \in {"queue", "sending"}
               /\ place'[n] \in {"queue", "evicted"}
    BY <1>1, <1>5, <1>7, <1>9, <2>2 DEF d
  <2>3. ASSUME NEW n \in Messages, place'[n] = "evicted", n.recipient = d,
               NEW x \in Elems(p)
        PROVE  stamp[n] < stamp[x]
    <3>1. CASE place[n] = "evicted"
      <4>1. n \notin Elems(q) \cup {m} /\ stamp[n] < stamp[m]
        BY <1>1, <1>4, <1>5, <3>1 DEF Unstamped
      <4>2. CASE x = m
        BY <4>1, <4>2
      <4>3. CASE x \in Elems(q)
        BY <1>1, <2>3, <3>1, <4>3 DEF RouterInv, EvictedAreOldest, q
      <4> QED
        BY <1>7, <4>2, <4>3
    <3>2. CASE place[n] # "evicted"
      BY <1>7, <1>9, <2>3, <3>2
    <3> QED
      BY <3>1, <3>2
  <2> QED
    BY <2>1, <2>2, <2>3
<1>a. TypeOK'
  <2>1. offline' \in [Ids -> Seq(Messages)]
    BY <1>1, <1>2, <1>7, <1>8 DEF TypeOK
  <2>2. place' \in [Messages -> Places]
    BY <1>2, <1>9 DEF TypeOK, Places
  <2> QED
    BY <1>0, <1>2, <2>1, <2>2 DEF TypeOK, Stages
<1>b. WalkOK'
  BY <1>0 DEF WalkOK
<1>c. StampsOK'
  BY <1>0, <1>10 DEF RouterInv, StampsOK, Unstamped
<1>d. ChannelsOK'
  <2>1. \A n \in Messages : place[n] = "queue" => via[n] = NoChan
    BY DEF RouterInv, ChannelsOK
  <2> QED
    BY <1>0, <1>1, <1>10, <2>1 DEF RouterInv, ChannelsOK
<1>e. RegisteredNotQueued'
  BY <1>0, <1>2, <1>8 DEF RouterInv, RegisteredNotQueued
<1>f. QueueBound'
  BY <1>0, <1>7, <1>8 DEF RouterInv, QueueBound, Room
<1>g. AccountedFor'
  <2>1. ASSUME NEW c \in Chans
        PROVE  Elems(buf'[c]) = {n \in Messages : place'[n] = "chan" /\ via'[n] = c}
    BY <1>0, <1>2, <1>10 DEF AccountedFor
  <2>2. ASSUME NEW i \in Ids
        PROVE  Elems(offline'[i])
                 = {n \in Messages : place'[n] = "queue" /\ n.recipient = i}
    <3>1. CASE i = d
      <4>1. ASSUME NEW n \in Messages, place'[n] = "queue", n.recipient = d
            PROVE  n \in Elems(p)
        BY <1>5, <1>9, <4>1
      <4>2. Elems(p) \subseteq Messages
        BY <1>1, <1>5, <1>7
      <4> QED
        BY <1>8, <1>10, <3>1, <4>1, <4>2
    <3>2. CASE i # d
      BY <1>2, <1>8, <1>10, <3>2 DEF AccountedFor
    <3> QED
      BY <3>1, <3>2
  <2>3. \A n \in Messages : place'[n] = "sending" <=> sending' = n
    <3>1. place'[m] = "queue"
      BY <1>1, <1>7, <1>10
    <3> QED
      BY <1>0, <1>1, <1>10, <3>1 DEF RouterAssumption
  <2> QED
    BY <2>1, <2>2, <2>3 DEF AccountedFor
<1>h. LostOnlyWithReceiver'
  BY <1>0, <1>10 DEF RouterInv, LostOnlyWithReceiver
<1>i. Fifo'
  BY <1>0, <1>7, <1>8 DEF RouterInv, Fifo
<1>j. InboxBeforeQueue'
  <2> SUFFICES ASSUME NEW i \in Ids, NEW x \in Elems(offline'[i]), NEW n \in Messages,
                      n.recipient = i, via[n] \in Inboxes
               PROVE  stamp[n] < stamp[x]
    BY <1>0 DEF InboxBeforeQueue
  <2>1. place[n] \in {"chan", "taken", "lost"}
    BY DEF RouterInv, ChannelsOK, RouterAssumption, Chans
  <2>2. CASE i # d \/ x \in Elems(q)
    BY <1>1, <1>8, <2>2 DEF RouterInv, InboxBeforeQueue, q
  <2>3. CASE x = m
    BY <1>4, <2>1, <2>3 DEF Unstamped
  <2> QED
    BY <1>7, <1>8, <2>2, <2>3
<1>k. EvictedAreOldest'
  <2> SUFFICES ASSUME NEW i \in Ids, NEW x \in Elems(offline'[i]), NEW n \in Messages,
                      n.recipient = i, place'[n] = "evicted"
               PROVE  stamp[n] < stamp[x]
    BY <1>0 DEF EvictedAreOldest
  <2>1. CASE i = d
    BY <1>8, <1>10, <2>1
  <2>2. CASE i # d
    BY <1>8, <1>10, <2>2 DEF RouterInv, EvictedAreOldest
  <2> QED
    BY <2>1, <2>2
<1> QED
  BY <1>a, <1>b, <1>c, <1>d, <1>e, <1>f, <1>g, <1>h, <1>i, <1>j, <1>k
     DEF RouterInv

\* The steps of send, by the outcome of each attempt.
LEMMA SendStepInv ==
  ASSUME RouterAssumption, RouterInv, SendStep PROVE RouterInv'
<1> DEFINE d == sending.recipient
<1>0. TypeOK /\ WalkOK
  BY DEF RouterInv
<1>1. CASE TryPeer
  <2>0. stage = "peer" /\ sending \in Messages /\ d \in Ids
    BY <1>1, UnderWay DEF TryPeer
  <2>1. CASE peers[d] # NoChan /\ Enqueue(peers[d])
    <3>1. peers[d] \in Chans
      BY <1>0, <2>0, <2>1 DEF TypeOK, Chans
    <3> QED
      BY <2>0, <2>1, <3>1, EnqueueInv
  <2>2. CASE ~(peers[d] # NoChan /\ Enqueue(peers[d]))
    <3>1. /\ peers' = [peers EXCEPT ![d] = NoChan] /\ stage' = "hop"
          /\ UNCHANGED <<next_hops, relays, offline, buf, rx, sending, left,
                         place, via, stamp, clock>>
      BY <1>1, <2>2 DEF TryPeer, channels, history
    <3>2. WalkOK'
      BY <1>0, <2>0, <3>1 DEF WalkOK, TypeOK
    <3> QED
      BY <1>0, <2>0, <3>1, <3>2, RouteFailsInv DEF TypeOK, Stages
  <2> QED
    BY <2>1, <2>2
<1>2. CASE TryNextHop
  <2>0. stage = "hop" /\ sending \in Messages /\ d \in Ids
    BY <1>2, UnderWay DEF TryNextHop
  <2>1. CASE next_hops[d] # NoChan /\ Enqueue(next_hops[d])
    <3>1. next_hops[d] \in Chans \ Inboxes
      BY <1>0, <2>0, <2>1 DEF TypeOK, Chans, RouterAssumption
    <3> QED
      BY <2>0, <2>1, <3>1, EnqueueInv
  <2>2. CASE ~(next_hops[d] # NoChan /\ Enqueue(next_hops[d]))
    <3>1. /\ next_hops' = [next_hops EXCEPT ![d] = NoChan] /\ stage' = "relay"
          /\ UNCHANGED <<peers, relays, offline, buf, rx, sending, left,
                         place, via, stamp, clock>>
      BY <1>2, <2>2 DEF TryNextHop, channels, history
    <3>2. WalkOK'
      BY <1>0, <2>0, <3>1 DEF WalkOK, TypeOK
    <3> QED
      BY <1>0, <2>0, <3>1, <3>2, RouteFailsInv DEF TypeOK, Stages
  <2> QED
    BY <2>1, <2>2
<1>3. ASSUME NEW q \in Ids, TryRelay(q) PROVE RouterInv'
  <2>0. stage = "relay" /\ sending \in Messages /\ d \in Ids
    BY <1>3, UnderWay DEF TryRelay
  <2>1. CASE next_hops[q] # NoChan /\ Enqueue(next_hops[q])
    <3>1. next_hops[q] \in Chans \ Inboxes
      BY <1>0, <2>0, <2>1 DEF TypeOK, Chans, RouterAssumption
    <3> QED
      BY <2>0, <2>1, <3>1, EnqueueInv
  <2>2. CASE ~(next_hops[q] # NoChan /\ Enqueue(next_hops[q]))
    <3>1. /\ next_hops' = [next_hops EXCEPT ![q] = NoChan] /\ left' = left \ {q}
          /\ UNCHANGED <<peers, relays, offline, buf, rx, stage, sending,
                         place, via, stamp, clock>>
      BY <1>3, <2>2 DEF TryRelay, channels, history
    <3>2. WalkOK'
      BY <1>0, <2>0, <3>1 DEF WalkOK, TypeOK
    <3> QED
      BY <1>0, <2>0, <3>1, <3>2, RouteFailsInv DEF TypeOK, Stages
  <2> QED
    BY <2>1, <2>2
<1>4. CASE PushOffline
  BY <1>4, PushOfflineInv
<1> QED
  BY <1>1, <1>2, <1>3, <1>4 DEF SendStep

\* A receiver takes the oldest message of its channel.
LEMMA RecvInv ==
  ASSUME RouterAssumption, RouterInv, NEW c \in Chans, Recv(c)
  PROVE  RouterInv'
<1> DEFINE s == buf[c]
           h == Head(buf[c])
<1>0. TypeOK /\ AccountedFor
  BY DEF RouterInv
<1>1. /\ rx[c] = "open" /\ s # <<>>
      /\ buf' = [buf EXCEPT ![c] = Tail(s)]
      /\ place' = [place EXCEPT ![h] = "taken"]
      /\ UNCHANGED <<peers, next_hops, relays, offline, rx, stage, sending, left,
                     via, stamp, clock>>
  BY DEF Recv, tables, walk
<1>2. /\ s \in Seq(Messages) /\ stamp \in [Messages -> Nat]
      /\ Increasing(stamp, s) /\ Len(s) <= Room(c)
  BY <1>0 DEF RouterInv, TypeOK, Fifo, QueueBound
<1>3. /\ Tail(s) \in Seq(Messages) /\ h \in Elems(s) /\ Len(Tail(s)) = Len(s) - 1
      /\ Elems(Tail(s)) = Elems(s) \ {h} /\ Increasing(stamp, Tail(s))
  <2> HIDE DEF s
  <2> QED
    BY <1>1, <1>2, TailFacts DEF s
<1>4. h \in Messages /\ place[h] = "chan" /\ via[h] = c
  BY <1>0, <1>3 DEF AccountedFor
<1> HIDE DEF h
<1>5. /\ place'[h] = "taken"
      /\ \A n \in Messages \ {h} : place'[n] = place[n]
  BY <1>0, <1>1, <1>4 DEF TypeOK
<1>6. buf'[c] = Tail(s) /\ \A d \in Chans \ {c} : buf'[d] = buf[d]
  BY <1>0, <1>1 DEF TypeOK
<1> HIDE DEF s
<1>a. TypeOK'
  <2>1. buf' \in [Chans -> Seq(Messages)]
    BY <1>0, <1>1, <1>3 DEF TypeOK
  <2> QED
    BY <1>0, <1>1, <2>1 DEF TypeOK, Places
<1>b. WalkOK'
  BY <1>1 DEF RouterInv, WalkOK
<1>c. StampsOK'
  BY <1>1, <1>4, <1>5 DEF RouterInv, StampsOK, Unstamped
<1>d. ChannelsOK' /\ RegisteredNotQueued'
  BY <1>1, <1>4, <1>5, <1>6 DEF RouterInv, ChannelsOK, RegisteredNotQueued
<1>e. QueueBound'
  <2>1. Room(c) \in Nat /\ Len(s) \in Nat
    BY <1>2 DEF Room, RouterAssumption
  <2>2. Len(buf'[c]) <= Room(c)
    BY <1>2, <1>3, <1>6, <2>1
  <2> QED
    BY <1>1, <1>6, <2>2 DEF RouterInv, QueueBound, Room
<1>f. AccountedFor'
  <2>1. ASSUME NEW d \in Chans
        PROVE  Elems(buf'[d]) = {n \in Messages : place'[n] = "chan" /\ via'[n] = d}
    <3>1. Elems(buf[d]) = {n \in Messages : place[n] = "chan" /\ via[n] = d}
      BY <1>0 DEF AccountedFor
    <3>2. CASE d = c
      <4>1. Elems(buf'[c]) = Elems(buf[c]) \ {h}
        BY <1>3, <1>6 DEF s
      <4> QED
        BY <1>1, <1>5, <3>1, <3>2, <4>1
    <3>3. CASE d # c
      BY <1>1, <1>4, <1>5, <1>6, <3>1, <3>3
    <3> QED
      BY <3>2, <3>3
  <2>2. \A i \in Ids : Elems(offline'[i])
                        = {n \in Messages : place'[n] = "queue" /\ n.recipient = i}
    BY <1>0, <1>1, <1>4, <1>5 DEF AccountedFor
  <2>3. \A n \in Messages : place'[n] = "sending" <=> sending' = n
    BY <1>0, <1>1, <1>4, <1>5 DEF AccountedFor
  <2> QED
    BY <2>1, <2>2, <2>3 DEF AccountedFor
<1>g. LostOnlyWithReceiver'
  BY <1>1, <1>4, <1>5 DEF RouterInv, LostOnlyWithReceiver
<1>h. Fifo'
  BY <1>1, <1>3, <1>6 DEF RouterInv, Fifo
<1>i. InboxBeforeQueue' /\ EvictedAreOldest'
  BY <1>1, <1>4, <1>5 DEF RouterInv, InboxBeforeQueue, EvictedAreOldest
<1> QED
  BY <1>a, <1>b, <1>c, <1>d, <1>e, <1>f, <1>g, <1>h, <1>i DEF RouterInv

\* A receiver is dropped with what it had not received.
LEMMA DropRxInv ==
  ASSUME RouterAssumption, RouterInv, NEW c \in Chans, DropRx(c)
  PROVE  RouterInv'
<1>0. TypeOK /\ AccountedFor
  BY DEF RouterInv
<1>1. /\ rx[c] = "open" /\ rx' = [rx EXCEPT ![c] = "closed"]
      /\ buf' = [buf EXCEPT ![c] = <<>>]
      /\ UNCHANGED <<peers, next_hops, relays, offline, stage, sending, left,
                     via, stamp, clock>>
  BY DEF DropRx, tables, walk
<1>2. Elems(buf[c]) = {n \in Messages : place[n] = "chan" /\ via[n] = c}
  BY <1>0 DEF AccountedFor
<1>3. place' = [n \in Messages |-> IF place[n] = "chan" /\ via[n] = c
                                   THEN "lost" ELSE place[n]]
  BY <1>2 DEF DropRx
<1>4. buf'[c] = <<>> /\ \A d \in Chans \ {c} : buf'[d] = buf[d]
  BY <1>0, <1>1 DEF TypeOK
<1>5. Elems(<<>>) = {} /\ Increasing(stamp, <<>>)
  BY DEF Elems, Increasing
<1>a. TypeOK'
  <2>1. buf' \in [Chans -> Seq(Messages)]
    BY <1>0, <1>1 DEF TypeOK
  <2>2. place' \in [Messages -> Places] /\ rx' \in [Chans -> RxStates]
    BY <1>0, <1>1, <1>3 DEF TypeOK, Places, RxStates
  <2> QED
    BY <1>0, <1>1, <2>1, <2>2 DEF TypeOK
<1>b. WalkOK'
  BY <1>1 DEF RouterInv, WalkOK
<1>c. StampsOK'
  BY <1>1, <1>3 DEF RouterInv, StampsOK, Unstamped
<1>d. ChannelsOK' /\ RegisteredNotQueued'
  BY <1>0, <1>1, <1>3, <1>4 DEF RouterInv, ChannelsOK, RegisteredNotQueued, TypeOK
<1>e. QueueBound'
  BY <1>1, <1>4 DEF RouterInv, QueueBound, Room, RouterAssumption
<1>f. AccountedFor'
  <2>1. ASSUME NEW d \in Chans
        PROVE  Elems(buf'[d]) = {n \in Messages : place'[n] = "chan" /\ via'[n] = d}
    BY <1>0, <1>1, <1>3, <1>4, <1>5 DEF AccountedFor
  <2>2. \A i \in Ids : Elems(offline'[i])
                        = {n \in Messages : place'[n] = "queue" /\ n.recipient = i}
    BY <1>0, <1>1, <1>3 DEF AccountedFor
  <2>3. \A n \in Messages : place'[n] = "sending" <=> sending' = n
    BY <1>0, <1>1, <1>3 DEF AccountedFor
  <2> QED
    BY <2>1, <2>2, <2>3 DEF AccountedFor
<1>g. LostOnlyWithReceiver'
  BY <1>0, <1>1, <1>3 DEF RouterInv, LostOnlyWithReceiver, TypeOK
<1>h. Fifo'
  BY <1>1, <1>4, <1>5 DEF RouterInv, Fifo
<1>i. InboxBeforeQueue' /\ EvictedAreOldest'
  BY <1>1, <1>3 DEF RouterInv, InboxBeforeQueue, EvictedAreOldest
<1> QED
  BY <1>a, <1>b, <1>c, <1>d, <1>e, <1>f, <1>g, <1>h, <1>i DEF RouterInv

LEMMA StutterInv == ASSUME RouterInv, UNCHANGED rvars PROVE RouterInv'
<1> USE DEF RouterInv, rvars, tables, channels, walk, history
<1>1. (TypeOK /\ WalkOK /\ StampsOK /\ ChannelsOK /\ RegisteredNotQueued)'
  BY DEF TypeOK, WalkOK, StampsOK, ChannelsOK, RegisteredNotQueued
<1>2. (QueueBound /\ AccountedFor /\ LostOnlyWithReceiver /\ Fifo)'
  BY DEF QueueBound, Room, AccountedFor, LostOnlyWithReceiver, Fifo
<1>3. (InboxBeforeQueue /\ EvictedAreOldest)'
  BY DEF InboxBeforeQueue, EvictedAreOldest
<1> QED
  BY <1>1, <1>2, <1>3

\* Every step of the router preserves the invariant.
LEMMA NextInv ==
  ASSUME RouterAssumption, RouterInv, [RouterNext]_rvars PROVE RouterInv'
<1>1. ASSUME NEW i \in Ids, NEW c \in Inboxes, Register(i, c) PROVE RouterInv'
  BY <1>1, RegisterInv
<1>2. ASSUME NEW i \in Ids,
             \/ Unregister(i)
             \/ RemoveNextHop(i)
             \/ SetRelay(i)
             \/ \E c \in Links : SetNextHop(i, c)
             \/ \E c \in Links, is_relay \in BOOLEAN : RemoveRoute(i, c, is_relay)
      PROVE  RouterInv'
  BY <1>2, TablesInv
<1>3. ASSUME NEW m \in Messages, SendStart(m) PROVE RouterInv'
  BY <1>3, SendStartInv
<1>4. CASE SendStep
  BY <1>4, SendStepInv
<1>5. ASSUME NEW c \in Chans, Recv(c) \/ DropRx(c) PROVE RouterInv'
  BY <1>5, RecvInv, DropRxInv
<1>6. CASE UNCHANGED rvars
  BY <1>6, StutterInv
<1> QED
  BY <1>1, <1>2, <1>3, <1>4, <1>5, <1>6 DEF RouterNext

(***************************************************************************)
(* Theorems                                                                *)
(***************************************************************************)
\* The inductive invariant holds in every reachable state of the router.
THEOREM RouterInvariance == RouterSpec => []RouterInv
<1>1. RouterInit => RouterInv
  BY InitInv, RouterAssumption
<1>2. RouterInv /\ [RouterNext]_rvars => RouterInv'
  BY NextInv, RouterAssumption
<1> QED
  BY <1>1, <1>2, PTL DEF RouterSpec

\* Type correctness of the router's state.
THEOREM TypeCorrect == RouterSpec => []TypeOK
<1>1. RouterInv => TypeOK
  BY DEF RouterInv
<1> QED
  BY <1>1, RouterInvariance, PTL

\* The offline queues and the channels stay within their capacities.
THEOREM QueuesBounded == RouterSpec => []QueueBound
<1>1. RouterInv => QueueBound
  BY DEF RouterInv
<1> QED
  BY <1>1, RouterInvariance, PTL

\* No message handed to Router::send is duplicated or forgotten; it is lost
\* only with the receiver of the channel that carried it.
THEOREM MessagesConserved == RouterSpec => []Conserved
<1>1. RouterInv => Conserved
  BY DEF RouterInv, Conserved
<1> QED
  BY <1>1, RouterInvariance, PTL

\* First in, first out: in every channel and queue, from an identity's inbox
\* to its later queue, and for evictions.
THEOREM OrderKept == RouterSpec => []InOrder
<1>1. RouterInv => InOrder
  BY DEF RouterInv, InOrder
<1> QED
  BY <1>1, RouterInvariance, PTL

\* A message is queued only by a walk that found, and removed, every dead
\* route, and found no live one.
THEOREM QueuedWithoutRoute == RouterSpec => QueuedOnlyWithoutRoute
<1> DEFINE NoRouteLeft ==
      \A m \in Messages :
        place[m] = "sending" /\ place'[m] = "queue" =>
          /\ peers'[m.recipient] = NoChan
          /\ next_hops'[m.recipient] = NoChan
          /\ \A q \in relays' : next_hops'[q] = NoChan
<1>1. ASSUME RouterInv, RouterNext, NEW m \in Messages,
             place[m] = "sending", place'[m] = "queue"
      PROVE  PushOffline /\ sending = m
  <2>1. sending = m /\ stage # "idle"
    BY <1>1, RouterAssumption DEF RouterInv, AccountedFor, WalkOK, RouterAssumption
  <2>2. place \in [Messages -> Places]
    BY <1>1 DEF RouterInv, TypeOK
  <2>3. \A c \in Chans : ~Recv(c) /\ ~DropRx(c)
    <3>1. ASSUME NEW c \in Chans, Recv(c) PROVE FALSE
      BY <1>1, <2>2, <3>1 DEF Recv
    <3>2. ASSUME NEW c \in Chans, DropRx(c) PROVE FALSE
      BY <1>1, <2>2, <3>2 DEF DropRx
    <3> QED
      BY <3>1, <3>2
  <2>4. SendStep
    BY <1>1, <2>1, <2>3
       DEF RouterNext, Register, Unregister, RemoveNextHop, SetRelay, SetNextHop,
           RemoveRoute, SendStart
  <2>5. \A c : ~Enqueue(c)
    BY <1>1, <2>1, <2>2 DEF Enqueue
  <2> QED
    BY <1>1, <2>1, <2>4, <2>5 DEF SendStep, TryPeer, TryNextHop, TryRelay, history
<1>2. RouterInv /\ [RouterNext]_rvars => [NoRouteLeft]_rvars
  <2> SUFFICES ASSUME RouterInv, RouterNext, NEW m \in Messages,
                      place[m] = "sending", place'[m] = "queue"
               PROVE  /\ peers'[m.recipient] = NoChan
                      /\ next_hops'[m.recipient] = NoChan
                      /\ \A q \in relays' : next_hops'[q] = NoChan
    OBVIOUS
  <2>1. PushOffline /\ sending = m
    BY <1>1
  <2> QED
    BY <2>1 DEF PushOffline, RouterInv, WalkOK, tables
<1>3. QueuedOnlyWithoutRoute <=> [][NoRouteLeft]_rvars
  BY DEF QueuedOnlyWithoutRoute
<1> QED
  BY <1>2, <1>3, RouterInvariance, PTL DEF RouterSpec
=============================================================================
