----------------------------- MODULE HubProofs -----------------------------
(***************************************************************************)
(* Theorems about Hub for all capacities and any number of connections.    *)
(***************************************************************************)
EXTENDS Hub, SequenceTheorems, WellFoundedInduction, TLAPS

LEMMA QueuedAppend ==
    ASSUME NEW q \in Seq(Clients), NEW x \in Clients, NEW c \in Clients
    PROVE  Queued(Append(q, x), c) <=> Queued(q, c) \/ c = x
<1>1. Append(q, x)[Len(q) + 1] = x /\ Len(q) + 1 \in DOMAIN Append(q, x)
  OBVIOUS
<1>2. \A i \in DOMAIN q : i \in DOMAIN Append(q, x) /\ Append(q, x)[i] = q[i]
  OBVIOUS
<1>3. \A i \in DOMAIN Append(q, x) : i \in DOMAIN q \/ i = Len(q) + 1
  OBVIOUS
<1>4. QED
  BY <1>1, <1>2, <1>3 DEF Queued

LEMMA QueuedTail ==
    ASSUME NEW q \in Seq(Clients), q # <<>>, NEW c \in Clients
    PROVE  Queued(q, c) <=> c = Head(q) \/ Queued(Tail(q), c)
<1>1. Head(q) = q[1] /\ 1 \in DOMAIN q
  OBVIOUS
<1>2. \A i \in DOMAIN Tail(q) : i + 1 \in DOMAIN q /\ q[i + 1] = Tail(q)[i]
  OBVIOUS
<1>3. \A i \in DOMAIN q : i = 1 \/ (i - 1 \in DOMAIN Tail(q)
                                      /\ Tail(q)[i - 1] = q[i])
  OBVIOUS
<1>4. QED
  BY <1>1, <1>2, <1>3 DEF Queued

Distinct(q) == \A i, j \in DOMAIN q : q[i] = q[j] => i = j

LEMMA DistinctTail ==
    ASSUME NEW q \in Seq(Clients), q # <<>>, Distinct(q)
    PROVE  Distinct(Tail(q)) /\ ~Queued(Tail(q), Head(q))
<1>1. Head(q) = q[1] /\ 1 \in DOMAIN q
  OBVIOUS
<1>2. \A i \in DOMAIN Tail(q) : i \in Nat /\ i + 1 \in DOMAIN q
                                  /\ q[i + 1] = Tail(q)[i] /\ i + 1 # 1
  OBVIOUS
<1>3. QED
  BY <1>1, <1>2 DEF Distinct, Queued

LEMMA DistinctAppend ==
    ASSUME NEW q \in Seq(Clients), NEW x \in Clients, Distinct(q), ~Queued(q, x)
    PROVE  Distinct(Append(q, x))
<1>1. \A i \in DOMAIN Append(q, x) :
         (i \in DOMAIN q /\ Append(q, x)[i] = q[i])
            \/ (i = Len(q) + 1 /\ Append(q, x)[i] = x)
  OBVIOUS
<1>2. QED
  BY <1>1 DEF Distinct, Queued

-----------------------------------------------------------------------------
InRoom(c) == c \in rooms[Room[c]]

QueueTypes ==
    /\ register \in Seq(Clients)
    /\ unregister \in Seq(Clients)
    /\ broadcast \in Seq(Message)
    /\ rooms \in [Polls -> SUBSET Clients]
    /\ \A p \in Polls : \A c \in rooms[p] : Room[c] = p
    /\ closed \in SUBSET Clients
    /\ targets \in SUBSET Clients
    /\ victim \in SUBSET Clients
    /\ missed \in SUBSET Clients
    /\ reader \in [Clients -> {"off", "reading", "leaving", "gone"}]

\* A client registers once and before its pumps run, so nothing that follows
\* its removal can bring it back into its room.
OnceOnly ==
    /\ Distinct(register)
    /\ stage = "select" => targets = {}
    /\ stage = "select" \/ stage = "fanout" => victim = {}
    /\ \A c, d \in victim : c = d
    /\ \A c \in Clients :
          /\ Queued(register, c) => ~InRoom(c) /\ c \notin closed \cup missed
          /\ reader[c] = "off" => ~InRoom(c) /\ ~Queued(register, c)
                                    /\ c \notin closed \cup missed
          /\ c \in targets => InRoom(c)
          /\ c \in closed => ~InRoom(c)

HubInv == QueueTypes /\ OnceOnly /\ MissedMeansEviction

LEMMA InitHubInv == Init => HubInv
  BY HubAssumption
  DEF HubAssumption, Init, HubInv, QueueTypes, OnceOnly, MissedMeansEviction,
      Distinct, Queued, InRoom

LEMMA RegisterHubInv ==
    ASSUME HubInv, HubRegister
    PROVE  HubInv'
<1> USE DEF HubInv
<1>1. PICK d \in Clients : d = Head(register)
  BY DEF HubRegister, QueueTypes
<1>2. register \in Seq(Clients) /\ register # <<>> /\ register' = Tail(register)
  BY DEF HubRegister, QueueTypes
<1>3. rooms' = [rooms EXCEPT ![Room[d]] = @ \cup {d}]
  BY <1>1 DEF HubRegister
<1>4. Room[d] \in Polls
  BY HubAssumption DEF HubAssumption
<1>5. QueueTypes'
  <2>1. register' \in Seq(Clients)
    BY <1>2
  <2>2. /\ rooms' \in [Polls -> SUBSET Clients]
        /\ \A p \in Polls : \A c \in rooms'[p] : Room[c] = p
    BY <1>3, <1>4 DEF QueueTypes
  <2>3. QED
    BY <2>1, <2>2 DEF QueueTypes, HubRegister, pumps, history
<1>6. \A c \in Clients : InRoom(c)' <=> InRoom(c) \/ c = d
  BY <1>3, <1>4, HubAssumption DEF InRoom, QueueTypes, HubAssumption
<1>7. \A c \in Clients : Queued(register, c)
                           <=> c = d \/ Queued(register', c)
  BY <1>1, <1>2, QueuedTail
<1>8. Distinct(register') /\ ~Queued(register', d)
  BY <1>1, <1>2, DistinctTail DEF OnceOnly
<1>9. OnceOnly'
  BY <1>6, <1>7, <1>8 DEF OnceOnly, HubRegister, pumps, history, Queued
<1>10. MissedMeansEviction'
  BY <1>6, <1>7
  DEF MissedMeansEviction, OnceOnly, InRoom, HubRegister, history, Queued
<1>11. QED
  BY <1>5, <1>9, <1>10

LEMMA UnregisterHubInv ==
    ASSUME HubInv, HubUnregister
    PROVE  HubInv'
<1> USE DEF HubInv
<1>1. PICK d \in Clients : d = Head(unregister)
  BY DEF HubUnregister, QueueTypes
<1>2. /\ unregister \in Seq(Clients) /\ unregister # <<>>
      /\ unregister' = Tail(unregister)
  BY DEF HubUnregister, QueueTypes
<1>3. \A c \in Clients : Queued(unregister, c)
                           <=> c = d \/ Queued(unregister', c)
  BY <1>1, <1>2, QueuedTail
<1>4. Room[d] \in Polls
  BY HubAssumption DEF HubAssumption
<1>5. \/ InRoom(d) /\ rooms' = Leave(Room[d], d) /\ closed' = closed \cup {d}
      \/ ~InRoom(d) /\ UNCHANGED <<rooms, closed>>
  BY <1>1 DEF HubUnregister, InRoom
<1>6. \A c \in Clients : InRoom(c)' <=> InRoom(c) /\ c # d
  BY <1>4, <1>5, HubAssumption DEF InRoom, Leave, QueueTypes, HubAssumption
<1>7. QueueTypes'
  <2>1. unregister' \in Seq(Clients)
    BY <1>2
  <2>2. /\ rooms' \in [Polls -> SUBSET Clients]
        /\ \A p \in Polls : \A c \in rooms'[p] : Room[c] = p
    BY <1>4, <1>5 DEF QueueTypes, Leave
  <2>3. QED
    BY <1>5, <2>1, <2>2 DEF QueueTypes, HubUnregister, pumps, history
<1>8. OnceOnly'
  BY <1>5, <1>6
  DEF OnceOnly, HubUnregister, pumps, history, Queued, QueueTypes
<1>9. MissedMeansEviction'
  <2>1. missed \in SUBSET Clients
    BY DEF QueueTypes
  <2>2. QED
    BY <1>3, <1>6, <2>1
    DEF MissedMeansEviction, InRoom, HubUnregister, history, Queued
<1>10. QED
  BY <1>7, <1>8, <1>9

LEMMA FanoutHubInv ==
    ASSUME HubInv,
           \/ HubBroadcast \/ HubDone
           \/ \E c \in Clients : HubSend(c) \/ HubDrop(c)
    PROVE  HubInv'
<1> USE DEF HubInv
<1>1. CASE HubBroadcast
  <2>1. Head(broadcast) \in Message /\ Tail(broadcast) \in Seq(Message)
    BY <1>1 DEF HubBroadcast, Audience, QueueTypes
  <2>2. /\ targets' \in SUBSET Clients
        /\ \A c \in targets' : InRoom(c)
    BY <1>1, <2>1 DEF HubBroadcast, Audience, QueueTypes, Message, InRoom
  <2>3. QueueTypes'
    BY <1>1, <2>1, <2>2 DEF HubBroadcast, Audience, QueueTypes, pumps
  <2>4. OnceOnly'
    BY <1>1, <2>2 DEF HubBroadcast, Audience, OnceOnly, InRoom, Queued, pumps
  <2>5. MissedMeansEviction'
    BY <1>1 DEF HubBroadcast, Audience, MissedMeansEviction, Queued
  <2>6. QED
    BY <2>3, <2>4, <2>5
<1>2. CASE HubDone
  BY <1>2
  DEF HubDone, QueueTypes, OnceOnly, MissedMeansEviction, InRoom, Queued,
      channels, pumps, history
<1>3. ASSUME NEW c \in Clients, HubSend(c)
      PROVE  HubInv'
  BY <1>3
  DEF HubSend, QueueTypes, OnceOnly, MissedMeansEviction, InRoom, Queued,
      channels, pumps, history
<1>4. ASSUME NEW c \in Clients, HubDrop(c)
      PROVE  HubInv'
  <2>1. /\ InRoom(c) /\ ~Queued(register, c)
        /\ reader[c] # "off" /\ victim = {}
    BY <1>4 DEF HubDrop, OnceOnly
  <2>2. QueueTypes'
    BY <1>4 DEF HubDrop, QueueTypes, channels, pumps
  <2>3. OnceOnly'
    BY <1>4, <2>1 DEF HubDrop, OnceOnly, InRoom, Queued, channels, pumps
  <2>4. MissedMeansEviction'
    BY <1>4, <2>1 DEF HubDrop, MissedMeansEviction, Queued, channels
  <2>5. QED
    BY <2>2, <2>3, <2>4
<1>5. QED
  BY <1>1, <1>2, <1>3, <1>4

\* Appending to hub.unregister, by the hub or by a ReadPump.
LEMMA EvictHubInv ==
    ASSUME HubInv, HubEvict
    PROVE  HubInv'
<1> USE DEF HubInv
<1>1. PICK d \in victim : unregister' = Append(unregister, d)
  BY DEF HubEvict
<1>2. d \in Clients /\ unregister \in Seq(Clients)
  BY DEF QueueTypes
<1>3. \A c \in Clients : Queued(unregister', c) <=> Queued(unregister, c) \/ c = d
  BY <1>1, <1>2, QueuedAppend
<1>4. unregister' \in Seq(Clients)
  BY <1>1, <1>2
<1>5. QueueTypes'
  BY <1>4 DEF HubEvict, QueueTypes, pumps, history
<1>6. OnceOnly'
  BY DEF HubEvict, OnceOnly, InRoom, Queued, pumps, history
<1>7. MissedMeansEviction'
  BY <1>3 DEF HubEvict, OnceOnly, MissedMeansEviction, Queued, history
<1>8. QED
  BY <1>5, <1>6, <1>7

LEMMA ReaderLeavesHubInv ==
    ASSUME HubInv, NEW d \in Clients, ReaderLeaves(d)
    PROVE  HubInv'
<1> USE DEF HubInv
<1>1. /\ unregister \in Seq(Clients)
      /\ unregister' = Append(unregister, d)
  BY DEF ReaderLeaves, QueueTypes
<1>2. \A c \in Clients : Queued(unregister', c) <=> Queued(unregister, c) \/ c = d
  BY <1>1, QueuedAppend
<1>3. unregister' \in Seq(Clients)
  BY <1>1
<1>4. QueueTypes'
  BY <1>3 DEF ReaderLeaves, QueueTypes, hub, history
<1>5. OnceOnly'
  BY DEF ReaderLeaves, OnceOnly, QueueTypes, InRoom, Queued, hub, history
<1>6. MissedMeansEviction'
  <2>1. missed \in SUBSET Clients
    BY DEF QueueTypes
  <2>2. QED
    BY <1>2, <2>1
    DEF ReaderLeaves, MissedMeansEviction, Queued, hub, history
<1>7. QED
  BY <1>4, <1>5, <1>6

LEMMA ServeHubInv ==
    ASSUME HubInv, NEW d \in Clients, Serve(d)
    PROVE  HubInv'
<1> USE DEF HubInv
<1>1. /\ register \in Seq(Clients) /\ register' = Append(register, d)
      /\ reader[d] = "off" /\ reader' = [reader EXCEPT ![d] = "reading"]
  BY DEF Serve, QueueTypes
<1>2. \A c \in Clients : Queued(register', c) <=> Queued(register, c) \/ c = d
  BY <1>1, QueuedAppend
<1>3. ~Queued(register, d) /\ ~InRoom(d) /\ d \notin closed \cup missed
  BY <1>1 DEF OnceOnly
<1>4. Distinct(register')
  BY <1>1, <1>3, DistinctAppend DEF OnceOnly
<1>5. register' \in Seq(Clients)
  BY <1>1
<1>6. QueueTypes'
  BY <1>1, <1>5 DEF Serve, QueueTypes, hub, history
<1>7. OnceOnly'
  BY <1>1, <1>2, <1>3, <1>4
  DEF Serve, OnceOnly, QueueTypes, InRoom, Queued, hub, history
<1>8. MissedMeansEviction'
  BY DEF Serve, MissedMeansEviction, Queued, hub, history
<1>9. QED
  BY <1>6, <1>7, <1>8

\* The steps that touch neither the queues nor the rooms.
LEMMA OtherHubInv ==
    ASSUME HubInv,
           \/ \E p \in Polls : Broadcast(p)
           \/ \E c \in Clients : \/ Upgrade(c) \/ PeerBreaks(c)
                                 \/ ReaderFails(c) \/ WriterTakes(c)
                                 \/ WriterFlushes(c) \/ WriterEnds(c)
           \/ UNCHANGED vars,
           published \in 0 .. MaxMessages
    PROVE  HubInv'
<1> USE DEF HubInv
<1>1. CASE \E p \in Polls : Broadcast(p)
  <2>1. PICK p \in Polls :
           /\ published < MaxMessages /\ published' = published + 1
           /\ broadcast' = Append(broadcast, [poll |-> p, seq |-> published'])
    BY <1>1 DEF Broadcast
  <2>2. [poll |-> p, seq |-> published'] \in Message
    BY <2>1, HubAssumption DEF HubAssumption, Message
  <2>3. broadcast' \in Seq(Message)
    BY <2>1, <2>2 DEF QueueTypes
  <2>4. QED
    BY <1>1, <2>3
    DEF Broadcast, QueueTypes, OnceOnly, MissedMeansEviction, InRoom, Queued,
        hub, pumps, history
<1>2. ASSUME NEW c \in Clients,
             \/ Upgrade(c) \/ PeerBreaks(c) \/ ReaderFails(c)
             \/ WriterTakes(c) \/ WriterFlushes(c) \/ WriterEnds(c)
      PROVE  HubInv'
  <2>1. /\ UNCHANGED <<channels, hub, closed, history>>
        /\ reader' \in [Clients -> {"off", "reading", "leaving", "gone"}]
        /\ \A d \in Clients : reader'[d] = "off" => reader[d] = "off"
    BY <1>2
    DEF QueueTypes, Upgrade, PeerBreaks, ReaderFails, WriterTakes,
        WriterFlushes, WriterEnds
  <2>2. QED
    BY <2>1
    DEF QueueTypes, OnceOnly, MissedMeansEviction, InRoom, Queued, channels,
        hub, history
<1>3. CASE UNCHANGED vars
  BY <1>3
  DEF QueueTypes, OnceOnly, MissedMeansEviction, InRoom, Queued, vars,
      channels, hub, pumps, history
<1>4. QED
  BY <1>1, <1>2, <1>3

-----------------------------------------------------------------------------
PublishedInv == published \in 0 .. MaxMessages

LEMMA NextPublished == PublishedInv /\ [Next]_vars => PublishedInv'
<1> SUFFICES ASSUME PublishedInv, [Next]_vars PROVE PublishedInv'
  OBVIOUS
<1>1. CASE \E p \in Polls : Broadcast(p)
  BY <1>1, HubAssumption DEF HubAssumption, Broadcast, PublishedInv
<1>2. CASE HubStep
  BY <1>2
  DEF HubStep, HubRegister, HubUnregister, HubBroadcast, Audience, HubEvict, HubDone,
      HubSend, HubDrop, PublishedInv
<1>3. ASSUME NEW c \in Clients, Upgrade(c) \/ PeerBreaks(c) \/ PumpStep(c)
      PROVE  PublishedInv'
  BY <1>3
  DEF Upgrade, PeerBreaks, PumpStep, Serve, ReaderFails, ReaderLeaves,
      WriterTakes, WriterFlushes, WriterEnds, PublishedInv
<1>4. CASE UNCHANGED vars
  BY <1>4 DEF vars, PublishedInv
<1>5. QED
  BY <1>1, <1>2, <1>3, <1>4 DEF Next, Idle

LEMMA NextHubInv ==
    HubInv /\ PublishedInv /\ [Next]_vars => HubInv' /\ PublishedInv'
<1> SUFFICES ASSUME HubInv, PublishedInv, [Next]_vars
             PROVE  HubInv' /\ PublishedInv'
  OBVIOUS
<1>1. PublishedInv'
  BY NextPublished
<1>2. HubInv'
  BY <1>1, RegisterHubInv, UnregisterHubInv, FanoutHubInv, EvictHubInv,
     ReaderLeavesHubInv, ServeHubInv, OtherHubInv
  DEF PublishedInv, Next, HubStep, PumpStep, Idle
<1>3. QED
  BY <1>1, <1>2

LEMMA HubInvHolds == Spec => [](HubInv /\ PublishedInv)
<1>1. Init => HubInv /\ PublishedInv
  BY InitHubInv, HubAssumption DEF Init, PublishedInv, HubAssumption
<1>2. QED
  BY <1>1, NextHubInv, PTL DEF Spec

\* The hub's process never panics on a closed channel, for any capacities and
\* any number of connections joining, leaving and being evicted.
THEOREM HubNeverPanics == Spec => []NoPanic
<1>1. HubInv => NoPanic
  BY DEF HubInv, OnceOnly, QueueTypes, NoPanic, InRoom
<1>2. QED
  BY <1>1, HubInvHolds, PTL

\* Whoever missed a message is on the way out, for any capacities.
THEOREM MissedAreEvicted == Spec => []MissedMeansEviction
<1>1. HubInv => MissedMeansEviction
  BY DEF HubInv
<1>2. QED
  BY <1>1, HubInvHolds, PTL

-----------------------------------------------------------------------------
\* Induction over the naturals: a set of them that is not empty has a least
\* element, so a statement about every number has a least counterexample.
NatLess == {ss \in Nat \X Nat : ss[1] < ss[2]}

LEMMA LeastNumber == 
  ASSUME NEW T \in SUBSET Nat, T # {}
  PROVE \E x \in T : \A y \in T : ~ (y < x)
<1>1. IsWellFoundedOn(NatLess, Nat)
  BY NatLessThanWellFounded DEF OpToRel, NatLess
<1>2. \E x \in T : \A y \in T : ~(<<y, x>> \in NatLess)
  BY WFMin, <1>1
<1>3. QED
  BY <1>2 DEF NatLess

\* FlattenSeq(s) is the last value of a function that is defined recursively.
Flattens(f, s, n) ==
    f = [i \in 1 .. n |-> IF i = 1 THEN s[i] ELSE f[i - 1] \o s[i]]

LEMMA FlattensExists ==
    ASSUME NEW s, NEW n \in Nat
    PROVE  \E f : Flattens(f, s, n)
<1> DEFINE T == {m \in Nat : ~ \E f : Flattens(f, s, m)}
<1> SUFFICES ASSUME T # {} PROVE FALSE
  OBVIOUS
<1>1. PICK m \in T : \A k \in T : ~(k < m)
  BY LeastNumber
<1>2. m # 0
  <2>1. Flattens([i \in 1 .. 0 |-> {}], s, 0)
    BY DEF Flattens
  <2>2. QED BY <2>1
<1>3. m \in Nat /\ m - 1 \in Nat /\ m - 1 \notin T
  BY <1>1, <1>2
<1>4. PICK f : Flattens(f, s, m - 1)
  BY <1>3
<1> DEFINE g == [i \in 1 .. m |-> IF i < m THEN f[i]
                 ELSE IF i = 1 THEN s[i] ELSE f[i - 1] \o s[i]]
<1>5. \A i \in 1 .. m : i # 1 => g[i - 1] = f[i - 1]
  BY <1>3
<1>6. \A i \in 1 .. m : g[i] = (IF i = 1 THEN s[i] ELSE g[i - 1] \o s[i])
  <2>1. TAKE i \in 1 .. m
  <2>2. CASE i < m
    <3>1. i \in 1 .. m - 1 /\ g[i] = f[i]
      BY <1>3, <2>2
    <3>2. f[i] = (IF i = 1 THEN s[i] ELSE f[i - 1] \o s[i])
      BY <1>4, <3>1 DEF Flattens
    <3>3. QED
      BY <1>5, <3>1, <3>2
  <2>3. CASE ~(i < m)
    <3>1. g[i] = (IF i = 1 THEN s[i] ELSE f[i - 1] \o s[i])
      BY <2>3
    <3>2. QED
      BY <1>5, <3>1
  <2>4. QED
    BY <2>2, <2>3
<1>7. Flattens(g, s, m)
  BY <1>6 DEF Flattens
<1>8. QED
  BY <1>1, <1>7

LEMMA FlattenSeqIs ==
    ASSUME NEW s, Len(s) \in Nat, Len(s) # 0
    PROVE  FlattenSeq(s) = (CHOOSE f : Flattens(f, s, Len(s)))[Len(s)]
    BY DEF FlattenSeq, Flattens

LEMMA FlattenSeqLast ==
    ASSUME NEW s, Len(s) \in Nat, Len(s) # 0
    PROVE  \E f : Flattens(f, s, Len(s)) /\ FlattenSeq(s) = f[Len(s)]
<1>1. Flattens(CHOOSE f : Flattens(f, s, Len(s)), s, Len(s))
  BY FlattensExists
<1>2. QED
  BY <1>1, FlattenSeqIs

AgreeTo(a, b, n) == \A i \in 1 .. n : a[i] = b[i]

LEMMA FlattensPrefix ==
    ASSUME NEW s, NEW t, NEW n \in Nat, NEW k \in Nat, n <= k,
           AgreeTo(t, s, n),
           NEW f, NEW g, Flattens(f, s, n), Flattens(g, t, k)
    PROVE  AgreeTo(g, f, n)
<1> USE DEF AgreeTo
<1> DEFINE T == {m \in Nat : m \in 1 .. n /\ g[m] # f[m]}
<1> SUFFICES ASSUME T # {} PROVE FALSE
  OBVIOUS
<1>1. PICK m \in T : \A j \in T : ~(j < m)
  BY LeastNumber
<1>2. m \in 1 .. n /\ m \in 1 .. k /\ g[m] # f[m]
  OBVIOUS
<1>3. m # 1 => m - 1 \in 1 .. n /\ g[m - 1] = f[m - 1]
  BY <1>1, <1>2
<1>4. /\ f[m] = (IF m = 1 THEN s[m] ELSE f[m - 1] \o s[m])
      /\ g[m] = (IF m = 1 THEN t[m] ELSE g[m - 1] \o t[m])
  BY <1>2 DEF Flattens
<1>5. t[m] = s[m]
  BY <1>2
<1>6. QED
  BY <1>2, <1>3, <1>4, <1>5

LEMMA FlattensType ==
    ASSUME NEW S, NEW s \in Seq(Seq(S)), NEW f, Flattens(f, s, Len(s))
    PROVE  \A i \in 1 .. Len(s) : f[i] \in Seq(S)
<1> DEFINE T == {m \in Nat : m \in 1 .. Len(s) /\ f[m] \notin Seq(S)}
<1> SUFFICES ASSUME T # {} PROVE FALSE
  OBVIOUS
<1>1. PICK m \in T : \A j \in T : ~(j < m)
  BY LeastNumber
<1>2. m \in 1 .. Len(s) /\ f[m] \notin Seq(S) /\ s[m] \in Seq(S)
  OBVIOUS
<1>3. m # 1 => f[m - 1] \in Seq(S)
  BY <1>1, <1>2
<1>4. f[m] = (IF m = 1 THEN s[m] ELSE f[m - 1] \o s[m])
  BY <1>2 DEF Flattens
<1>5. f[m] \in Seq(S)
  BY <1>2, <1>3, <1>4
<1>6. QED
  BY <1>2, <1>5

LEMMA FlattenSeqType ==
    ASSUME NEW S, NEW s \in Seq(Seq(S))
    PROVE  FlattenSeq(s) \in Seq(S)
<1>1. CASE s = <<>>
  BY <1>1 DEF FlattenSeq
<1>2. CASE s # <<>>
  <2>1. Len(s) \in Nat /\ Len(s) # 0 /\ Len(s) \in 1 .. Len(s)
    BY <1>2
  <2>2. PICK f : Flattens(f, s, Len(s)) /\ FlattenSeq(s) = f[Len(s)]
    BY <2>1, FlattenSeqLast
  <2>3. QED
    BY <2>1, <2>2, FlattensType
<1>3. QED
  BY <1>1, <1>2

\* What one more frame adds to the messages received.
LEMMA FlattenSeqAppend ==
    ASSUME NEW S, NEW s \in Seq(Seq(S)), NEW e \in Seq(S)
    PROVE  FlattenSeq(Append(s, e)) = FlattenSeq(s) \o e
<1>1. PICK t : t = Append(s, e)
  OBVIOUS
<1>2. /\ Len(s) \in Nat /\ Len(t) = Len(s) + 1 /\ t[Len(t)] = e
      /\ \A i \in 1 .. Len(s) : t[i] = s[i]
  BY <1>1
<1>3. PICK g : Flattens(g, t, Len(t)) /\ FlattenSeq(t) = g[Len(t)]
  BY <1>2, FlattenSeqLast
<1>4. g[Len(t)] = IF Len(t) = 1 THEN t[Len(t)] ELSE g[Len(t) - 1] \o t[Len(t)]
  <2>1. Len(t) \in 1 .. Len(t)
    BY <1>2
  <2>2. QED
    BY <1>3, <2>1 DEF Flattens
<1>5. CASE s = <<>>
  BY <1>1, <1>2, <1>3, <1>4, <1>5 DEF FlattenSeq
<1>6. CASE s # <<>>
  <2>1. Len(s) # 0 /\ Len(t) # 1 /\ Len(t) - 1 = Len(s) /\ Len(s) \in 1 .. Len(s)
    BY <1>2, <1>6
  <2>2. PICK f : Flattens(f, s, Len(s)) /\ FlattenSeq(s) = f[Len(s)]
    BY <1>2, <2>1, FlattenSeqLast
  <2>3. Len(s) <= Len(t) /\ Len(t) \in Nat
    BY <1>2
  <2>4. AgreeTo(t, s, Len(s))
    BY <1>2 DEF AgreeTo
  <2>5. AgreeTo(g, f, Len(s))
    BY <1>2, <1>3, <2>2, <2>3, <2>4, FlattensPrefix
  <2>6. g[Len(s)] = f[Len(s)]
    BY <2>1, <2>5 DEF AgreeTo
  <2>7. QED
    BY <1>1, <1>2, <1>3, <1>4, <2>1, <2>2, <2>6
<1>7. QED
  BY <1>5, <1>6

-----------------------------------------------------------------------------
\* What each state of the hub allows, and the types TypeOK leaves open.
CapacityInv ==
    /\ Len(register) <= RegisterCap /\ Len(unregister) <= UnregisterCap
    /\ Len(broadcast) <= BroadcastCap
    /\ stage \in {"select", "fanout", "evict"}
    /\ stage = "evict" <=> victim # {}
    /\ stage = "select" <=> message = <<>>
    /\ message = <<>> \/ \E m \in Message : message = <<m>>
    /\ send \in [Clients -> Seq(Message)]
    /\ \A c \in Clients : Len(send[c]) <= SendCap

PumpTypes ==
    /\ conn \in [Clients -> {"none", "open", "broken", "closed"}]
    /\ writer \in [Clients -> {"off", "idle", "writing", "gone"}]
    /\ held \in [Clients -> Seq(Message)]
    /\ received \in [Clients -> Seq(Seq(Message))]
    /\ due \in [Clients -> Seq(Message)]

\* Everything that has been sent to a client and not lost, oldest first.
OnTheWay(c) ==
    FlattenSeq(received[c]) \o held[c] \o send[c]
       \o (IF c \in targets THEN message ELSE <<>>)

\* The equation holds from before the connection opens until it breaks.
DeliveryInv ==
    \A c \in Clients :
       /\ conn[c] = "none" => reader[c] = "off"
       /\ reader[c] = "off" => writer[c] = "off"
       /\ writer[c] = "off" \/ writer[c] = "idle" => held[c] = <<>>
       /\ c \notin missed /\ conn[c] \in {"none", "open"} /\ writer[c] # "gone"
             => OnTheWay(c) = due[c]

FullInv == HubInv /\ PublishedInv /\ CapacityInv /\ PumpTypes /\ DeliveryInv

LEMMA InitFullInv == Init => FullInv
<1> SUFFICES ASSUME Init PROVE FullInv
  OBVIOUS
<1>1. HubInv /\ PublishedInv
  BY InitHubInv, HubAssumption DEF Init, PublishedInv, HubAssumption
<1>2. CapacityInv
  BY HubAssumption DEF Init, CapacityInv, HubAssumption
<1>3. PumpTypes
  BY DEF Init, PumpTypes
<1>4. FlattenSeq(<<>>) = <<>>
  BY DEF FlattenSeq
<1>5. DeliveryInv
  BY <1>4 DEF Init, DeliveryInv, OnTheWay
<1>6. QED
  BY <1>1, <1>2, <1>3, <1>5 DEF FullInv

\* Each channel is bounded: a send waits for, or is refused by, a full one.
LEMMA NextCapacity ==
    ASSUME HubInv, CapacityInv, [Next]_vars
    PROVE  CapacityInv'
<1> USE HubAssumption DEF HubAssumption, CapacityInv
<1>1. /\ register \in Seq(Clients) /\ unregister \in Seq(Clients)
      /\ broadcast \in Seq(Message) /\ victim \subseteq Clients
  BY DEF HubInv, QueueTypes
<1>2. CASE HubRegister
  BY <1>1, <1>2 DEF HubRegister
<1>3. CASE HubUnregister
  BY <1>1, <1>3 DEF HubUnregister
<1>4. CASE HubBroadcast
  <2>1. Head(broadcast) \in Message
    BY <1>1, <1>4 DEF HubBroadcast
  <2>2. QED
    BY <1>1, <1>4, <2>1 DEF HubBroadcast
<1>5. CASE HubEvict
  BY <1>1, <1>5 DEF HubEvict
<1>6. CASE HubDone
  <2>1. victim = {}
    BY <1>6 DEF HubDone
  <2>2. QED
    BY <1>6, <2>1 DEF HubDone, channels
<1>7. ASSUME NEW c \in Clients, HubSend(c)
      PROVE  CapacityInv'
  <2>1. PICK m \in Message : message = <<m>>
    BY <1>7 DEF HubSend
  <2>2. send[c] \o message = Append(send[c], m)
    BY <2>1
  <2>3. /\ send' \in [Clients -> Seq(Message)]
        /\ \A d \in Clients : Len(send'[d]) <= SendCap
    BY <1>7, <2>2 DEF HubSend
  <2>4. QED
    BY <1>7, <2>3 DEF HubSend, channels
<1>8. ASSUME NEW c \in Clients, HubDrop(c)
      PROVE  CapacityInv'
  BY <1>8 DEF HubDrop, channels
<1>9. ASSUME NEW p \in Polls, Broadcast(p)
      PROVE  CapacityInv'
  BY <1>1, <1>9 DEF Broadcast, hub
<1>10. ASSUME NEW c \in Clients, Upgrade(c) \/ PeerBreaks(c) \/ PumpStep(c)
       PROVE  CapacityInv'
  <2>1. CASE Serve(c)
    BY <1>1, <2>1 DEF Serve, hub
  <2>2. CASE ReaderLeaves(c)
    BY <1>1, <2>2 DEF ReaderLeaves, hub
  <2>3. CASE WriterTakes(c) \/ WriterFlushes(c)
    <3>1. PICK q \in Seq(Message) :
             Len(q) <= SendCap /\ send' = [send EXCEPT ![c] = q]
      <4>1. CASE WriterTakes(c)
        <5>1. /\ Tail(send[c]) \in Seq(Message) /\ Len(Tail(send[c])) <= SendCap
              /\ send' = [send EXCEPT ![c] = Tail(send[c])]
          BY <4>1 DEF WriterTakes
        <5>2. QED
          BY <5>1
      <4>2. CASE WriterFlushes(c)
        <5>1. <<>> \in Seq(Message) /\ Len(<<>>) <= SendCap
          OBVIOUS
        <5>2. QED
          BY <4>2, <5>1 DEF WriterFlushes
      <4>3. QED
        BY <2>3, <4>1, <4>2
    <3>2. /\ send' \in [Clients -> Seq(Message)]
          /\ \A d \in Clients : Len(send'[d]) <= SendCap
      BY <3>1
    <3>3. QED
      BY <2>3, <3>2 DEF WriterTakes, WriterFlushes, channels, hub
  <2>4. CASE Upgrade(c) \/ PeerBreaks(c) \/ ReaderFails(c) \/ WriterEnds(c)
    BY <2>4
    DEF Upgrade, PeerBreaks, ReaderFails, WriterEnds, channels, hub
  <2>5. QED
    BY <1>10, <2>1, <2>2, <2>3, <2>4 DEF PumpStep
<1>11. CASE UNCHANGED vars
  BY <1>11 DEF vars, channels, hub
<1>12. QED
  BY <1>2, <1>3, <1>4, <1>5, <1>6, <1>7, <1>8, <1>9, <1>10, <1>11
  DEF Next, HubStep, Idle

LEMMA NextPumpTypes ==
    ASSUME HubInv, CapacityInv, PumpTypes, [Next]_vars
    PROVE  PumpTypes'
<1> USE DEF PumpTypes
<1>1. send \in [Clients -> Seq(Message)]
  BY DEF CapacityInv
<1>2. CASE HubBroadcast
  <2>1. Head(broadcast) \in Message
    BY <1>2 DEF HubBroadcast, HubInv, QueueTypes
  <2>2. due' \in [Clients -> Seq(Message)]
    BY <1>2, <2>1 DEF HubBroadcast
  <2>3. QED
    BY <1>2, <2>2 DEF HubBroadcast, pumps
<1>3. CASE HubStep /\ ~HubBroadcast
  BY <1>3
  DEF HubStep, HubRegister, HubUnregister, HubEvict, HubDone, HubSend, HubDrop,
      pumps, history
<1>4. ASSUME NEW c \in Clients, WriterTakes(c) \/ WriterFlushes(c)
      PROVE  PumpTypes'
  <2>1. CASE WriterTakes(c)
    <3>1. <<Head(send[c])>> \in Seq(Message)
      BY <1>1, <2>1 DEF WriterTakes
    <3>2. QED
      BY <2>1, <3>1 DEF WriterTakes, history
  <2>2. CASE WriterFlushes(c)
    <3>1. Frame(c) \in Seq(Message)
      BY <1>1 DEF Frame
    <3>2. Append(received[c], Frame(c)) \in Seq(Seq(Message))
      BY <3>1
    <3>3. received' \in [Clients -> Seq(Seq(Message))]
      BY <2>2, <3>2 DEF WriterFlushes
    <3>4. held' \in [Clients -> Seq(Message)]
      BY <2>2 DEF WriterFlushes
    <3>5. QED
      BY <2>2, <3>3, <3>4 DEF WriterFlushes, history
  <2>3. QED
    BY <1>4, <2>1, <2>2
<1>5. ASSUME NEW c \in Clients,
             \/ Upgrade(c) \/ PeerBreaks(c) \/ Serve(c)
             \/ ReaderFails(c) \/ ReaderLeaves(c) \/ WriterEnds(c)
      PROVE  PumpTypes'
  BY <1>5
  DEF Upgrade, PeerBreaks, Serve, ReaderFails, ReaderLeaves, WriterEnds, history
<1>6. CASE (\E p \in Polls : Broadcast(p)) \/ UNCHANGED vars
  BY <1>6 DEF Broadcast, vars, pumps, history
<1>7. QED
  BY <1>2, <1>3, <1>4, <1>5, <1>6 DEF Next, PumpStep, Idle

-----------------------------------------------------------------------------
\* How the parts of a client's messages are put together again.
LEMMA ConcatEmpty ==
    ASSUME NEW S, NEW a \in Seq(S)
    PROVE  a \o <<>> = a
  BY ConcatEmptySeq

LEMMA ConcatIsSeq ==
    ASSUME NEW S, NEW a \in Seq(S), NEW b \in Seq(S)
    PROVE  a \o b \in Seq(S)
  BY ConcatProperties

LEMMA ConcatGroup ==
    ASSUME NEW S, NEW a \in Seq(S), NEW b \in Seq(S), NEW c \in Seq(S)
    PROVE  a \o (b \o c) = a \o b \o c
  BY ConcatAssociative

LEMMA ConcatPush ==
    ASSUME NEW S, NEW a \in Seq(S), NEW b \in Seq(S), NEW c \in Seq(S)
    PROVE  a \o (b \o c) \o <<>> = a \o b \o c
<1>1. a \o (b \o c) \in Seq(S)
  OBVIOUS
<1>2. QED
  BY <1>1, ConcatEmpty, ConcatGroup

LEMMA MessagesPush ==
    \A x, y, z \in Seq(Message) : x \o (y \o z) \o <<>> = x \o y \o z
  BY ConcatPush

LEMMA ConcatTakeOne ==
    ASSUME NEW S, NEW a \in Seq(S), NEW q \in Seq(S), q # <<>>
    PROVE  a \o <<>> \o q = a \o <<Head(q)>> \o Tail(q)
<1>1. /\ <<Head(q)>> \in Seq(S) /\ Tail(q) \in Seq(S)
      /\ q = <<Head(q)>> \o Tail(q)
  OBVIOUS
<1>2. a \o <<>> = a
  BY ConcatEmptySeq
<1>3. a \o (<<Head(q)>> \o Tail(q)) = a \o <<Head(q)>> \o Tail(q)
  BY <1>1, ConcatAssociative
<1>4. QED
  BY <1>1, <1>2, <1>3

-----------------------------------------------------------------------------
\* Where a message is on its way when a step of the hub moves it.
LEMMA FanoutDelivery ==
    ASSUME FullInv, HubStep
    PROVE  DeliveryInv'
<1> USE DEF FullInv
<1>1. UNCHANGED <<conn, reader, writer, held, received>>
  BY DEF HubStep, HubRegister, HubUnregister, HubBroadcast, HubEvict, HubDone,
         HubSend, HubDrop, pumps
<1> SUFFICES ASSUME NEW c \in Clients,
                    c \notin missed', conn[c] \in {"none", "open"},
                    writer[c] # "gone"
             PROVE  OnTheWay(c)' = due'[c]
  BY <1>1 DEF DeliveryInv
<1>2. c \notin missed => OnTheWay(c) = due[c]
  BY DEF DeliveryInv
<1>3. /\ send[c] \in Seq(Message) /\ held[c] \in Seq(Message)
      /\ FlattenSeq(received[c]) \in Seq(Message) /\ due[c] \in Seq(Message)
  BY FlattenSeqType DEF CapacityInv, PumpTypes
<1>4. CASE HubRegister \/ HubUnregister \/ HubEvict
  BY <1>1, <1>2, <1>4
  DEF HubRegister, HubUnregister, HubEvict, OnTheWay, history
<1>5. CASE HubBroadcast
  <2>1. targets = {} /\ UNCHANGED <<send, missed>>
    BY <1>5 DEF HubBroadcast, HubInv, OnceOnly
  <2>2. PICK m \in Message : m = Head(broadcast)
    BY <1>5 DEF HubBroadcast, HubInv, QueueTypes
  <2>3. /\ message' = <<m>> /\ targets' = rooms[m.poll]
        /\ due'[c] = IF c \in rooms[m.poll] THEN Append(due[c], m) ELSE due[c]
    BY <1>5, <2>2 DEF HubBroadcast, Audience
  <2>4. FlattenSeq(received[c]) \o held[c] \o send[c] = due[c]
    <3>1. OnTheWay(c) = FlattenSeq(received[c]) \o held[c] \o send[c] \o <<>>
      BY <2>1 DEF OnTheWay
    <3>2. PICK h \in Seq(Message) :
             h = FlattenSeq(received[c]) \o held[c] \o send[c]
      BY <1>3, ConcatIsSeq
    <3>3. h \o <<>> = h
      BY ConcatEmpty
    <3>4. QED
      BY <1>2, <2>1, <3>1, <3>2, <3>3
  <2>5. CASE c \in rooms[m.poll]
    <3>1. OnTheWay(c)' = due[c] \o <<m>>
      BY <1>1, <2>1, <2>3, <2>4, <2>5 DEF OnTheWay
    <3>2. QED
      BY <1>3, <2>3, <2>5, <3>1
  <2>6. CASE c \notin rooms[m.poll]
    <3>1. OnTheWay(c)' = due[c] \o <<>>
      BY <1>1, <2>1, <2>3, <2>4, <2>6 DEF OnTheWay
    <3>2. QED
      BY <1>3, <2>3, <2>6, <3>1
  <2>7. QED
    BY <2>5, <2>6
<1>6. CASE HubDone
  BY <1>1, <1>2, <1>6 DEF HubDone, OnTheWay, history
<1>7. ASSUME NEW d \in Clients, HubSend(d)
      PROVE  OnTheWay(c)' = due'[c]
  <2>1. UNCHANGED <<missed, message, due>> /\ message \in Seq(Message)
    <3>1. message = <<>> \/ \E m \in Message : message = <<m>>
      BY DEF CapacityInv
    <3>2. \A m \in Message : <<m>> \in Seq(Message)
      OBVIOUS
    <3>3. <<>> \in Seq(Message)
      OBVIOUS
    <3>4. message \in Seq(Message)
      BY <3>1, <3>2, <3>3
    <3>5. QED
      BY <1>7, <3>4 DEF HubSend, history
  <2>2. CASE c = d
    <3>1. /\ send'[c] = send[c] \o message
          /\ c \in targets /\ c \notin targets'
      BY <1>7, <2>2 DEF HubSend, CapacityInv
    <3>2. OnTheWay(c)' = FlattenSeq(received[c]) \o held[c]
                           \o (send[c] \o message) \o <<>>
      BY <1>1, <3>1 DEF OnTheWay
    <3>3. OnTheWay(c) = FlattenSeq(received[c]) \o held[c] \o send[c] \o message
      BY <3>1 DEF OnTheWay
    <3>4. PICK a, b, e \in Seq(Message), m \in Seq(Message) :
             /\ a = FlattenSeq(received[c]) /\ b = held[c]
             /\ e = send[c] /\ m = message
      BY <1>3, <2>1
    <3>5. PICK h \in Seq(Message) : h = a \o b
      BY ConcatIsSeq
    <3>6. h \o (e \o m) \o <<>> = h \o e \o m
      BY MessagesPush
    <3>7. QED
      BY <1>2, <2>1, <3>2, <3>3, <3>4, <3>5, <3>6
  <2>3. CASE c # d
    <3>1. send'[c] = send[c] /\ (c \in targets' <=> c \in targets)
      BY <1>7, <2>3 DEF HubSend, CapacityInv
    <3>2. QED
      BY <1>1, <1>2, <2>1, <3>1 DEF OnTheWay
  <2>4. QED
    BY <2>2, <2>3
<1>8. ASSUME NEW d \in Clients, HubDrop(d)
      PROVE  OnTheWay(c)' = due'[c]
  <2>1. c # d /\ c \notin missed /\ (c \in targets' <=> c \in targets)
    BY <1>8 DEF HubDrop
  <2>2. QED
    BY <1>1, <1>2, <1>8, <2>1 DEF HubDrop, OnTheWay
<1>9. QED
  BY <1>4, <1>5, <1>6, <1>7, <1>8 DEF HubStep

\* The steps of a connection; a write moves what is held and queued into one
\* frame, in that order.
LEMMA PumpDelivery ==
    ASSUME FullInv, NEW d \in Clients,
           Upgrade(d) \/ PeerBreaks(d) \/ PumpStep(d)
    PROVE  DeliveryInv'
<1> USE DEF FullInv
<1>1. UNCHANGED <<targets, message, due, missed>>
  BY DEF Upgrade, PeerBreaks, PumpStep, Serve, ReaderFails, ReaderLeaves,
         WriterTakes, WriterFlushes, WriterEnds, hub, history
<1>2. \A c \in Clients :
         /\ send[c] \in Seq(Message) /\ held[c] \in Seq(Message)
         /\ received[c] \in Seq(Seq(Message))
         /\ FlattenSeq(received[c]) \in Seq(Message)
  BY FlattenSeqType DEF CapacityInv, PumpTypes
<1>3. \A c \in Clients : c # d =>
         /\ conn'[c] = conn[c] /\ reader'[c] = reader[c]
         /\ writer'[c] = writer[c] /\ held'[c] = held[c]
         /\ received'[c] = received[c] /\ send'[c] = send[c]
  BY DEF PumpTypes, CapacityInv, HubInv, QueueTypes, Upgrade, PeerBreaks,
         PumpStep, Serve, ReaderFails, ReaderLeaves, WriterTakes,
         WriterFlushes, WriterEnds
<1>4. \A c \in Clients : c # d => OnTheWay(c)' = OnTheWay(c)
  BY <1>1, <1>3 DEF OnTheWay
<1>5. SUFFICES
         /\ conn'[d] = "none" => reader'[d] = "off"
         /\ reader'[d] = "off" => writer'[d] = "off"
         /\ writer'[d] = "off" \/ writer'[d] = "idle" => held'[d] = <<>>
         /\ d \notin missed /\ conn'[d] \in {"none", "open"}
                /\ writer'[d] # "gone" => OnTheWay(d)' = due[d]
  BY <1>1, <1>3, <1>4 DEF DeliveryInv
<1>6. CASE Upgrade(d) \/ PeerBreaks(d) \/ Serve(d) \/ ReaderFails(d)
             \/ ReaderLeaves(d) \/ WriterEnds(d)
  <2>1. UNCHANGED <<send, held, received>>
    BY <1>6 DEF Upgrade, PeerBreaks, Serve, ReaderFails, ReaderLeaves, WriterEnds
  <2>2. OnTheWay(d)' = OnTheWay(d)
    BY <1>1, <2>1 DEF OnTheWay
  <2>3. /\ conn'[d] = "none" => conn[d] = "none" /\ ~Serve(d)
        /\ reader'[d] = "off" => reader[d] = "off"
        /\ writer'[d] = "off" => writer[d] = "off"
        /\ reader'[d] = "off" => writer'[d] = writer[d] \/ writer'[d] = "gone"
    BY <1>6
    DEF PumpTypes, HubInv, QueueTypes, Upgrade, PeerBreaks, Serve, ReaderFails,
        ReaderLeaves, WriterEnds
  <2>4. QED
    BY <1>6, <2>1, <2>2, <2>3
    DEF DeliveryInv, PumpTypes, HubInv, QueueTypes, Upgrade, PeerBreaks, Serve,
        ReaderFails, ReaderLeaves, WriterEnds
<1>7. CASE WriterTakes(d)
  <2>1. /\ writer[d] = "idle" /\ held[d] = <<>> /\ send[d] # <<>>
        /\ held'[d] = <<Head(send[d])>> /\ send'[d] = Tail(send[d])
        /\ writer'[d] = "writing" /\ UNCHANGED <<conn, reader, received>>
    BY <1>7 DEF WriterTakes, DeliveryInv, PumpTypes, CapacityInv
  <2>2. FlattenSeq(received[d]) \o <<>> \o send[d]
           = FlattenSeq(received[d]) \o <<Head(send[d])>> \o Tail(send[d])
    BY <1>2, <2>1, ConcatTakeOne
  <2>3. OnTheWay(d)' = OnTheWay(d)
    BY <1>1, <2>1, <2>2 DEF OnTheWay
  <2>4. QED
    BY <2>1, <2>3 DEF DeliveryInv
<1>8. CASE WriterFlushes(d)
  <2>1. /\ writer[d] = "writing" /\ writer'[d] = "idle"
        /\ held'[d] = <<>> /\ send'[d] = <<>> /\ UNCHANGED <<conn, reader>>
    BY <1>8 DEF WriterFlushes, PumpTypes, CapacityInv
  <2>2. conn[d] # "none"
    BY <2>1 DEF DeliveryInv
  <2>3. ASSUME conn[d] = "open"
        PROVE  OnTheWay(d)' = OnTheWay(d)
    <3>1. received'[d] = Append(received[d], held[d] \o send[d])
      BY <1>8, <2>3 DEF WriterFlushes, Frame, PumpTypes
    <3>2. held[d] \o send[d] \in Seq(Message)
      BY <1>2
    <3>3. FlattenSeq(received'[d])
             = FlattenSeq(received[d]) \o (held[d] \o send[d])
      BY <1>2, <3>1, <3>2, FlattenSeqAppend
    <3>4. PICK a, b, e \in Seq(Message) :
             a = FlattenSeq(received[d]) /\ b = held[d] /\ e = send[d]
      BY <1>2
    <3>5. a \o (b \o e) \o <<>> = a \o b \o e
      BY ConcatPush
    <3>6. PICK h \in Seq(Message) : h = a \o b \o e
      BY ConcatIsSeq
    <3>7. h \o <<>> = h
      BY ConcatEmpty
    <3>8. QED
      BY <1>1, <2>1, <3>1, <3>3, <3>4, <3>5, <3>6, <3>7 DEF OnTheWay
  <2>4. QED
    BY <2>1, <2>2, <2>3 DEF DeliveryInv
<1>9. QED
  BY <1>6, <1>7, <1>8 DEF PumpStep

LEMMA NextFullInv == FullInv /\ [Next]_vars => FullInv'
<1> SUFFICES ASSUME FullInv, [Next]_vars PROVE FullInv'
  OBVIOUS
<1>1. HubInv' /\ PublishedInv' /\ CapacityInv' /\ PumpTypes'
  BY NextHubInv, NextCapacity, NextPumpTypes DEF FullInv
<1>2. ASSUME (\E p \in Polls : Broadcast(p)) \/ UNCHANGED vars
      PROVE  DeliveryInv'
  <2>1. UNCHANGED <<targets, message, send, pumps, due, missed>>
    BY <1>2 DEF Broadcast, vars, hub, history
  <2>2. \A c \in Clients : OnTheWay(c)' = OnTheWay(c)
    BY <2>1 DEF OnTheWay, pumps
  <2>3. QED
    BY <2>1, <2>2 DEF FullInv, DeliveryInv, pumps
<1>3. DeliveryInv'
  BY <1>2, FanoutDelivery, PumpDelivery DEF FullInv, Next, Idle
<1>4. QED
  BY <1>1, <1>3 DEF FullInv

LEMMA FullInvHolds == Spec => []FullInv
  BY InitFullInv, NextFullInv, PTL DEF Spec

\* Every channel stays within its capacity, whatever the capacities are.
THEOREM HubTypeOK == Spec => []TypeOK
<1>1. FullInv => TypeOK
  BY DEF FullInv, HubInv, QueueTypes, OnceOnly, PublishedInv, CapacityInv,
         PumpTypes, TypeOK
<1>2. QED
  BY <1>1, FullInvHolds, PTL

\* A connected client that missed nothing has been sent, or will be, exactly
\* what was broadcast to its room, in order and once.
THEOREM NothingIsLost == Spec => []NothingLostOnTheWay
<1>1. FullInv => NothingLostOnTheWay
  BY DEF FullInv, DeliveryInv, OnTheWay, NothingLostOnTheWay
<1>2. QED
  BY <1>1, FullInvHolds, PTL
=============================================================================
