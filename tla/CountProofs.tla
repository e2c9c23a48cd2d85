---------------------------- MODULE CountProofs ----------------------------
(***************************************************************************)
(* Theorems about the counts that Backend reads and publishes, for all     *)
(* values of its constants.                                                *)
(***************************************************************************)
EXTENDS PollProofs

\* The largest number of times that one HINCRBY may take effect.
MostTimes == IF "resend" \in Faults THEN 1 + MaxResend ELSE 1

LEMMA MostTimesIsMost ==
    /\ MostTimes \in Nat /\ MostTimes >= 1 /\ MostTimes \in WriteTimes
    /\ \A n \in WriteTimes : n \in Nat /\ n <= MostTimes
BY StoreAssumption DEF StoreAssumption, MostTimes, WriteTimes

\* The votes ever inserted for option o of poll p.
Inserted(p, o) == VotesFor(accepted, p, o)

LEMMA InsertedFinite ==
    ASSUME TypeInv, NEW p, NEW o
    PROVE  /\ IsFiniteSet(Inserted(p, o)) /\ Cardinality(Inserted(p, o)) \in Nat
           /\ IsFiniteSet(Counted(p, o)) /\ Cardinality(Counted(p, o)) \in Nat
           /\ Cardinality(Counted(p, o)) <= Cardinality(Inserted(p, o))
           /\ IsFiniteSet(VotesFor(votes, p, o)) /\ Cardinality(VotesFor(votes, p, o)) \in Nat
           /\ Cardinality(VotesFor(votes, p, o)) <= Cardinality(Inserted(p, o))
<1>1. IsFiniteSet(Inserted(p, o))
  BY FS_Subset DEF TypeInv, StoreOK, Inserted, VotesFor
<1>2. Counted(p, o) \in SUBSET Inserted(p, o) /\ VotesFor(votes, p, o) \in SUBSET Inserted(p, o)
  BY DEF TypeInv, StoreOK, Counted, Inserted, VotesFor
<1>3. QED
  BY <1>1, <1>2, FS_Subset, FS_CardinalityType

-----------------------------------------------------------------------------
\* How a handler comes to a stage, and what it has done then.
LEMMA IncrSteps ==
    ASSUME TypeInv, [Next]_vars, NEW r \in Requests, pc'[r] = "incr", pc[r] # "incr"
    PROVE  VoteInserted(r) /\ UNCHANGED <<counters, call>>
<1>1. PICK q \in Requests : HandlerStep(q)
  BY DEF Next, Idle, Startup, Crash, RedisFlush, vars, handlers
<1>2. q = r
  BY <1>1, HandlerFrame DEF OnlyHandler
<1>3. CASE CastInsert(r)
  <2>1. /\ call[r].kind = "vote" /\ pc[r] = "insert" /\ up
        /\ UNCHANGED <<polls, issued, loaded, counters, call>>
    BY <1>3 DEF TypeInv, StageOK, CastStages, CastInsert, At, redis, process
  <2>2. ~Answer(r, "internal")
    BY DEF Answer, TypeInv, HandlersOK
  <2>3. /\ ~DuplicateKey(VoteOf(r))
        /\ votes' = votes \cup {VoteOf(r)} /\ accepted' = accepted \cup {VoteOf(r)}
    BY <1>3, <2>2 DEF CastInsert, FailsInternally
  <2>4. QED
    BY <2>1, <2>3 DEF VoteInserted
<1>4. CASE ~CastInsert(r)
  <2>1. ~CastLoad(r) /\ ~CastCheck(r) /\ ~CastIncr(r) /\ ~CastRead(r) /\ ~CastPublish(r)
    BY DEF CastLoad, CastCheck, CastIncr, CastRead, CastPublish, Goto, Answer,
           FailsInternally, CastNext, TypeInv, HandlersOK
  <2>2. ~ResultsLoad(r) /\ ~ResultsRead(r) /\ ~Create(r) /\ ~OwnerLoad(r)
    BY DEF ResultsLoad, ResultsRead, Create, OwnerLoad, Goto, Answer, FailsInternally,
           FirstWrite, OwnerKinds, Starts, TypeInv, HandlersOK
  <2>3. ~WriteFields(r) /\ ~Reload(r) /\ ~PurgeVotes(r) /\ ~RemovePoll(r)
    BY DEF WriteFields, Reload, PurgeVotes, RemovePoll, Goto, Answer, FailsInternally,
           TypeInv, HandlersOK
  <2>4. QED
    BY <1>1, <1>2, <1>4, <2>1, <2>2, <2>3
    DEF HandlerStep, VoteServiceNext, CastStep, PollServiceNext, OwnerStep
<1>5. QED
  BY <1>3, <1>4

LEMMA PublishSteps ==
    ASSUME TypeInv, [Next]_vars, NEW r \in Requests, pc'[r] = "publish"
    PROVE  /\ call' = call
           /\ \/ pc[r] = "publish" /\ counts'[r] = counts[r]
              \/ CastRead(r)
<1>1. CASE \E q \in Requests : HandlerStep(q) /\ q # r
  BY <1>1, HandlerFrame DEF OnlyHandler
<1>2. CASE HandlerStep(r)
  <2>1. call' = call
    BY <1>2, HandlerFrame DEF OnlyHandler
  <2>2. ~CastLoad(r) /\ ~CastCheck(r) /\ ~CastInsert(r) /\ ~CastIncr(r) /\ ~CastPublish(r)
    BY DEF CastLoad, CastCheck, CastInsert, CastIncr, CastPublish, Goto, Answer,
           FailsInternally, CastNext, TypeInv, HandlersOK
  <2>3. ~ResultsLoad(r) /\ ~ResultsRead(r) /\ ~Create(r) /\ ~OwnerLoad(r)
    BY DEF ResultsLoad, ResultsRead, Create, OwnerLoad, Goto, Answer, FailsInternally,
           FirstWrite, OwnerKinds, Starts, TypeInv, HandlersOK
  <2>4. ~WriteFields(r) /\ ~Reload(r) /\ ~PurgeVotes(r) /\ ~RemovePoll(r)
    BY DEF WriteFields, Reload, PurgeVotes, RemovePoll, Goto, Answer, FailsInternally,
           TypeInv, HandlersOK
  <2>5. QED
    BY <1>2, <2>1, <2>2, <2>3, <2>4
    DEF HandlerStep, VoteServiceNext, CastStep, PollServiceNext, OwnerStep
<1>3. CASE Startup \/ Crash \/ RedisFlush \/ UNCHANGED vars
  BY <1>3
  DEF Startup, Crash, RedisFlush, vars, process, handlers, InFlight, Stages, TypeInv, HandlersOK
<1>4. QED
  BY <1>1, <1>2, <1>3 DEF Next, Idle

\* Who writes the counters and the channels.
LEMMA RedisSteps ==
    ASSUME TypeInv, [Next]_vars
    PROVE  /\ \/ counters' = counters
              \/ RedisFlush
              \/ \E r \in Requests : CastIncr(r)
           /\ \/ events' = events
              \/ \E r \in Requests : CastPublish(r)
<1>1. ASSUME NEW r \in Requests, HandlerStep(r), ~CastIncr(r), ~CastPublish(r)
      PROVE  UNCHANGED <<counters, events>>
  BY <1>1
  DEF HandlerStep, VoteServiceNext, CastStep, PollServiceNext, OwnerStep, CastLoad,
      CastCheck, CastInsert, CastRead, ResultsLoad, ResultsRead, Create, OwnerLoad,
      WriteFields, Reload, PurgeVotes, RemovePoll, redis
<1>2. ASSUME NEW r \in Requests
      PROVE  (CastIncr(r) => events' = events) /\ (CastPublish(r) => counters' = counters)
  BY DEF CastIncr, CastPublish
<1>3. QED
  BY <1>1, <1>2 DEF Next, Idle, Startup, Crash, RedisFlush, vars, redis

\* Votes that are counted stay counted.
LEMMA CountedGrows ==
    ASSUME TypeInv, LifeInv, [Next]_vars, NEW p, NEW o
    PROVE  /\ Inserted(p, o) \subseteq Inserted(p, o)'
           /\ Counted(p, o) \subseteq Counted(p, o)'
<1>1. accepted \subseteq accepted'
  BY VoteSteps DEF VoteStep, VoteInserted, VotesPurged
<1>2. ASSUME NEW v \in accepted, pc[v.id] # "incr"
      PROVE  pc'[v.id] # "incr"
  <2>1. v.id \in Requests /\ pc[v.id] # "insert"
    BY <1>2 DEF TypeInv, StoreOK, VoteDoc, LifeInv, VoteFits
  <2>2. QED
    BY <1>2, <2>1, IncrSteps DEF VoteInserted
<1>3. QED
  BY <1>1, <1>2 DEF Inserted, Counted, VotesFor

LEMMA CardinalitiesGrow ==
    ASSUME TypeInv, LifeInv, [Next]_vars, NEW p, NEW o
    PROVE  /\ Cardinality(Inserted(p, o)) <= Cardinality(Inserted(p, o)')
           /\ Cardinality(Counted(p, o)) <= Cardinality(Counted(p, o)')
           /\ Cardinality(Inserted(p, o)') \in Nat
           /\ Cardinality(Counted(p, o)') \in Nat
<1>1. TypeInv'
  BY NextTypeInv
<1>2. IsFiniteSet(accepted')
  BY <1>1 DEF TypeInv, StoreOK
<1>3. Inserted(p, o)' \in SUBSET accepted' /\ Counted(p, o)' \in SUBSET accepted'
  BY DEF Inserted, Counted, VotesFor
<1>4. IsFiniteSet(Inserted(p, o)') /\ IsFiniteSet(Counted(p, o)')
  BY <1>2, <1>3, FS_Subset
<1>5. /\ Inserted(p, o) \in SUBSET (Inserted(p, o)')
      /\ Counted(p, o) \in SUBSET (Counted(p, o)')
  BY CountedGrows
<1>6. QED
  BY <1>4, <1>5, FS_Subset, FS_CardinalityType

-----------------------------------------------------------------------------
\* What the faults can add: a counter exceeds the counted votes at most by the
\* repetitions of HINCRBY, and what is read or published was a counter once.
Bounded(e, p) == \A o \in DOMAIN e : e[o] <= MostTimes * Cardinality(Inserted(p, o))

BoundInv ==
    /\ \A p \in Polls, o \in Options :
          counters[p][o] <= MostTimes * Cardinality(Counted(p, o))
    /\ \A r \in Requests : pc[r] = "incr" => VoteOf(r) \in accepted
    /\ \A r \in Requests : pc[r] = "publish" => Bounded(counts[r], call[r].poll)
    /\ \A p \in Polls : \A i \in DOMAIN events[p] : Bounded(events[p][i], p)

LEMMA TimesGrow ==
    ASSUME NEW m \in Nat, NEW j \in Nat, NEW k \in Nat, j <= k
    PROVE  /\ m * j \in Nat /\ m * j <= m * k
           /\ m * (j + 1) = m * j + m
<1>1. PICK d \in Nat : k = j + d
  <2>1. k - j \in Nat /\ k = j + (k - j)
    OBVIOUS
  <2>2. QED
    BY <2>1
<1>2. m * k = m * j + m * d
  BY <1>1
<1>3. m * d \in Nat /\ m * j \in Nat
  OBVIOUS
<1>4. QED
  BY <1>2, <1>3

\* A map that is bounded stays bounded, for the votes ever inserted only grow.
LEMMA BoundedStays ==
    ASSUME TypeInv, LifeInv, [Next]_vars, NEW p, NEW e \in CountMaps, Bounded(e, p)
    PROVE  Bounded(e, p)'
<1> SUFFICES ASSUME NEW o \in DOMAIN e
             PROVE  e[o] <= MostTimes * Cardinality(Inserted(p, o)')
  BY DEF Bounded
<1>1. /\ Cardinality(Inserted(p, o)) \in Nat /\ Cardinality(Inserted(p, o)') \in Nat
      /\ Cardinality(Inserted(p, o)) <= Cardinality(Inserted(p, o)')
  BY InsertedFinite, CardinalitiesGrow
<1>2. MostTimes * Cardinality(Inserted(p, o)) <= MostTimes * Cardinality(Inserted(p, o)')
      /\ MostTimes * Cardinality(Inserted(p, o)) \in Nat
      /\ MostTimes * Cardinality(Inserted(p, o)') \in Nat
  BY <1>1, TimesGrow, MostTimesIsMost
<1>3. e[o] \in Nat /\ e[o] <= MostTimes * Cardinality(Inserted(p, o))
  BY DEF Bounded, CountMaps
<1>4. QED
  BY <1>2, <1>3

\* Whatever CastRead takes its counts from, they are bounded.
LEMMA ReadBounded ==
    ASSUME TypeInv, BoundInv, NEW r \in Requests, CastRead(r)
    PROVE  Bounded(counts'[r], call[r].poll)
<1>1. PICK p \in Polls : p = call[r].poll
  BY VoteOfType DEF CastRead, At, TypeInv, StageOK, CastStages
<1>2. loaded[r].options \in SUBSET Options
  BY DEF CastRead, At, TypeInv, StageOK, CastStages, PollDoc
<1>3. ASSUME NEW o \in loaded[r].options
      PROVE  /\ counters[p][o] <= MostTimes * Cardinality(Inserted(p, o))
             /\ CountByOption(p, o) <= MostTimes * Cardinality(Inserted(p, o))
  <2> DEFINE ins == Cardinality(Inserted(p, o))
             cnt == Cardinality(Counted(p, o))
             sto == Cardinality(VotesFor(votes, p, o))
  <2>1. ins \in Nat /\ cnt \in Nat /\ sto \in Nat /\ cnt <= ins /\ sto <= ins
    BY InsertedFinite
  <2>2. MostTimes * cnt <= MostTimes * ins
        /\ MostTimes * cnt \in Nat /\ MostTimes * ins \in Nat
    BY <2>1, TimesGrow, MostTimesIsMost
  <2>3. PICK k \in Nat : MostTimes = 1 + k
    <3>1. MostTimes - 1 \in Nat /\ MostTimes = 1 + (MostTimes - 1)
      BY MostTimesIsMost
    <3>2. QED
      BY <3>1
  <2>4. ins <= MostTimes * ins
    <3>1. (1 + k) * ins = ins + k * ins /\ k * ins \in Nat
      BY <2>1
    <3>2. QED
      BY <2>1, <2>3, <3>1
  <2>5. counters[p][o] \in Nat /\ counters[p][o] <= MostTimes * cnt
    BY <1>2, <1>3 DEF BoundInv, TypeInv, StoreOK
  <2>6. QED
    BY <2>1, <2>2, <2>4, <2>5 DEF CountByOption
<1>4. Bounded(RedisCounts(p, loaded[r].options), p)
  BY <1>3 DEF Bounded, RedisCounts
<1>5. Bounded(MongoCounts(p, loaded[r].options), p)
  BY <1>3 DEF Bounded, MongoCounts
<1>6. Bounded(NoCounts, p)
  BY DEF Bounded, NoCounts
<1>7. counts'[r] \in {RedisCounts(p, loaded[r].options),
                      MongoCounts(p, loaded[r].options), NoCounts}
  BY <1>1 DEF CastRead, TypeInv, HandlersOK
<1>8. QED
  BY <1>1, <1>4, <1>5, <1>6, <1>7

\* HINCRBY moves the handler's own vote into the counted ones.
LEMMA IncrBounded ==
    ASSUME TypeInv, LifeInv, BoundInv, NEW r \in Requests, CastIncr(r),
           NEW p \in Polls, NEW o \in Options
    PROVE  counters'[p][o] <= MostTimes * Cardinality(Counted(p, o)')
<1> DEFINE cnt == Cardinality(Counted(p, o))
<1>1. /\ pc[r] = "incr" /\ call[r].kind = "vote" /\ UNCHANGED <<accepted, call>>
      /\ pc' = [pc EXCEPT ![r] = "read"]
  BY DEF TypeInv, StageOK, CastStages, CastIncr, At, Goto, CastNext, mongo, process
<1>2. PICK n \in WriteTimes :
        counters' = [counters EXCEPT ![call[r].poll][call[r].option] = @ + n]
  BY DEF CastIncr
<1>3. n \in Nat /\ n <= MostTimes /\ MostTimes \in Nat
  BY MostTimesIsMost
<1>4. /\ cnt \in Nat /\ counters[p][o] \in Nat
      /\ counters[p][o] <= MostTimes * cnt
  BY InsertedFinite DEF BoundInv, TypeInv, StoreOK
<1>5. [Next]_vars
  BY DEF Next, HandlerStep, VoteServiceNext, CastStep
<1>6. cnt <= Cardinality(Counted(p, o)') /\ Cardinality(Counted(p, o)') \in Nat
  BY <1>5, CardinalitiesGrow
<1>7. CASE call[r].poll = p /\ call[r].option = o
  <2>1. VoteOf(r) \in VotesFor(accepted, p, o) /\ VoteOf(r).id = r
    BY <1>1, <1>7, VoteOfType DEF TypeInv, BoundInv, VotesFor
  <2>2. VoteOf(r) \notin Counted(p, o)
    BY <1>1, <2>1 DEF Counted
  <2>3. Counted(p, o)' = Counted(p, o) \cup {VoteOf(r)}
    <3>1. \A v \in accepted : v.id \in Requests /\ (v.id = r => v = VoteOf(r))
      BY DEF TypeInv, StoreOK, VoteDoc, LifeInv, VoteFits
    <3>2. QED
      BY <1>1, <2>1, <3>1 DEF Counted, VotesFor, TypeInv, HandlersOK
  <2>4. Cardinality(Counted(p, o)') = cnt + 1
    BY <2>2, <2>3, InsertedFinite, FS_AddElement
  <2>5. counters'[p][o] = counters[p][o] + n
    BY <1>2, <1>7 DEF TypeInv, StoreOK
  <2>6. MostTimes * (cnt + 1) = MostTimes * cnt + MostTimes /\ MostTimes * cnt \in Nat
    BY <1>3, <1>4, TimesGrow
  <2>7. QED
    BY <1>3, <1>4, <2>4, <2>5, <2>6
<1>8. CASE ~(call[r].poll = p /\ call[r].option = o)
  <2>1. counters'[p][o] = counters[p][o]
    BY <1>1, <1>2, <1>8, VoteOfType DEF TypeInv, StoreOK
  <2>2. /\ MostTimes * cnt <= MostTimes * Cardinality(Counted(p, o)')
        /\ MostTimes * cnt \in Nat /\ MostTimes * Cardinality(Counted(p, o)') \in Nat
    BY <1>3, <1>4, <1>6, TimesGrow
  <2>3. QED
    BY <1>4, <2>1, <2>2
<1>9. QED
  BY <1>7, <1>8

LEMMA NextBoundInv == TypeInv /\ LifeInv /\ BoundInv /\ [Next]_vars => BoundInv'
<1> SUFFICES ASSUME TypeInv, LifeInv, BoundInv, [Next]_vars PROVE BoundInv'
  OBVIOUS
<1>1. ASSUME NEW p \in Polls, NEW o \in Options
      PROVE  counters'[p][o] <= MostTimes * Cardinality(Counted(p, o)')
  <2> DEFINE cnt == Cardinality(Counted(p, o))
  <2>1. /\ MostTimes * cnt <= MostTimes * Cardinality(Counted(p, o)')
        /\ MostTimes * cnt \in Nat /\ MostTimes * Cardinality(Counted(p, o)') \in Nat
    BY InsertedFinite, CardinalitiesGrow, TimesGrow, MostTimesIsMost
  <2>2. CASE counters' = counters
    <3>1. counters[p][o] \in Nat /\ counters[p][o] <= MostTimes * cnt
      BY DEF BoundInv, TypeInv, StoreOK
    <3>2. QED
      BY <2>1, <2>2, <3>1
  <2>3. CASE RedisFlush
    BY <2>1, <2>3 DEF RedisFlush
  <2>4. QED
    BY <2>2, <2>3, IncrBounded, RedisSteps
<1>2. ASSUME NEW r \in Requests, pc'[r] = "incr"
      PROVE  VoteOf(r)' \in accepted'
  <2>1. CASE pc[r] = "incr"
    <3>1. VoteOf(r) \in accepted /\ accepted \subseteq accepted'
      BY <2>1, VoteSteps DEF BoundInv, VoteStep, VoteInserted, VotesPurged
    <3>2. call' = call
      BY HandlerFrame
      DEF Next, Idle, Startup, Crash, RedisFlush, vars, process, OnlyHandler
    <3>3. QED
      BY <3>1, <3>2 DEF VoteOf
  <2>2. CASE pc[r] # "incr"
    BY <1>2, <2>2, IncrSteps DEF VoteInserted, VoteOf
  <2>3. QED
    BY <2>1, <2>2
<1>3. ASSUME NEW r \in Requests, pc'[r] = "publish"
      PROVE  Bounded(counts[r], call[r].poll)'
  <2>1. PICK e \in CountMaps : e = counts'[r]
    BY NextTypeInv DEF TypeInv, HandlersOK
  <2>2. PICK p : p = call[r].poll /\ call' = call
    BY <1>3, PublishSteps
  <2>3. Bounded(e, p)
    BY <1>3, <2>1, <2>2, PublishSteps, ReadBounded DEF BoundInv
  <2>4. Bounded(e, p)'
    BY <2>3, BoundedStays
  <2>5. QED
    BY <2>1, <2>2, <2>4 DEF Bounded
<1>4. ASSUME NEW p \in Polls, NEW i \in DOMAIN events'[p]
      PROVE  Bounded(events[p][i], p)'
  <2>1. PICK e \in CountMaps : e = events'[p][i]
    <3>1. events'[p] \in Seq(CountMaps)
      BY NextTypeInv DEF TypeInv, StoreOK
    <3>2. QED
      BY <1>4, <3>1
  <2>2. Bounded(e, p)
    <3>1. CASE events' = events
      BY <1>4, <2>1, <3>1 DEF BoundInv
    <3>2. ASSUME NEW r \in Requests, CastPublish(r)
          PROVE  Bounded(e, p)
      <4>1. PICK n \in WriteTimes : Publish(call[r].poll, counts[r], n)
        BY <3>2 DEF CastPublish
      <4>2. n \in Nat /\ events[p] \in Seq(CountMaps)
        BY WriteTimesType DEF TypeInv, StoreOK
      <4>3. CASE call[r].poll = p
        <5> DEFINE more == [j \in 1 .. n |-> counts[r]]
        <5>1. events'[p] = events[p] \o more
          BY <4>1, <4>3 DEF Publish, TypeInv, StoreOK
        <5>2. more \in Seq(CountMaps) /\ Len(more) = n
          BY <4>2 DEF TypeInv, HandlersOK
        <5>3. e \in {events[p][j] : j \in DOMAIN events[p]} \cup {counts[r]}
          BY <1>4, <2>1, <4>2, <5>1, <5>2
        <5>4. Bounded(counts[r], p)
          BY <3>2, <4>3 DEF BoundInv, CastPublish, At
        <5>5. QED
          BY <5>3, <5>4 DEF BoundInv
      <4>4. CASE call[r].poll # p
        <5>1. events'[p] = events[p]
          BY <4>1, <4>4 DEF Publish, TypeInv, StoreOK
        <5>2. QED
          BY <1>4, <2>1, <5>1 DEF BoundInv
      <4>5. QED
        BY <4>3, <4>4
    <3>3. QED
      BY <3>1, <3>2, RedisSteps
  <2>3. Bounded(e, p)'
    BY <2>2, BoundedStays
  <2>4. QED
    BY <2>1, <2>3 DEF Bounded
<1>5. QED
  BY <1>1, <1>2, <1>3, <1>4 DEF BoundInv

\* Under every fault of the model, no published total exceeds the votes inserted, times the
\* number of times that Redis may apply one HINCRBY.
THEOREM EventsNeverOverstateHolds == Spec => []EventsNeverOverstate
<1>1. Init => BoundInv
  <2> SUFFICES ASSUME Init PROVE BoundInv
    OBVIOUS
  <2>1. \A p \in Polls, o \in Options : Cardinality(Counted(p, o)) = 0
    BY FS_EmptySet DEF Init, StoreInit, Counted, VotesFor
  <2>2. MostTimes * 0 = 0
    BY MostTimesIsMost
  <2>3. QED
    BY <2>1, <2>2 DEF Init, StoreInit, HandlersInit, BoundInv
<1>2. TypeInv /\ LifeInv /\ BoundInv /\ [Next]_vars => BoundInv'
  BY NextBoundInv
<1>3. BoundInv => EventsNeverOverstate
  BY MostTimesIsMost DEF BoundInv, Bounded, EventsNeverOverstate, Inserted
<1>4. QED
  BY <1>1, <1>2, <1>3, LifeInvHolds, PTL DEF Spec

-----------------------------------------------------------------------------
\* The argument for SomeEventIsCurrent: while no event of a poll with votes
\* carries its counters, some handler of the poll is still to publish them.
Matches(e, p) == \A o \in DOMAIN e : e[o] = counters[p][o]

Publishing(r, p) ==
    /\ call[r].kind = "vote" /\ call[r].poll = p
    /\ \/ pc[r] \in {"incr", "read"}
       \/ pc[r] = "publish" /\ Matches(counts[r], p)

Current(p) ==
    VotesOfPoll(accepted, p) # {}
       => \/ \E r \in Requests : Publishing(r, p)
          \/ \E i \in DOMAIN events[p] : Matches(events[p][i], p)

CurrentInv == \A p \in Polls : Current(p)

\* A step of another handler that keeps the counters of p leaves r publishing.
LEMMA StaysPublishing ==
    ASSUME NEW p \in Polls, NEW r \in Requests, Publishing(r, p),
           counters'[p] = counters[p],
           call' = call, pc'[r] = pc[r], counts'[r] = counts[r]
    PROVE  Publishing(r, p)'
BY DEF Publishing, Matches

\* A step that neither inserts, counts nor publishes for p, and that loses no
\* handler which is at its HINCRBY or behind it.
LEMMA CurrentKept ==
    ASSUME TypeInv, NEW p \in Polls, Current(p),
           accepted' = accepted, counters'[p] = counters[p], events'[p] = events[p],
           \A r \in Requests : Publishing(r, p) => Publishing(r, p)'
    PROVE  Current(p)'
<1>1. VotesOfPoll(accepted', p) = VotesOfPoll(accepted, p)
  OBVIOUS
<1>2. \A i \in DOMAIN events[p] : Matches(events[p][i], p) => Matches(events[p][i], p)'
  BY DEF Matches
<1>3. QED
  BY <1>1, <1>2 DEF Current

LEMMA InsertCurrent ==
    ASSUME Faults \subseteq {"index"}, TypeInv, NEW r \in Requests, CastInsert(r),
           NEW p \in Polls, Current(p)
    PROVE  Current(p)'
<1>1. /\ call[r].kind = "vote" /\ pc[r] = "insert"
      /\ UNCHANGED <<counters, events, call, counts>>
  BY DEF TypeInv, StageOK, CastStages, CastInsert, At, redis, process
<1>2. \A q \in Requests \ {r} : pc'[q] = pc[q]
  BY DEF CastInsert, Goto, Answer, FailsInternally, TypeInv, HandlersOK
<1>3. ~Publishing(r, p)
  BY <1>1 DEF Publishing
<1>4. \A q \in Requests : Publishing(q, p) => Publishing(q, p)'
  BY <1>1, <1>2, <1>3, StaysPublishing
<1>5. CASE accepted' = accepted \cup {VoteOf(r)} /\ Goto(r, CastNext.insert)
  <2>1. pc'[r] = "incr"
    BY <1>5 DEF Goto, CastNext, TypeInv, HandlersOK
  <2>2. CASE call[r].poll = p
    BY <1>1, <2>1, <2>2 DEF Current, Publishing
  <2>3. CASE call[r].poll # p
    <3>1. VotesOfPoll(accepted', p) = VotesOfPoll(accepted, p)
      BY <1>5, <2>3 DEF VotesOfPoll, VoteOf
    <3>2. \A i \in DOMAIN events[p] :
             Matches(events[p][i], p) => Matches(events[p][i], p)'
      BY <1>1 DEF Matches
    <3>3. QED
      BY <1>1, <1>4, <3>1, <3>2 DEF Current
  <2>4. QED
    BY <2>2, <2>3
<1>6. CASE accepted' = accepted
  BY <1>1, <1>4, <1>6, CurrentKept
<1>7. QED
  BY <1>5, <1>6 DEF CastInsert, FailsInternally

LEMMA IncrCurrent ==
    ASSUME TypeInv, NEW r \in Requests, CastIncr(r), NEW p \in Polls, Current(p)
    PROVE  Current(p)'
<1>1. /\ call[r].kind = "vote" /\ call[r].poll \in Polls /\ pc[r] = "incr"
      /\ UNCHANGED <<accepted, events, call, counts>>
      /\ pc' = [pc EXCEPT ![r] = "read"]
  BY VoteOfType
  DEF TypeInv, StageOK, CastStages, CastIncr, At, Goto, CastNext, mongo, process
<1>2. CASE call[r].poll = p
  BY <1>1, <1>2 DEF Current, Publishing, TypeInv, HandlersOK
<1>3. CASE call[r].poll # p
  <2>1. counters'[p] = counters[p]
    BY <1>1, <1>3 DEF CastIncr, TypeInv, StoreOK
  <2>2. \A q \in Requests : Publishing(q, p) => Publishing(q, p)'
    BY <1>1, <1>3, <2>1, StaysPublishing DEF Publishing, TypeInv, HandlersOK
  <2>3. QED
    BY <1>1, <2>1, <2>2, CurrentKept
<1>4. QED
  BY <1>2, <1>3

LEMMA ReadCurrent ==
    ASSUME Faults \subseteq {"index"}, TypeInv, NEW r \in Requests, CastRead(r),
           NEW p \in Polls, Current(p)
    PROVE  Current(p)'
<1>1. /\ call[r].kind = "vote" /\ pc[r] = "read"
      /\ UNCHANGED <<accepted, counters, events, call>>
      /\ pc' = [pc EXCEPT ![r] = "publish"]
      /\ counts' = [counts EXCEPT ![r] = RedisCounts(call[r].poll, loaded[r].options)]
  BY DEF TypeInv, StageOK, CastStages, CastRead, At, Goto, CastNext, mongo, redis, process
<1>2. Publishing(r, p) => Publishing(r, p)'
  <2> SUFFICES ASSUME call[r].poll = p
               PROVE  pc'[r] = "publish" /\ Matches(counts[r], p)'
    BY <1>1 DEF Publishing
  <2>1. pc'[r] = "publish" /\ counts'[r] = RedisCounts(p, loaded[r].options)
    BY <1>1 DEF TypeInv, HandlersOK
  <2>2. QED
    BY <1>1, <2>1 DEF Matches, RedisCounts
<1>3. \A q \in Requests : Publishing(q, p) => Publishing(q, p)'
  BY <1>1, <1>2, StaysPublishing DEF TypeInv, HandlersOK
<1>4. QED
  BY <1>1, <1>3, CurrentKept

LEMMA PublishCurrent ==
    ASSUME Faults \subseteq {"index"}, TypeInv, NEW r \in Requests, CastPublish(r),
           NEW p \in Polls, Current(p)
    PROVE  Current(p)'
<1>1. /\ call[r].kind = "vote" /\ call[r].poll \in Polls /\ pc[r] = "publish"
      /\ UNCHANGED <<accepted, counters, call, counts>>
      /\ pc' = [pc EXCEPT ![r] = "done"]
  BY VoteOfType
  DEF TypeInv, StageOK, CastStages, CastPublish, At, Answer, mongo, process
<1>2. Publish(call[r].poll, counts[r], 1)
  BY DEF CastPublish, WriteTimes
<1>3. \A q \in Requests \ {r} : Publishing(q, p) => Publishing(q, p)'
  BY <1>1, StaysPublishing DEF TypeInv, HandlersOK
<1>4. events[p] \in Seq(CountMaps) /\ counts[r] \in CountMaps
  BY DEF TypeInv, StoreOK, HandlersOK
<1>5. CASE call[r].poll # p
  <2>1. events'[p] = events[p]
    BY <1>2, <1>5 DEF Publish, TypeInv, StoreOK
  <2>2. ~Publishing(r, p)
    BY <1>5 DEF Publishing
  <2>3. QED
    BY <1>1, <1>3, <2>1, <2>2, CurrentKept
<1>6. CASE call[r].poll = p
  <2> DEFINE more == [j \in 1 .. 1 |-> counts[r]]
  <2>1. events'[p] = events[p] \o more
    BY <1>2, <1>6 DEF Publish, TypeInv, StoreOK
  <2>2. more \in Seq(CountMaps) /\ Len(more) = 1 /\ more[1] = counts[r]
    BY <1>4
  <2> PICK last : last = Len(events[p]) + 1
    OBVIOUS
  <2>3. /\ \A i \in DOMAIN events[p] :
              i \in DOMAIN events'[p] /\ events'[p][i] = events[p][i]
        /\ last \in DOMAIN events'[p] /\ events'[p][last] = counts[r]
    BY <1>4, <2>1, <2>2
  <2>4. CASE Publishing(r, p)
    <3>1. Matches(counts[r], p)'
      BY <1>1, <2>4 DEF Publishing, Matches
    <3>2. Matches(events[p][last], p)'
      BY <1>1, <2>3, <3>1 DEF Matches
    <3>3. QED
      BY <2>3, <3>2 DEF Current
  <2>5. CASE ~Publishing(r, p)
    <3>1. VotesOfPoll(accepted', p) = VotesOfPoll(accepted, p)
      BY <1>1
    <3>2. \A i \in DOMAIN events[p] :
             Matches(events[p][i], p) => Matches(events[p][i], p)'
      BY <1>1, <2>3 DEF Matches
    <3>3. QED
      BY <1>3, <2>3, <2>5, <3>1, <3>2 DEF Current
  <2>6. QED
    BY <2>4, <2>5
<1>7. QED
  BY <1>5, <1>6

\* The steps that are not Cast's own four.
CastWrites(r) == CastInsert(r) \/ CastIncr(r) \/ CastRead(r) \/ CastPublish(r)

LEMMA OtherSteps ==
    ASSUME TypeInv, NEW r \in Requests, HandlerStep(r), ~CastWrites(r)
    PROVE  /\ UNCHANGED <<accepted, counters, events>>
           /\ pc[r] \notin {"incr", "read", "publish"}
<1>1. CASE CastLoad(r) \/ CastCheck(r) \/ ResultsLoad(r) \/ ResultsRead(r)
  BY <1>1 DEF CastLoad, CastCheck, ResultsLoad, ResultsRead, Starts, At, mongo, redis
<1>2. CASE Create(r) \/ OwnerLoad(r) \/ WriteFields(r)
  BY <1>2 DEF Create, OwnerLoad, WriteFields, Starts, At, mongo, redis
<1>3. CASE Reload(r) \/ PurgeVotes(r) \/ RemovePoll(r)
  BY <1>3 DEF Reload, PurgeVotes, RemovePoll, At, mongo, redis
<1>4. QED
  BY <1>1, <1>2, <1>3
  DEF CastWrites, HandlerStep, VoteServiceNext, CastStep, PollServiceNext, OwnerStep

LEMMA NextCurrentInv ==
    ASSUME Faults \subseteq {"index"}
    PROVE  TypeInv /\ CurrentInv /\ [Next]_vars => CurrentInv'
<1> SUFFICES ASSUME TypeInv, CurrentInv, [Next]_vars, NEW p \in Polls
             PROVE  Current(p)'
  BY DEF CurrentInv
<1>1. Current(p)
  BY DEF CurrentInv
<1>2. ASSUME NEW r \in Requests, HandlerStep(r), ~CastWrites(r)
      PROVE  Current(p)'
  <2>1. /\ UNCHANGED <<accepted, counters, events>>
        /\ pc[r] \notin {"incr", "read", "publish"}
    BY <1>2, OtherSteps
  <2>2. ~Publishing(r, p)
    BY <2>1 DEF Publishing
  <2>3. \A q \in Requests : Publishing(q, p) => Publishing(q, p)'
    BY <1>2, <2>1, <2>2, HandlerFrame, StaysPublishing DEF OnlyHandler
  <2>4. QED
    BY <1>1, <2>1, <2>3, CurrentKept
<1>3. CASE Startup \/ UNCHANGED vars
  BY <1>1, <1>3
  DEF Startup, vars, mongo, redis, process, handlers, Current, Publishing, Matches, VotesOfPoll
<1>4. ~Crash /\ ~RedisFlush
  BY DEF Crash, RedisFlush
<1>5. QED
  BY <1>1, <1>2, <1>3, <1>4, InsertCurrent, IncrCurrent, ReadCurrent, PublishCurrent
  DEF Next, Idle, CastWrites

\* While no command fails, a poll with votes and no vote in flight has an event
\* that carries its counters as they are, for any number of concurrent votes.
THEOREM SomeEventIsCurrentHolds ==
    ASSUME Faults \subseteq {"index"}
    PROVE  Spec => []SomeEventIsCurrent
<1>1. Init => TypeInv /\ CurrentInv
  BY InitTypeInv DEF Init, StoreInit, CurrentInv, Current, VotesOfPoll
<1>2. TypeInv /\ CurrentInv /\ [Next]_vars => (TypeInv /\ CurrentInv)'
  BY NextTypeInv, NextCurrentInv
<1>3. CurrentInv => SomeEventIsCurrent
  BY DEF CurrentInv, Current, Publishing, Matches, SomeEventIsCurrent, Casting, InFlight,
         Stages
<1>4. QED
  BY <1>1, <1>2, <1>3, PTL DEF Spec

-----------------------------------------------------------------------------
\* The argument for ReadsAreFresh: the options of a poll never change, so the
\* copy that a reader loaded has an entry for every vote.
Holding(r) == pc[r] \in CastStages \cup {"tally"}

HolderFits(f, r) ==
    LET p == call[r].poll
    IN /\ p \in issued
       /\ loaded[r].options = f[p]
       /\ call[r].kind = "vote" => call[r].option \in f[p]

OptionsFit(f) ==
    /\ \A p \in Polls : polls[p] # NoPoll => polls[p].options = f[p]
    /\ \A r \in Requests : Holding(r) => HolderFits(f, r)
    /\ \A v \in accepted : v.poll \in issued /\ v.option \in f[v.poll]

OptionsInv == \E f \in [Polls -> SUBSET Options] : OptionsFit(f)

\* A handler that comes to hold a document holds a stored one.
LEMMA HoldingSteps ==
    ASSUME TypeInv, [Next]_vars, NEW r \in Requests, Holding(r)'
    PROVE  /\ call' = call
           /\ \/ Holding(r) /\ loaded'[r] = loaded[r]
              \/ /\ call[r].poll \in Polls
                 /\ polls[call[r].poll] # NoPoll
                 /\ loaded'[r] = polls[call[r].poll]
                 /\ call[r].kind = "vote" => call[r].option \in loaded'[r].options
<1>1. CASE \E q \in Requests : HandlerStep(q) /\ q # r
  BY <1>1, HandlerFrame DEF OnlyHandler, Holding
<1>2. CASE HandlerStep(r)
  <2>1. call' = call
    BY <1>2, HandlerFrame DEF OnlyHandler
  <2>2. CASE CastLoad(r)
    <3>1. call[r].kind = "vote" /\ call[r].poll \in Polls
      BY <2>2, NamedPoll DEF CastLoad, Starts
    <3>2. QED
      BY <2>1, <2>2, <3>1
      DEF CastLoad, FindByID, Answer, FailsInternally, Holding, CastStages, TypeInv, HandlersOK
  <2>3. CASE ResultsLoad(r)
    <3>1. call[r].kind = "results" /\ call[r].poll \in Polls
      BY <2>3, NamedPoll DEF ResultsLoad, Starts
    <3>2. QED
      BY <2>1, <2>3, <3>1
      DEF ResultsLoad, FindByID, Answer, FailsInternally, Holding, CastStages, TypeInv, HandlersOK
  <2>4. CASE CastStep(r) \/ ResultsRead(r)
    BY <2>1, <2>4
    DEF CastStep, CastCheck, CastInsert, CastIncr, CastRead, CastPublish, ResultsRead, At,
        Holding, CastStages
  <2>5. ~PollServiceNext(r)
    <3>1. ~Create(r) /\ ~OwnerLoad(r)
      BY DEF Create, OwnerLoad, Goto, Answer, FailsInternally, FirstWrite, OwnerKinds, Starts,
             Holding, CastStages, TypeInv, HandlersOK
    <3>2. ~WriteFields(r) /\ ~Reload(r) /\ ~PurgeVotes(r) /\ ~RemovePoll(r)
      BY DEF WriteFields, Reload, PurgeVotes, RemovePoll, Goto, Answer, FailsInternally,
             Holding, CastStages, TypeInv, HandlersOK
    <3>3. QED
      BY <3>1, <3>2 DEF PollServiceNext, OwnerStep
  <2>6. QED
    BY <1>2, <2>2, <2>3, <2>4, <2>5 DEF HandlerStep, VoteServiceNext
<1>3. CASE Startup \/ Crash \/ RedisFlush \/ UNCHANGED vars
  BY <1>3
  DEF Startup, Crash, RedisFlush, vars, process, handlers, Holding, InFlight, Stages,
      CastStages, TypeInv, HandlersOK
<1>4. QED
  BY <1>1, <1>2, <1>3 DEF Next, Idle

LEMMA NextOptionsInv == TypeInv /\ LifeInv /\ OptionsInv /\ [Next]_vars => OptionsInv'
<1> SUFFICES ASSUME TypeInv, LifeInv, [Next]_vars,
                    NEW f \in [Polls -> SUBSET Options], OptionsFit(f)
             PROVE  OptionsInv'
  BY DEF OptionsInv
<1>1. PICK g \in [Polls -> SUBSET Options] :
        \A p \in Polls :
           g[p] = IF p \notin issued /\ polls'[p] # NoPoll THEN polls'[p].options ELSE f[p]
  <2> DEFINE h == [p \in Polls |-> IF p \notin issued /\ polls'[p] # NoPoll
                                   THEN polls'[p].options ELSE f[p]]
  <2>1. ASSUME NEW p \in Polls, polls'[p] # NoPoll
        PROVE  polls'[p].options \in SUBSET Options
    <3>1. polls'[p] \in PollDoc
      BY <2>1, NextTypeInv DEF TypeInv, StoreOK
    <3>2. QED
      BY <3>1 DEF PollDoc
  <2>2. h \in [Polls -> SUBSET Options]
    BY <2>1
  <2>3. QED
    BY <2>2
<1>2. \A p \in issued : p \in Polls /\ p \in issued' /\ g[p] = f[p]
  BY <1>1, IssuedStays DEF TypeInv, StoreOK
<1>3. ASSUME NEW p \in Polls, polls'[p] # NoPoll
      PROVE  polls'[p].options = g[p]
  BY <1>1, <1>2, <1>3, CreatorStays DEF OptionsFit
<1>4. ASSUME NEW r \in Requests, Holding(r)'
      PROVE  /\ call' = call
             /\ call[r].poll \in issued'
             /\ loaded'[r].options = g[call[r].poll]
             /\ call[r].kind = "vote" => call[r].option \in g[call[r].poll]
  <2>1. call' = call
    BY <1>4, HoldingSteps
  <2>2. CASE Holding(r) /\ loaded'[r] = loaded[r]
    BY <1>2, <2>1, <2>2 DEF OptionsFit, HolderFits
  <2>3. CASE /\ call[r].poll \in Polls
             /\ polls[call[r].poll] # NoPoll
             /\ loaded'[r] = polls[call[r].poll]
             /\ call[r].kind = "vote" => call[r].option \in loaded'[r].options
    <3>1. call[r].poll \in issued /\ loaded'[r].options = f[call[r].poll]
      BY <2>3 DEF OptionsFit, TypeInv, StoreOK
    <3>2. QED
      BY <1>2, <2>1, <2>3, <3>1
  <2>4. QED
    BY <1>4, <2>2, <2>3, HoldingSteps
<1>5. ASSUME NEW v \in accepted'
      PROVE  v.poll \in issued' /\ v.option \in g[v.poll]
  <2>1. CASE v \in accepted
    BY <1>2, <2>1 DEF OptionsFit
  <2>2. CASE v \notin accepted
    <3>1. PICK r \in Requests : VoteInserted(r) /\ v = VoteOf(r)
      BY <2>2, VoteSteps DEF VoteStep, VoteInserted, VotesPurged
    <3>2. HolderFits(f, r)
      BY <3>1 DEF VoteInserted, OptionsFit, Holding, CastStages
    <3>3. QED
      BY <1>2, <3>1, <3>2 DEF HolderFits, VoteInserted, VoteOf
  <2>3. QED
    BY <2>1, <2>2
<1>6. OptionsFit(g)'
  BY <1>3, <1>4, <1>5 DEF OptionsFit, HolderFits
<1>7. QED
  BY <1>6 DEF OptionsInv

\* With no failing command, CastRead and ResultsRead take what Redis holds.
LEMMA ReadSteps ==
    ASSUME Faults \subseteq {"index"}, TypeInv, [Next]_vars, NEW r \in Requests,
           pc[r] \in {"read", "tally"}, pc'[r] # pc[r], up'
    PROVE  counts'[r] = RedisCounts(call[r].poll, loaded[r].options)
<1>1. HandlerStep(r)
  <2>1. \E q \in Requests : HandlerStep(q)
    BY DEF Next, Idle, Startup, Crash, RedisFlush, vars, handlers
  <2>2. QED
    BY <2>1, HandlerFrame DEF OnlyHandler
<1>2. CASE CastRead(r) \/ ResultsRead(r)
  BY <1>2 DEF CastRead, ResultsRead, TypeInv, HandlersOK
<1>3. ~CastRead(r) /\ ~ResultsRead(r) => ~VoteServiceNext(r)
  BY DEF VoteServiceNext, CastStep, CastLoad, CastCheck, CastInsert, CastIncr, CastPublish,
         ResultsLoad, Starts, At
<1>4. ~PollServiceNext(r)
  BY DEF PollServiceNext, OwnerStep, Create, OwnerLoad, WriteFields, Reload, PurgeVotes,
         RemovePoll, Starts, At
<1>5. QED
  BY <1>1, <1>2, <1>3, <1>4 DEF HandlerStep

FreshReads ==
    \A r \in Requests : Reads(r) =>
       \A v \in VotesOfPoll(accepted, call[r].poll) :
          reply[v.id] = "ok" \/ v.id = r =>
             counts'[r][v.option] >=
                Cardinality({w \in VotesFor(accepted, v.poll, v.option) :
                                reply[w.id] = "ok" \/ w.id = r})

LEMMA FreshSteps ==
    ASSUME Faults \subseteq {"index"}, TypeInv, LifeInv, AccountInv, OptionsInv, [Next]_vars
    PROVE  FreshReads
<1> SUFFICES ASSUME NEW r \in Requests, Reads(r),
                    NEW v \in VotesOfPoll(accepted, call[r].poll)
             PROVE  counts'[r][v.option] >=
                       Cardinality({w \in VotesFor(accepted, v.poll, v.option) :
                                       reply[w.id] = "ok" \/ w.id = r})
  BY DEF FreshReads
<1> DEFINE p == v.poll
           o == v.option
           seen == {w \in VotesFor(accepted, p, o) : reply[w.id] = "ok" \/ w.id = r}
<1>1. /\ pc[r] \in {"read", "tally"} /\ pc'[r] # pc[r] /\ up'
      /\ v \in accepted /\ v.poll = call[r].poll /\ p \in Polls /\ o \in Options
  BY DEF Reads, VotesOfPoll, TypeInv, StoreOK, VoteDoc
<1>2. o \in loaded[r].options
  <2>1. PICK f \in [Polls -> SUBSET Options] : OptionsFit(f)
    BY DEF OptionsInv
  <2>2. HolderFits(f, r)
    BY <1>1, <2>1 DEF OptionsFit, Holding, CastStages
  <2>3. QED
    BY <1>1, <2>1, <2>2 DEF OptionsFit, HolderFits
<1>3. counts'[r][o] = counters[p][o]
  <2>1. counts'[r] = RedisCounts(p, loaded[r].options)
    <3>1. counts'[r] = RedisCounts(call[r].poll, loaded[r].options)
      BY ReadSteps DEF Reads
    <3>2. QED
      BY <1>1, <3>1
  <2>2. QED
    BY <1>2, <2>1 DEF RedisCounts
<1>4. counters[p][o] = Cardinality(Counted(p, o))
  BY <1>1 DEF AccountInv, CountersAccountForVotes, Counted
<1>5. seen \in SUBSET Counted(p, o)
  <2> SUFFICES ASSUME NEW w \in seen PROVE pc[w.id] # "incr"
    BY DEF Counted
  <2>1. w.id \in Requests
    BY DEF TypeInv, StoreOK, VoteDoc, VotesFor
  <2>2. CASE reply[w.id] = "ok"
    BY <2>1, <2>2 DEF TypeInv, HandlersOK
  <2>3. CASE w.id = r
    BY <1>1, <2>3
  <2>4. QED
    BY <2>2, <2>3
<1>6. /\ Cardinality(seen) <= Cardinality(Counted(p, o))
      /\ Cardinality(seen) \in Nat /\ Cardinality(Counted(p, o)) \in Nat
  BY <1>5, InsertedFinite, FS_Subset, FS_CardinalityType
<1>7. QED
  BY <1>3, <1>4, <1>6

\* While no command fails, every read of the counters includes the votes answered
\* with 201 before it and the reader's own, for any number of requests.
THEOREM ReadsAreFreshHolds ==
    ASSUME Faults \subseteq {"index"}
    PROVE  Spec => ReadsAreFresh
<1>1. Init => AccountInv /\ OptionsInv
  <2> SUFFICES ASSUME Init PROVE AccountInv /\ OptionsInv
    OBVIOUS
  <2>1. AccountInv
    BY InitAccount
  <2>2. OptionsInv
    <3>1. PICK f \in [Polls -> SUBSET Options] :
            \A p \in Polls : polls[p] # NoPoll => polls[p].options = f[p]
      <4> DEFINE h == [p \in Polls |-> IF polls[p] # NoPoll THEN polls[p].options ELSE {}]
      <4>1. h \in [Polls -> SUBSET Options]
        BY InitTypeInv DEF TypeInv, StoreOK, PollDoc
      <4>2. QED
        BY <4>1
    <3>2. OptionsFit(f)
      BY <3>1 DEF OptionsFit, Holding, CastStages, Init, StoreInit, HandlersInit
    <3>3. QED
      BY <3>2 DEF OptionsInv
  <2>3. QED
    BY <2>1, <2>2
<1>2. TypeInv /\ LifeInv /\ AccountInv /\ OptionsInv /\ [Next]_vars
         => (AccountInv /\ OptionsInv)'
  BY NextAccount, NextOptionsInv
<1>3. TypeInv /\ LifeInv /\ AccountInv /\ OptionsInv /\ [Next]_vars => FreshReads
  BY FreshSteps
<1>4. QED
  BY <1>1, <1>2, <1>3, LifeInvHolds, PTL DEF Spec, ReadsAreFresh, FreshReads
=============================================================================
