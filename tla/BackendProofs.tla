--------------------------- MODULE BackendProofs ---------------------------
(***************************************************************************)
(* Theorems about Backend for all values of its constants.                 *)
(***************************************************************************)
EXTENDS Backend, FiniteSetTheorems, TLAPS

CountMaps == UNION {[S -> Nat] : S \in SUBSET Options}

CastStages == {"check", "insert", "incr", "read", "publish"}

StoreOK ==
    /\ polls \in [Polls -> PollDoc \cup {NoPoll}]
    /\ issued \in SUBSET Polls
    /\ \A p \in Polls : polls[p] # NoPoll => p \in issued
    /\ accepted \in SUBSET VoteDoc
    /\ IsFiniteSet(accepted)
    /\ votes \in SUBSET accepted
    /\ uniqueIndex \in BOOLEAN
    /\ counters \in [Polls -> [Options -> Nat]]
    /\ events \in [Polls -> Seq(CountMaps)]

HandlersOK ==
    /\ up \in BOOLEAN
    /\ call \in [Requests -> Calls]
    /\ pc \in [Requests -> {"new", "done", "lost"} \cup Stages]
    /\ loaded \in [Requests -> PollDoc \cup {NoPoll}]
    /\ counts \in [Requests -> CountMaps]
    /\ \A r \in Requests :
          reply[r] \in IF pc[r] = "done" THEN Codes[call[r].kind] ELSE {"none"}
    /\ DOMAIN reply = Requests

\* A handler is only ever at a stage of its own operation, and the operations
\* that read counts still hold the document they loaded.
StageOK ==
    \A r \in Requests :
       /\ pc[r] \in CastStages => call[r].kind = "vote"
       /\ pc[r] = "tally" => call[r].kind = "results"
       /\ pc[r] \in {"write", "reload"} => call[r].kind \in {"update", "close"}
       /\ pc[r] \in {"purge", "remove"} => call[r].kind = "delete"
       /\ pc[r] \in CastStages \cup {"tally"} => loaded[r] \in PollDoc

TypeInv == StoreOK /\ HandlersOK /\ StageOK

-----------------------------------------------------------------------------
\* What the kind of a call says about its other fields.
LEMMA CallFields ==
    ASSUME NEW c \in Calls
    PROVE  /\ c.kind = "vote" => c \in VoteCalls
           /\ c.kind = "results" => c \in ResultCalls
           /\ c.kind = "create" => c \in CreateCalls
           /\ c.kind = "update" => c \in UpdateCalls
           /\ c.kind = "close" => c \in CloseCalls
           /\ c.kind = "delete" => c \in DeleteCalls
           /\ c.kind \in {"vote", "results", "create"} \cup OwnerKinds
  BY HandlersAssumption
  DEF VoteCalls, ResultCalls, CreateCalls, UpdateCalls, CloseCalls, DeleteCalls,
      OwnerKinds

LEMMA NoCountsType == NoCounts \in CountMaps
<1>1. NoCounts \in [{} -> Nat]
  BY DEF NoCounts
<1>2. QED
  BY <1>1 DEF CountMaps

\* The maps that the counting operators return are typed.
LEMMA CountMapTypes ==
    ASSUME StoreOK, NEW p \in Polls, NEW opts \in SUBSET Options
    PROVE  /\ RedisCounts(p, opts) \in CountMaps
           /\ MongoCounts(p, opts) \in CountMaps
<1>1. RedisCounts(p, opts) \in [opts -> Nat]
  BY DEF StoreOK, RedisCounts
<1>2. ASSUME NEW o \in opts
      PROVE  CountByOption(p, o) \in Nat
  <2>1. IsFiniteSet(VotesFor(votes, p, o))
    BY FS_Subset DEF StoreOK, VotesFor
  <2>2. QED
    BY <2>1, FS_CardinalityType DEF CountByOption
<1>3. MongoCounts(p, opts) \in [opts -> Nat]
  BY <1>2 DEF MongoCounts
<1>4. QED
  BY <1>1, <1>3 DEF CountMaps

\* Publishing a typed map keeps the channels' histories typed.
LEMMA PublishType ==
    ASSUME StoreOK, NEW p \in Polls, NEW e \in CountMaps, NEW n \in Nat,
           Publish(p, e, n)
    PROVE  events' \in [Polls -> Seq(CountMaps)]
<1>1. [i \in 1 .. n |-> e] \in Seq(CountMaps)
  OBVIOUS
<1>2. events[p] \o [i \in 1 .. n |-> e] \in Seq(CountMaps)
  BY <1>1 DEF StoreOK
<1>3. QED
  BY <1>2 DEF StoreOK, Publish

LEMMA WriteTimesType == WriteTimes \subseteq Nat
  BY StoreAssumption DEF StoreAssumption, WriteTimes

\* The vote document of a Cast is typed.
LEMMA VoteOfType ==
    ASSUME HandlersOK, NEW r \in Requests, call[r].kind = "vote"
    PROVE  /\ VoteOf(r) \in VoteDoc
           /\ call[r].poll \in Polls
           /\ call[r].option \in Options
           /\ VoteOf(r).id = r
           /\ VoteOf(r).poll = call[r].poll
           /\ VoteOf(r).option = call[r].option
           /\ VoteOf(r).token = call[r].token
  BY CallFields DEF HandlersOK, VoteOf, VoteDoc, VoteCalls

-----------------------------------------------------------------------------
\* What a step may do to the local variables of handlers.
LocalsKept(r) ==
    /\ UNCHANGED process
    /\ loaded' \in [Requests -> PollDoc \cup {NoPoll}]
    /\ \A q \in Requests \ {r} : loaded'[q] = loaded[q]
    /\ counts' \in [Requests -> CountMaps]

\* The two ways a handler's action ends.
LEMMA AnswerOK ==
    ASSUME HandlersOK, StageOK, NEW r \in Requests, LocalsKept(r),
           NEW code \in Codes[call[r].kind], Answer(r, code)
    PROVE  HandlersOK' /\ StageOK'
<1>1. HandlersOK'
  BY DEF HandlersOK, LocalsKept, process, Answer
<1>2. StageOK'
  BY DEF HandlersOK, StageOK, LocalsKept, process, Answer, CastStages
<1>3. QED
  BY <1>1, <1>2

StageFits(r, stage) ==
    /\ stage \in CastStages => call[r].kind = "vote"
    /\ stage = "tally" => call[r].kind = "results"
    /\ stage \in {"write", "reload"} => call[r].kind \in {"update", "close"}
    /\ stage \in {"purge", "remove"} => call[r].kind = "delete"
    /\ stage \in CastStages \cup {"tally"} => loaded'[r] \in PollDoc

LEMMA GotoOK ==
    ASSUME HandlersOK, StageOK, NEW r \in Requests, LocalsKept(r),
           NEW stage \in Stages, pc[r] # "done", Goto(r, stage),
           StageFits(r, stage)
    PROVE  HandlersOK' /\ StageOK'
<1>1. HandlersOK'
  BY DEF HandlersOK, LocalsKept, process, Goto, Stages
<1>2. StageOK'
  BY DEF HandlersOK, StageOK, StageFits, LocalsKept, process, Goto
<1>3. QED
  BY <1>1, <1>2

-----------------------------------------------------------------------------
LEMMA InitTypeInv == Init => TypeInv
<1> SUFFICES ASSUME Init PROVE TypeInv
  OBVIOUS
<1> USE DEF Init, StoreInit, HandlersInit
<1>1. StoreOK
  <2>1. IsFiniteSet(accepted)
    BY FS_EmptySet
  <2>2. counters \in [Polls -> [Options -> Nat]]
    OBVIOUS
  <2>3. events \in [Polls -> Seq(CountMaps)]
    OBVIOUS
  <2>4. QED
    BY <2>1, <2>2, <2>3, StoreAssumption DEF StoreAssumption, StoreOK
<1>2. HandlersOK
  <2>1. counts \in [Requests -> CountMaps]
    BY NoCountsType
  <2>2. QED
    BY <2>1 DEF HandlersOK
<1>3. StageOK
  BY DEF StageOK, CastStages
<1>4. QED
  BY <1>1, <1>2, <1>3 DEF TypeInv

LEMMA CastLoadTypeInv ==
    ASSUME TypeInv, NEW r \in Requests, CastLoad(r)
    PROVE  TypeInv'
<1> DEFINE doc == FindByID(call[r].poll)
<1>1. call[r].kind = "vote" /\ pc[r] = "new" /\ call[r] \in VoteCalls
  BY CallFields DEF TypeInv, HandlersOK, CastLoad, Starts
<1>2. doc \in PollDoc \cup {NoPoll}
  BY <1>1 DEF TypeInv, StoreOK, FindByID, VoteCalls
<1>3. StoreOK'
  BY DEF TypeInv, StoreOK, CastLoad, mongo, redis
<1>4. CASE /\ doc # NoPoll
           /\ loaded' = [loaded EXCEPT ![r] = doc]
           /\ Goto(r, CastNext.load)
  <2>1. LocalsKept(r)
    BY <1>2, <1>4 DEF TypeInv, HandlersOK, LocalsKept, CastLoad
  <2>2. StageFits(r, "check")
    BY <1>1, <1>2, <1>4 DEF StageFits, TypeInv, HandlersOK, CastStages
  <2>3. Goto(r, "check") /\ "check" \in Stages
    BY <1>4 DEF CastNext, Stages
  <2>4. QED
    BY <1>1, <1>3, <2>1, <2>2, <2>3, GotoOK DEF TypeInv
<1>5. ASSUME NEW code \in CastCodes, Answer(r, code), UNCHANGED loaded
      PROVE  TypeInv'
  <2>1. LocalsKept(r)
    BY <1>5 DEF TypeInv, HandlersOK, LocalsKept, CastLoad
  <2>2. code \in Codes[call[r].kind]
    BY <1>1 DEF Codes
  <2>3. QED
    BY <1>3, <1>5, <2>1, <2>2, AnswerOK DEF TypeInv
<1>6. \/ /\ doc # NoPoll
         /\ loaded' = [loaded EXCEPT ![r] = doc]
         /\ Goto(r, CastNext.load)
      \/ \E code \in CastCodes : Answer(r, code) /\ UNCHANGED loaded
  BY DEF CastLoad, FailsInternally, CastCodes
<1>7. QED
  BY <1>4, <1>5, <1>6

LEMMA CastCheckTypeInv ==
    ASSUME TypeInv, NEW r \in Requests, CastCheck(r)
    PROVE  TypeInv'
<1>1. call[r].kind = "vote" /\ pc[r] = "check"
  BY DEF TypeInv, StageOK, CastStages, CastCheck, At
<1>2. StoreOK'
  BY DEF TypeInv, StoreOK, CastCheck, mongo, redis
<1>3. LocalsKept(r)
  BY DEF TypeInv, HandlersOK, LocalsKept, CastCheck
<1>4. CASE Goto(r, CastNext.check)
  <2>1. StageFits(r, "insert")
    BY <1>1 DEF StageFits, TypeInv, StageOK, CastStages, CastCheck
  <2>2. Goto(r, "insert") /\ "insert" \in Stages
    BY <1>4 DEF CastNext, Stages
  <2>3. QED
    BY <1>1, <1>2, <1>3, <2>1, <2>2, GotoOK DEF TypeInv
<1>5. ASSUME NEW code \in CastCodes, Answer(r, code)
      PROVE  TypeInv'
  BY <1>1, <1>2, <1>3, <1>5, AnswerOK DEF TypeInv, Codes
<1>6. Goto(r, CastNext.check) \/ \E code \in CastCodes : Answer(r, code)
  BY DEF CastCheck, FailsInternally, CastCodes
<1>7. QED
  BY <1>4, <1>5, <1>6

LEMMA CastInsertTypeInv ==
    ASSUME TypeInv, NEW r \in Requests, CastInsert(r)
    PROVE  TypeInv'
<1>1. call[r].kind = "vote" /\ pc[r] = "insert"
  BY DEF TypeInv, StageOK, CastStages, CastInsert, At
<1>2. StoreOK'
  <2>1. CASE UNCHANGED <<votes, accepted>>
    BY <2>1 DEF TypeInv, StoreOK, CastInsert, redis
  <2>2. CASE /\ votes' = votes \cup {VoteOf(r)}
             /\ accepted' = accepted \cup {VoteOf(r)}
    <3>1. VoteOf(r) \in VoteDoc
      BY <1>1, VoteOfType DEF TypeInv
    <3>2. IsFiniteSet(accepted')
      BY <2>2, FS_AddElement DEF TypeInv, StoreOK
    <3>3. QED
      BY <2>2, <3>1, <3>2 DEF TypeInv, StoreOK, CastInsert, redis
  <2>3. QED
    BY <2>1, <2>2 DEF CastInsert
<1>3. LocalsKept(r)
  BY DEF TypeInv, HandlersOK, LocalsKept, CastInsert
<1>4. CASE Goto(r, CastNext.insert)
  <2>1. StageFits(r, "incr")
    BY <1>1 DEF StageFits, TypeInv, StageOK, CastStages, CastInsert
  <2>2. Goto(r, "incr") /\ "incr" \in Stages
    BY <1>4 DEF CastNext, Stages
  <2>3. QED
    BY <1>1, <1>2, <1>3, <2>1, <2>2, GotoOK DEF TypeInv
<1>5. CASE Answer(r, "internal")
  BY <1>1, <1>2, <1>3, <1>5, AnswerOK DEF TypeInv, Codes, CastCodes
<1>6. QED
  BY <1>4, <1>5 DEF CastInsert, FailsInternally

LEMMA CastIncrTypeInv ==
    ASSUME TypeInv, NEW r \in Requests, CastIncr(r)
    PROVE  TypeInv'
<1>1. call[r].kind = "vote" /\ pc[r] = "incr"
  BY DEF TypeInv, StageOK, CastStages, CastIncr, At
<1>2. StoreOK'
  <2>1. PICK n \in WriteTimes :
          counters' = [counters EXCEPT ![call[r].poll][call[r].option] = @ + n]
    BY DEF CastIncr
  <2>2. n \in Nat
    BY WriteTimesType
  <2>3. call[r].poll \in Polls /\ call[r].option \in Options
    BY <1>1, VoteOfType DEF TypeInv
  <2>4. counters' \in [Polls -> [Options -> Nat]]
    BY <2>1, <2>2, <2>3 DEF TypeInv, StoreOK
  <2>5. QED
    BY <2>4 DEF TypeInv, StoreOK, CastIncr, mongo
<1>3. LocalsKept(r)
  BY DEF TypeInv, HandlersOK, LocalsKept, CastIncr
<1>4. StageFits(r, "read")
  BY <1>1 DEF StageFits, TypeInv, StageOK, CastStages, CastIncr
<1>5. Goto(r, "read") /\ "read" \in Stages
  BY DEF CastIncr, CastNext, Stages
<1>6. QED
  BY <1>1, <1>2, <1>3, <1>4, <1>5, GotoOK DEF TypeInv

LEMMA CastReadTypeInv ==
    ASSUME TypeInv, NEW r \in Requests, CastRead(r)
    PROVE  TypeInv'
<1>1. call[r].kind = "vote" /\ pc[r] = "read"
  BY DEF TypeInv, StageOK, CastStages, CastRead, At
<1>2. call[r].poll \in Polls /\ loaded[r].options \in SUBSET Options
  BY <1>1, VoteOfType DEF TypeInv, StageOK, CastStages, PollDoc
<1>3. PICK e \in CountMaps : counts' = [counts EXCEPT ![r] = e]
  BY <1>2, CountMapTypes, NoCountsType DEF TypeInv, CastRead
<1>4. StoreOK'
  BY DEF TypeInv, StoreOK, CastRead, mongo, redis
<1>5. LocalsKept(r)
  BY <1>3 DEF TypeInv, HandlersOK, LocalsKept, CastRead
<1>6. StageFits(r, "publish")
  BY <1>1 DEF StageFits, TypeInv, StageOK, CastStages, CastRead
<1>7. Goto(r, "publish") /\ "publish" \in Stages
  BY DEF CastRead, CastNext, Stages
<1>8. QED
  BY <1>1, <1>4, <1>5, <1>6, <1>7, GotoOK DEF TypeInv

LEMMA CastPublishTypeInv ==
    ASSUME TypeInv, NEW r \in Requests, CastPublish(r)
    PROVE  TypeInv'
<1>1. call[r].kind = "vote" /\ pc[r] = "publish"
  BY DEF TypeInv, StageOK, CastStages, CastPublish, At
<1>2. StoreOK'
  <2>1. PICK n \in WriteTimes : Publish(call[r].poll, counts[r], n)
    BY DEF CastPublish
  <2>2. n \in Nat
    BY WriteTimesType
  <2>3. call[r].poll \in Polls /\ counts[r] \in CountMaps
    BY <1>1, VoteOfType DEF TypeInv, HandlersOK
  <2>4. events' \in [Polls -> Seq(CountMaps)]
    BY <2>1, <2>2, <2>3, PublishType DEF TypeInv
  <2>5. QED
    BY <2>4 DEF TypeInv, StoreOK, CastPublish, mongo
<1>3. LocalsKept(r)
  BY DEF TypeInv, HandlersOK, LocalsKept, CastPublish
<1>4. Answer(r, "ok") /\ "ok" \in Codes[call[r].kind]
  BY <1>1 DEF CastPublish, Codes, CastCodes
<1>5. QED
  BY <1>2, <1>3, <1>4, AnswerOK DEF TypeInv

LEMMA ResultsTypeInv ==
    ASSUME TypeInv, NEW r \in Requests, ResultsLoad(r) \/ ResultsRead(r)
    PROVE  TypeInv'
<1>1. call[r].kind = "results" /\ call[r].poll \in Polls /\ pc[r] # "done"
  BY CallFields
  DEF TypeInv, StageOK, HandlersOK, ResultsLoad, ResultsRead, Starts, At,
      ResultCalls
<1>2. StoreOK'
  BY DEF TypeInv, StoreOK, ResultsLoad, ResultsRead, mongo, redis
<1>3. CASE ResultsLoad(r)
  <2> DEFINE doc == FindByID(call[r].poll)
  <2>1. doc \in PollDoc \cup {NoPoll}
    BY <1>1 DEF TypeInv, StoreOK, FindByID
  <2>2. LocalsKept(r)
    BY <1>3, <2>1 DEF TypeInv, HandlersOK, LocalsKept, ResultsLoad
  <2>3. CASE /\ doc # NoPoll /\ Goto(r, "tally")
             /\ loaded' = [loaded EXCEPT ![r] = doc]
    <3>1. StageFits(r, "tally") /\ "tally" \in Stages
      BY <1>1, <2>1, <2>3
      DEF StageFits, TypeInv, HandlersOK, CastStages, Stages
    <3>2. QED
      BY <1>1, <1>2, <2>2, <2>3, <3>1, GotoOK DEF TypeInv
  <2>4. ASSUME NEW code \in ResultCodes, Answer(r, code)
        PROVE  TypeInv'
    BY <1>1, <1>2, <2>2, <2>4, AnswerOK DEF TypeInv, Codes
  <2>5. QED
    BY <1>3, <2>3, <2>4 DEF ResultsLoad, FailsInternally, ResultCodes
<1>4. CASE ResultsRead(r)
  <2>1. loaded[r].options \in SUBSET Options
    BY <1>4 DEF TypeInv, StageOK, ResultsRead, At, PollDoc
  <2>2. counts' \in [Requests -> CountMaps]
    BY <1>1, <1>4, <2>1, CountMapTypes DEF TypeInv, HandlersOK, ResultsRead
  <2>3. LocalsKept(r)
    BY <1>4, <2>2 DEF TypeInv, HandlersOK, LocalsKept, ResultsRead
  <2>4. \E code \in ResultCodes : Answer(r, code)
    BY <1>4 DEF ResultsRead, FailsInternally, ResultCodes
  <2>5. QED
    BY <1>1, <1>2, <2>3, <2>4, AnswerOK DEF TypeInv, Codes
<1>5. QED
  BY <1>3, <1>4

LEMMA CreateTypeInv ==
    ASSUME TypeInv, NEW r \in Requests, Create(r)
    PROVE  TypeInv'
<1>1. call[r].kind = "create" /\ call[r] \in CreateCalls
  BY CallFields DEF TypeInv, HandlersOK, Create, Starts
<1>2. NewPoll(call[r]) \in PollDoc
  BY <1>1 DEF NewPoll, PollDoc, CreateCalls
<1>3. StoreOK'
  BY <1>2 DEF TypeInv, StoreOK, Create, redis
<1>4. LocalsKept(r)
  BY DEF TypeInv, HandlersOK, LocalsKept, Create
<1>5. \E code \in CreateCodes : Answer(r, code)
  BY DEF Create, FailsInternally, CreateCodes
<1>6. QED
  BY <1>1, <1>3, <1>4, <1>5, AnswerOK DEF TypeInv, Codes

LEMMA OwnerFields ==
    ASSUME HandlersOK, NEW r \in Requests, call[r].kind \in OwnerKinds
    PROVE  call[r].poll \in Polls /\ call[r].user \in Users
  BY CallFields
  DEF HandlersOK, OwnerKinds, UpdateCalls, CloseCalls, DeleteCalls

LEMMA OwnerLoadTypeInv ==
    ASSUME TypeInv, NEW r \in Requests, OwnerLoad(r)
    PROVE  TypeInv'
<1> DEFINE doc == FindByID(call[r].poll)
           next == FirstWrite[call[r].kind]
<1>1. call[r].kind \in OwnerKinds /\ pc[r] = "new"
  BY DEF OwnerLoad, Starts
<1>2. doc \in PollDoc \cup {NoPoll}
  BY <1>1, OwnerFields DEF TypeInv, StoreOK, FindByID
<1>3. StoreOK'
  BY DEF TypeInv, StoreOK, OwnerLoad, mongo, redis
<1>4. LocalsKept(r)
  BY <1>2 DEF TypeInv, HandlersOK, LocalsKept, OwnerLoad
<1>5. CASE Goto(r, next)
  <2>1. StageFits(r, next) /\ next \in Stages
    BY <1>1 DEF StageFits, FirstWrite, OwnerKinds, CastStages, Stages
  <2>2. QED
    BY <1>1, <1>3, <1>4, <1>5, <2>1, GotoOK DEF TypeInv
<1>6. ASSUME NEW code \in {"not_found", "forbidden", "internal"},
             Answer(r, code)
      PROVE  TypeInv'
  <2>1. code \in Codes[call[r].kind]
    BY <1>1 DEF OwnerKinds, Codes, UpdateCodes, CloseCodes, DeleteCodes
  <2>2. QED
    BY <1>3, <1>4, <1>6, <2>1, AnswerOK DEF TypeInv
<1>7. QED
  BY <1>5, <1>6 DEF OwnerLoad, FailsInternally

LEMMA SetFieldsType ==
    ASSUME HandlersOK, NEW r \in Requests,
           call[r].kind \in {"update", "close"}, NEW doc \in PollDoc
    PROVE  SetFields(r, doc) \in PollDoc
  BY CallFields DEF HandlersOK, SetFields, PollDoc, UpdateCalls

LEMMA WriteFieldsTypeInv ==
    ASSUME TypeInv, NEW r \in Requests, WriteFields(r)
    PROVE  TypeInv'
<1>1. call[r].kind \in {"update", "close"} /\ pc[r] = "write"
  BY DEF TypeInv, StageOK, WriteFields, At
<1>2. call[r].poll \in Polls
  BY <1>1, OwnerFields DEF TypeInv, OwnerKinds
<1>3. StoreOK'
  BY <1>1, <1>2, SetFieldsType
  DEF TypeInv, StoreOK, WriteFields, UpdateOne, redis
<1>4. LocalsKept(r)
  BY DEF TypeInv, HandlersOK, LocalsKept, WriteFields
<1>5. CASE Goto(r, "reload")
  <2>1. StageFits(r, "reload") /\ "reload" \in Stages
    BY <1>1 DEF StageFits, CastStages, Stages
  <2>2. QED
    BY <1>1, <1>3, <1>4, <1>5, <2>1, GotoOK DEF TypeInv
<1>6. CASE Answer(r, "internal")
  <2>1. "internal" \in Codes[call[r].kind]
    BY <1>1 DEF Codes, UpdateCodes, CloseCodes
  <2>2. QED
    BY <1>3, <1>4, <1>6, <2>1, AnswerOK DEF TypeInv
<1>7. QED
  BY <1>5, <1>6 DEF WriteFields, FailsInternally

LEMMA ReloadTypeInv ==
    ASSUME TypeInv, NEW r \in Requests, Reload(r)
    PROVE  TypeInv'
<1>1. call[r].kind \in {"update", "close"} /\ pc[r] = "reload"
  BY DEF TypeInv, StageOK, Reload, At
<1>2. FindByID(call[r].poll) \in PollDoc \cup {NoPoll}
  BY <1>1, OwnerFields DEF TypeInv, StoreOK, FindByID, OwnerKinds
<1>3. StoreOK'
  BY DEF TypeInv, StoreOK, Reload, mongo, redis
<1>4. LocalsKept(r)
  BY <1>2 DEF TypeInv, HandlersOK, LocalsKept, Reload
<1>5. \E code \in {"ok", "null_poll", "internal"} : Answer(r, code)
  BY DEF Reload, FailsInternally
<1>6. {"ok", "null_poll", "internal"} \subseteq Codes[call[r].kind]
  BY <1>1 DEF Codes, UpdateCodes, CloseCodes
<1>7. QED
  BY <1>3, <1>4, <1>5, <1>6, AnswerOK DEF TypeInv

LEMMA PurgeVotesTypeInv ==
    ASSUME TypeInv, NEW r \in Requests, PurgeVotes(r)
    PROVE  TypeInv'
<1>1. call[r].kind = "delete" /\ pc[r] = "purge"
  BY DEF TypeInv, StageOK, PurgeVotes, At
<1>2. StoreOK'
  BY DEF TypeInv, StoreOK, PurgeVotes, VotesOfPoll, redis
<1>3. LocalsKept(r)
  BY DEF TypeInv, HandlersOK, LocalsKept, PurgeVotes
<1>4. StageFits(r, "remove") /\ "remove" \in Stages
  BY <1>1 DEF StageFits, CastStages, Stages
<1>5. QED
  BY <1>1, <1>2, <1>3, <1>4, GotoOK DEF TypeInv, PurgeVotes

LEMMA RemovePollTypeInv ==
    ASSUME TypeInv, NEW r \in Requests, RemovePoll(r)
    PROVE  TypeInv'
<1>1. call[r].kind = "delete" /\ pc[r] = "remove"
  BY DEF TypeInv, StageOK, RemovePoll, At
<1>2. StoreOK'
  BY DEF TypeInv, StoreOK, RemovePoll, redis
<1>3. LocalsKept(r)
  BY DEF TypeInv, HandlersOK, LocalsKept, RemovePoll
<1>4. \E code \in {"ok", "internal"} : Answer(r, code)
  BY DEF RemovePoll, FailsInternally
<1>5. {"ok", "internal"} \subseteq Codes[call[r].kind]
  BY <1>1 DEF Codes, DeleteCodes
<1>6. QED
  BY <1>2, <1>3, <1>4, <1>5, AnswerOK DEF TypeInv

-----------------------------------------------------------------------------
LEMMA ServerTypeInv ==
    ASSUME TypeInv, Startup \/ Crash \/ RedisFlush \/ UNCHANGED vars
    PROVE  TypeInv'
<1>1. CASE Startup
  <2>1. StoreOK'
    BY <1>1 DEF TypeInv, StoreOK, Startup, CreateIndexes, redis
  <2>2. HandlersOK' /\ StageOK'
    BY <1>1 DEF TypeInv, HandlersOK, StageOK, Startup, handlers
  <2>3. QED
    BY <2>1, <2>2 DEF TypeInv
<1>2. CASE Crash
  <2>1. StoreOK'
    BY <1>2 DEF TypeInv, StoreOK, Crash, mongo, redis
  <2>2. HandlersOK'
    BY <1>2 DEF TypeInv, HandlersOK, Crash, InFlight, Stages
  <2>3. StageOK'
    BY <1>2 DEF TypeInv, HandlersOK, StageOK, Crash, InFlight, Stages,
                CastStages
  <2>4. QED
    BY <2>1, <2>2, <2>3 DEF TypeInv
<1>3. CASE RedisFlush
  <2>1. StoreOK'
    BY <1>3 DEF TypeInv, StoreOK, RedisFlush, mongo
  <2>2. HandlersOK' /\ StageOK'
    BY <1>3 DEF TypeInv, HandlersOK, StageOK, RedisFlush, handlers, process
  <2>3. QED
    BY <2>1, <2>2 DEF TypeInv
<1>4. CASE UNCHANGED vars
  BY <1>4
  DEF TypeInv, StoreOK, HandlersOK, StageOK, vars, mongo, redis, process,
      handlers
<1>5. QED
  BY <1>1, <1>2, <1>3, <1>4

\* Every step of the backend keeps the typing invariant.
LEMMA NextTypeInv == TypeInv /\ [Next]_vars => TypeInv'
<1> SUFFICES ASSUME TypeInv, [Next]_vars PROVE TypeInv'
  OBVIOUS
<1>1. ASSUME NEW r \in Requests, VoteServiceNext(r)
      PROVE  TypeInv'
  BY <1>1, CastLoadTypeInv, CastCheckTypeInv, CastInsertTypeInv,
     CastIncrTypeInv, CastReadTypeInv, CastPublishTypeInv, ResultsTypeInv
  DEF VoteServiceNext, CastStep
<1>2. ASSUME NEW r \in Requests, PollServiceNext(r)
      PROVE  TypeInv'
  BY <1>2, CreateTypeInv, OwnerLoadTypeInv, WriteFieldsTypeInv, ReloadTypeInv,
     PurgeVotesTypeInv, RemovePollTypeInv
  DEF PollServiceNext, OwnerStep
<1>3. QED
  BY <1>1, <1>2, ServerTypeInv DEF Next, HandlerStep, Idle

LEMMA TypeInvImpliesTypeOK == TypeInv => TypeOK
<1> SUFFICES ASSUME TypeInv PROVE TypeOK
  OBVIOUS
<1>1. ASSUME NEW e \in CountMaps
      PROVE  CountMap(e)
  BY DEF CountMaps, CountMap
<1>2. \A p \in Polls : \A i \in DOMAIN events[p] : CountMap(events[p][i])
  <2> SUFFICES ASSUME NEW p \in Polls, NEW i \in DOMAIN events[p]
               PROVE  CountMap(events[p][i])
    OBVIOUS
  <2>1. events[p] \in Seq(CountMaps)
    BY DEF TypeInv, StoreOK
  <2>2. events[p][i] \in CountMaps
    BY <2>1
  <2>3. QED
    BY <1>1, <2>2
<1>3. \A r \in Requests : CountMap(counts[r])
  BY <1>1 DEF TypeInv, HandlersOK
<1>4. DOMAIN events = Polls
  BY DEF TypeInv, StoreOK
<1>5. QED
  BY <1>2, <1>3, <1>4 DEF TypeInv, StoreOK, HandlersOK, TypeOK

\* Type correctness: in every reachable state the stores, the handlers' local
\* variables and the answers of the controllers have the types TypeOK gives.
THEOREM TypeCorrect == Spec => []TypeOK
<1>1. Spec => []TypeInv
  BY InitTypeInv, NextTypeInv, PTL DEF Spec
<1>2. QED
  BY <1>1, TypeInvImpliesTypeOK, PTL

-----------------------------------------------------------------------------
\* The index argument: a running server has the index, and the index refuses
\* the second of two votes that both passed the check in Cast.
IndexInv == IndexBuildable /\ (up => uniqueIndex)

LEMMA NextIndexInv ==
    ASSUME "index" \notin Faults
    PROVE  TypeInv /\ IndexInv /\ [Next]_vars => IndexInv'
<1> SUFFICES ASSUME TypeInv, IndexInv, [Next]_vars
             PROVE  IndexInv'
  OBVIOUS
<1> USE DEF IndexInv, IndexBuildable
<1>1. CASE votes' \subseteq votes /\ UNCHANGED uniqueIndex /\ (up' => up)
  BY <1>1
<1>2. ASSUME NEW r \in Requests, CastInsert(r)
      PROVE  IndexInv'
  <2>1. up /\ UNCHANGED <<up, uniqueIndex>>
    BY <1>2 DEF CastInsert, At, process
  <2>2. CASE UNCHANGED votes
    BY <1>1, <2>1, <2>2
  <2>3. CASE ~DuplicateKey(VoteOf(r)) /\ votes' = votes \cup {VoteOf(r)}
    BY <2>1, <2>3 DEF DuplicateKey, HasVoted
  <2>4. QED
    BY <1>2, <2>2, <2>3 DEF CastInsert
<1>3. ASSUME NEW r \in Requests, HandlerStep(r), ~CastInsert(r)
      PROVE  votes' \subseteq votes /\ UNCHANGED <<up, uniqueIndex>>
  BY <1>3
  DEF HandlerStep, VoteServiceNext, CastStep, PollServiceNext, OwnerStep,
      CastLoad, CastCheck, CastIncr, CastRead, CastPublish, ResultsLoad,
      ResultsRead, Create, OwnerLoad, WriteFields, Reload, PurgeVotes,
      RemovePoll, mongo, process
<1>4. CASE Startup
  BY <1>4 DEF Startup, CreateIndexes
<1>5. CASE Crash \/ RedisFlush \/ UNCHANGED vars
  BY <1>1, <1>5 DEF Crash, RedisFlush, vars, mongo, process
<1>6. QED
  BY <1>1, <1>2, <1>3, <1>4, <1>5 DEF Next, Idle

\* One stored vote per voter token and poll, for any number of requests,
\* crashes and restarts, provided the creation of the index never fails.
THEOREM OneVotePerTokenHolds ==
    ASSUME "index" \notin Faults
    PROVE  Spec => []OneVotePerToken
<1>1. Init => TypeInv /\ IndexInv
  BY InitTypeInv
  DEF Init, StoreInit, HandlersInit, IndexInv, IndexBuildable
<1>2. TypeInv /\ IndexInv /\ [Next]_vars => (TypeInv /\ IndexInv)'
  BY NextTypeInv, NextIndexInv
<1>3. TypeInv /\ IndexInv => OneVotePerToken
  BY DEF IndexInv, OneVotePerToken
<1>4. QED
  BY <1>1, <1>2, <1>3, PTL DEF Spec

-----------------------------------------------------------------------------
\* The accounting argument: a stored vote belongs to a handler past its
\* insert, and HINCRBY is what moves that vote into the counted ones.
Counted(p, o) == {v \in VotesFor(accepted, p, o) : pc[v.id] # "incr"}

OwnershipInv ==
    /\ \A v \in accepted :
          /\ call[v.id].kind = "vote"
          /\ v = VoteOf(v.id)
          /\ pc[v.id] \in {"incr", "read", "publish", "done"}
    /\ \A r \in Requests : pc[r] = "incr" => VoteOf(r) \in accepted

AccountInv == OwnershipInv /\ CountersAccountForVotes

\* A step that neither inserts nor counts leaves the accounts as they are.
Neutral(r) ==
    /\ UNCHANGED <<accepted, counters, call>>
    /\ \A q \in Requests \ {r} : pc'[q] = pc[q]
    /\ pc[r] \notin {"insert", "incr"}
    /\ pc'[r] # "incr"
    /\ pc[r] \in {"read", "publish"} => pc'[r] \in {"publish", "done"}
    /\ pc[r] # "done"

LEMMA NeutralAccount ==
    ASSUME TypeInv, AccountInv, NEW r \in Requests, Neutral(r)
    PROVE  AccountInv'
<1>1. \A v \in accepted : v.id \in Requests
  BY DEF TypeInv, StoreOK, VoteDoc
<1>2. OwnershipInv'
  BY <1>1 DEF AccountInv, OwnershipInv, Neutral, VoteOf
<1>3. ASSUME NEW p \in Polls, NEW o \in Options
      PROVE  Counted(p, o)' = Counted(p, o)
  BY <1>1 DEF Counted, VotesFor, Neutral, AccountInv, OwnershipInv
<1>4. CountersAccountForVotes'
  BY <1>3 DEF AccountInv, CountersAccountForVotes, Counted, Neutral
<1>5. QED
  BY <1>2, <1>4 DEF AccountInv

LEMMA InsertAccount ==
    ASSUME Faults \subseteq {"index"}, TypeInv, AccountInv, NEW r \in Requests, CastInsert(r)
    PROVE  AccountInv'
<1> USE DEF AccountInv
<1>1. /\ pc[r] = "insert" /\ call[r].kind = "vote"
      /\ UNCHANGED <<call, counters>>
      /\ \A v \in accepted : v.id \in Requests /\ v.id # r
      /\ \A q \in Requests \ {r} : pc'[q] = pc[q]
      /\ pc'[r] \in {"incr", "done"}
      /\ VoteOf(r).id = r
  BY DEF TypeInv, StoreOK, HandlersOK, StageOK, VoteDoc, CastInsert, At,
         CastStages, OwnershipInv, Goto, Answer, FailsInternally, CastNext,
         process, redis, VoteOf
<1>2. CASE UNCHANGED accepted /\ pc'[r] = "done"
  <2>1. OwnershipInv'
    BY <1>1, <1>2 DEF OwnershipInv, VoteOf
  <2>2. \A p \in Polls, o \in Options : Counted(p, o)' = Counted(p, o)
    BY <1>1, <1>2 DEF Counted, VotesFor
  <2>3. QED
    BY <1>1, <2>1, <2>2 DEF CountersAccountForVotes, Counted
<1>3. CASE accepted' = accepted \cup {VoteOf(r)} /\ pc'[r] = "incr"
  <2>1. OwnershipInv'
    BY <1>1, <1>3 DEF OwnershipInv, VoteOf
  <2>2. \A p \in Polls, o \in Options : Counted(p, o)' = Counted(p, o)
    BY <1>1, <1>3 DEF Counted, VotesFor
  <2>3. QED
    BY <1>1, <2>1, <2>2 DEF CountersAccountForVotes, Counted
<1>4. QED
  BY <1>2, <1>3
  DEF CastInsert, FailsInternally, Goto, Answer, CastNext, TypeInv, HandlersOK

LEMMA IncrAccount ==
    ASSUME Faults \subseteq {"index"}, TypeInv, AccountInv, NEW r \in Requests, CastIncr(r)
    PROVE  AccountInv'
<1>1. /\ pc[r] = "incr" /\ call[r].kind = "vote"
      /\ UNCHANGED <<accepted, call>>
      /\ pc' = [pc EXCEPT ![r] = "read"]
  BY DEF TypeInv, StageOK, CastIncr, At, CastStages, Goto, CastNext, mongo,
         process
<1>2. PICK p \in Polls, o \in Options :
         /\ p = call[r].poll /\ o = call[r].option
         /\ VoteOf(r).id = r /\ VoteOf(r) \in VotesFor(accepted, p, o)
  BY <1>1, VoteOfType DEF TypeInv, AccountInv, OwnershipInv, VotesFor
<1>3. counters' = [counters EXCEPT ![p][o] = @ + 1]
  <2>1. WriteTimes = {1}
    BY DEF WriteTimes
  <2>2. QED
    BY <1>2, <2>1 DEF CastIncr
<1>4. \A v \in accepted : v.id \in Requests /\ (v.id = r => v = VoteOf(r))
  BY DEF TypeInv, StoreOK, VoteDoc, AccountInv, OwnershipInv
<1>5. OwnershipInv'
  BY <1>1, <1>4 DEF TypeInv, HandlersOK, AccountInv, OwnershipInv, VoteOf
<1>6. Counted(p, o)' = Counted(p, o) \cup {VoteOf(r)}
  BY <1>1, <1>2, <1>4 DEF Counted, VotesFor, TypeInv, HandlersOK
<1>7. VoteOf(r) \notin Counted(p, o)
  BY <1>1, <1>2 DEF Counted
<1>8. IsFiniteSet(Counted(p, o))
  BY FS_Subset DEF TypeInv, StoreOK, Counted, VotesFor
<1>9. Cardinality(Counted(p, o)') = Cardinality(Counted(p, o)) + 1
  BY <1>6, <1>7, <1>8, FS_AddElement
<1>10. ASSUME NEW q \in Polls, NEW i \in Options, ~(q = p /\ i = o)
       PROVE  Counted(q, i)' = Counted(q, i)
  BY <1>1, <1>2, <1>4, <1>10 DEF Counted, VotesFor, TypeInv, HandlersOK
<1>11. ASSUME NEW q \in Polls, NEW i \in Options
       PROVE  counters'[q][i] = Cardinality(Counted(q, i)')
  <2>1. counters[q][i] = Cardinality(Counted(q, i))
    BY DEF AccountInv, CountersAccountForVotes, Counted
  <2>2. CASE q = p /\ i = o
    BY <1>2, <1>3, <1>9, <2>1, <2>2 DEF TypeInv, StoreOK
  <2>3. CASE ~(q = p /\ i = o)
    <3>1. counters'[q][i] = counters[q][i]
      BY <1>2, <1>3, <2>3 DEF TypeInv, StoreOK
    <3>2. QED
      BY <1>10, <2>1, <2>3, <3>1
  <2>4. QED
    BY <2>2, <2>3
<1>12. CountersAccountForVotes'
  BY <1>11 DEF CountersAccountForVotes, Counted
<1>13. QED
  BY <1>5, <1>12 DEF AccountInv

LEMMA NextAccount ==
    ASSUME Faults \subseteq {"index"}
    PROVE  TypeInv /\ AccountInv /\ [Next]_vars => AccountInv'
<1> SUFFICES ASSUME TypeInv, AccountInv, [Next]_vars
             PROVE  AccountInv'
  OBVIOUS
<1>1. ASSUME NEW r \in Requests, CastLoad(r) \/ CastCheck(r) \/ CastRead(r)
                                   \/ CastPublish(r)
      PROVE  Neutral(r)
  BY <1>1
  DEF TypeInv, HandlersOK, Neutral, CastLoad, CastCheck, CastRead,
      CastPublish, Starts, At, Goto, Answer, FailsInternally, CastNext, mongo,
      redis, process
<1>2. ASSUME NEW r \in Requests, ResultsLoad(r) \/ ResultsRead(r)
      PROVE  Neutral(r)
  BY <1>2
  DEF TypeInv, HandlersOK, Neutral, ResultsLoad, ResultsRead, Starts, At,
      Goto, Answer, FailsInternally, mongo, redis, process
<1>3. ASSUME NEW r \in Requests, PollServiceNext(r)
      PROVE  Neutral(r)
  <2>1. \A c \in OwnerKinds : FirstWrite[c] \in {"write", "purge"}
    BY DEF FirstWrite, OwnerKinds
  <2>2. QED
    BY <1>3, <2>1
    DEF TypeInv, HandlersOK, Neutral, PollServiceNext, OwnerStep, Create,
        OwnerLoad, WriteFields, Reload, PurgeVotes, RemovePoll, Starts, At,
        Goto, Answer, FailsInternally, mongo, redis, process
<1>4. ASSUME Startup \/ UNCHANGED vars
      PROVE  AccountInv'
  BY <1>4
  DEF Startup, vars, mongo, redis, process, handlers, AccountInv,
      OwnershipInv, CountersAccountForVotes, VotesFor, VoteOf
<1>5. ~Crash /\ ~RedisFlush
  BY DEF Crash, RedisFlush
<1>6. QED
  BY <1>1, <1>2, <1>3, <1>4, <1>5, NeutralAccount, InsertAccount, IncrAccount
  DEF Next, HandlerStep, VoteServiceNext, CastStep, Idle

LEMMA InitAccount == Init => AccountInv
<1> SUFFICES ASSUME Init PROVE AccountInv
  OBVIOUS
<1>1. \A p \in Polls, o \in Options : Counted(p, o) = {}
  BY DEF Init, StoreInit, Counted, VotesFor
<1>2. CountersAccountForVotes
  BY <1>1, FS_EmptySet DEF CountersAccountForVotes, Counted, Init, StoreInit
<1>3. OwnershipInv
  BY DEF OwnershipInv, Init, StoreInit, HandlersInit
<1>4. QED
  BY <1>2, <1>3 DEF AccountInv

\* With no fault but a failed index creation, the Redis counters account for
\* every vote ever inserted, except those between the insert and HINCRBY, for
\* any number of requests.
THEOREM CountersAccount ==
    ASSUME Faults \subseteq {"index"}
    PROVE  Spec => []CountersAccountForVotes
<1>1. Init => TypeInv /\ AccountInv
  BY InitTypeInv, InitAccount
<1>2. TypeInv /\ AccountInv /\ [Next]_vars => (TypeInv /\ AccountInv)'
  BY NextTypeInv, NextAccount
<1>3. TypeInv /\ AccountInv => CountersAccountForVotes
  BY DEF AccountInv
<1>4. QED
  BY <1>1, <1>2, <1>3, PTL DEF Spec
=============================================================================
