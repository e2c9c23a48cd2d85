----------------------------- MODULE PollProofs -----------------------------
(***************************************************************************)
(* Theorems about the life of polls in Backend, for all values of its      *)
(* constants: what no step of any handler does to a poll or to its votes.  *)
(***************************************************************************)
EXTENDS BackendProofs

-----------------------------------------------------------------------------
\* What one step can do to the poll p.
PollKept(p) == polls'[p] = polls[p] /\ (p \in issued' <=> p \in issued)

PollOpened(p) ==
    /\ p \notin issued /\ polls[p] = NoPoll
    /\ p \in issued' /\ polls'[p] \in PollDoc /\ polls'[p].status = "active"
    /\ UNCHANGED <<votes, accepted, loaded>>

PollWritten(p, r) ==
    /\ call[r].kind \in {"update", "close"} /\ call[r].poll = p
    /\ pc[r] = "write" /\ pc'[r] \in {"reload", "done"}
    /\ polls[p] \in PollDoc /\ polls'[p] = SetFields(r, polls[p])
    /\ UNCHANGED <<issued, votes, accepted, loaded>>

PollRemoved(p, r) ==
    /\ call[r].kind = "delete" /\ call[r].poll = p
    /\ pc[r] = "remove" /\ pc'[r] = "done"
    /\ polls[p] \in PollDoc /\ polls'[p] = NoPoll
    /\ UNCHANGED <<issued, votes, accepted, loaded>>

PollStep(p) ==
    \/ PollKept(p)
    \/ PollOpened(p)
    \/ \E r \in Requests : PollWritten(p, r) \/ PollRemoved(p, r)

LEMMA PollSteps ==
    ASSUME TypeInv, [Next]_vars, NEW p \in Polls
    PROVE  PollStep(p)
<1>1. CASE UNCHANGED <<polls, issued>>
  BY <1>1 DEF PollStep, PollKept
<1>2. ASSUME NEW r \in Requests, Create(r)
      PROVE  PollStep(p)
  <2>1. call[r] \in CreateCalls
    BY <1>2, CallFields DEF TypeInv, HandlersOK, Create, Starts
  <2>2. NewPoll(call[r]) \in PollDoc /\ NewPoll(call[r]).status = "active"
    BY <2>1 DEF NewPoll, PollDoc, CreateCalls
  <2>3. ASSUME NEW n \in Polls \ issued,
               polls' = [polls EXCEPT ![n] = NewPoll(call[r])],
               issued' = issued \cup {n}
        PROVE  PollStep(p)
    <3>1. CASE p = n
      BY <1>2, <2>2, <2>3, <3>1
      DEF PollStep, PollOpened, TypeInv, StoreOK, Create
    <3>2. CASE p # n
      BY <2>3, <3>2 DEF PollStep, PollKept, TypeInv, StoreOK
    <3>3. QED
      BY <3>1, <3>2
  <2>4. QED
    BY <1>1, <1>2, <2>3 DEF Create
<1>3. ASSUME NEW r \in Requests, WriteFields(r), polls' # polls
      PROVE  PollStep(p)
  <2>1. /\ call[r].kind \in {"update", "close"} /\ pc[r] = "write"
        /\ call[r].poll \in Polls
    BY <1>3, OwnerFields DEF TypeInv, StageOK, WriteFields, At, OwnerKinds
  <2>2. polls' = UpdateOne(call[r].poll, SetFields(r, polls[call[r].poll]))
    BY <1>3 DEF WriteFields
  <2>3. /\ polls[call[r].poll] \in PollDoc
        /\ polls' = [polls EXCEPT ![call[r].poll] = SetFields(r, polls[call[r].poll])]
    BY <1>3, <2>1, <2>2 DEF UpdateOne, TypeInv, StoreOK
  <2>4. pc'[r] \in {"reload", "done"}
    BY <1>3 DEF WriteFields, FailsInternally, Goto, Answer, TypeInv, HandlersOK
  <2>5. UNCHANGED <<issued, votes, accepted, loaded>>
    BY <1>3 DEF WriteFields
  <2>6. CASE p = call[r].poll
    <3>1. polls'[p] = SetFields(r, polls[p])
      BY <2>3, <2>6 DEF TypeInv, StoreOK
    <3>2. PollWritten(p, r)
      BY <2>1, <2>3, <2>4, <2>5, <2>6, <3>1 DEF PollWritten
    <3>3. QED
      BY <3>2 DEF PollStep
  <2>7. CASE p # call[r].poll
    BY <2>3, <2>5, <2>7 DEF PollStep, PollKept, TypeInv, StoreOK
  <2>8. QED
    BY <2>6, <2>7
<1>4. ASSUME NEW r \in Requests, RemovePoll(r)
      PROVE  PollStep(p)
  <2>1. call[r].kind = "delete" /\ pc[r] = "remove" /\ call[r].poll \in Polls
    BY <1>4, OwnerFields DEF TypeInv, StageOK, RemovePoll, At, OwnerKinds
  <2>2. pc'[r] = "done" /\ UNCHANGED <<issued, votes, accepted, loaded>>
    BY <1>4 DEF RemovePoll, FailsInternally, Answer, TypeInv, HandlersOK
  <2>3. CASE polls' = [polls EXCEPT ![call[r].poll] = NoPoll]
    BY <2>1, <2>2, <2>3
    DEF PollStep, PollKept, PollRemoved, TypeInv, StoreOK
  <2>4. QED
    BY <1>1, <1>4, <2>2, <2>3 DEF RemovePoll
<1>5. ASSUME NEW r \in Requests, HandlerStep(r), ~Create(r), ~WriteFields(r), ~RemovePoll(r)
      PROVE  UNCHANGED <<polls, issued>>
  BY <1>5
  DEF HandlerStep, VoteServiceNext, CastStep, PollServiceNext, OwnerStep,
      CastLoad, CastCheck, CastInsert, CastIncr, CastRead, CastPublish,
      ResultsLoad, ResultsRead, OwnerLoad, Reload, PurgeVotes, mongo
<1>6. CASE Startup \/ Crash \/ RedisFlush \/ UNCHANGED vars
  BY <1>1, <1>6 DEF Startup, Crash, RedisFlush, vars, mongo
<1>7. CASE \E r \in Requests : WriteFields(r)
  <2>1. issued' = issued
    BY <1>7 DEF WriteFields
  <2>2. QED
    BY <1>1, <1>3, <1>7, <2>1
<1>8. QED
  BY <1>1, <1>2, <1>4, <1>5, <1>6, <1>7 DEF Next, Idle

\* What a write of Update or Close does to the document.
LEMMA WrittenFields ==
    ASSUME NEW p, NEW r \in Requests, PollWritten(p, r)
    PROVE  /\ polls'[p].creator = polls[p].creator
           /\ polls'[p].options = polls[p].options
           /\ polls'[p].status = IF call[r].kind = "close" THEN "closed"
                                 ELSE polls[p].status
BY DEF PollWritten, SetFields, PollDoc

-----------------------------------------------------------------------------
\* What one step can do to the votes.
VoteInserted(r) ==
    /\ call[r].kind = "vote" /\ pc[r] = "insert" /\ up
    /\ ~DuplicateKey(VoteOf(r))
    /\ votes' = votes \cup {VoteOf(r)} /\ accepted' = accepted \cup {VoteOf(r)}
    /\ pc'[r] = "incr" \/ (pc'[r] = "done" /\ reply'[r] = "internal")
    /\ UNCHANGED <<polls, issued, loaded>>

VotesPurged(r) ==
    /\ call[r].kind = "delete" /\ pc[r] = "purge" /\ pc'[r] = "remove"
    /\ votes' \subseteq votes /\ votes \ votes' \subseteq VotesOfPoll(votes, call[r].poll)
    /\ UNCHANGED <<polls, issued, accepted, loaded>>

VoteStep ==
    \/ UNCHANGED <<votes, accepted>>
    \/ \E r \in Requests : VoteInserted(r) \/ VotesPurged(r)

LEMMA VoteSteps ==
    ASSUME TypeInv, [Next]_vars
    PROVE  VoteStep
<1>1. ASSUME NEW r \in Requests, CastInsert(r)
      PROVE  VoteStep
  <2>1. call[r].kind = "vote" /\ pc[r] = "insert" /\ up
    BY <1>1 DEF TypeInv, StageOK, CastStages, CastInsert, At
  <2>2. CASE /\ ~DuplicateKey(VoteOf(r))
             /\ votes' = votes \cup {VoteOf(r)}
             /\ accepted' = accepted \cup {VoteOf(r)}
             /\ Goto(r, CastNext.insert) \/ Answer(r, "internal")
    <3>1. pc'[r] = "incr" \/ (pc'[r] = "done" /\ reply'[r] = "internal")
      BY <2>2 DEF Goto, Answer, CastNext, TypeInv, HandlersOK
    <3>2. UNCHANGED <<polls, issued, loaded>>
      BY <1>1 DEF CastInsert
    <3>3. QED
      BY <2>1, <2>2, <3>1, <3>2 DEF VoteStep, VoteInserted
  <2>3. QED
    BY <1>1, <2>2 DEF CastInsert, FailsInternally, VoteStep
<1>2. ASSUME NEW r \in Requests, PurgeVotes(r)
      PROVE  VoteStep
  <2>1. /\ call[r].kind = "delete" /\ pc[r] = "purge"
        /\ UNCHANGED <<polls, issued, accepted, loaded>>
    BY <1>2 DEF TypeInv, StageOK, PurgeVotes, At
  <2>2. pc'[r] = "remove"
    BY <1>2 DEF PurgeVotes, Goto, TypeInv, HandlersOK
  <2>3. votes' \subseteq votes /\ votes \ votes' \subseteq VotesOfPoll(votes, call[r].poll)
    BY <1>2 DEF PurgeVotes
  <2>4. QED
    BY <2>1, <2>2, <2>3 DEF VoteStep, VotesPurged
<1>3. ASSUME NEW r \in Requests, HandlerStep(r), ~CastInsert(r), ~PurgeVotes(r)
      PROVE  UNCHANGED <<votes, accepted>>
  BY <1>3
  DEF HandlerStep, VoteServiceNext, CastStep, PollServiceNext, OwnerStep,
      CastLoad, CastCheck, CastIncr, CastRead, CastPublish, ResultsLoad,
      ResultsRead, Create, OwnerLoad, WriteFields, Reload, RemovePoll, mongo
<1>4. CASE Startup \/ Crash \/ RedisFlush \/ UNCHANGED vars
  BY <1>4 DEF Startup, Crash, RedisFlush, vars, mongo, VoteStep
<1>5. QED
  BY <1>1, <1>2, <1>3, <1>4 DEF Next, Idle, VoteStep

-----------------------------------------------------------------------------
\* The invariant: the ownership that an owner's handler checked still holds
\* when it writes, a told end is an end, and refusals come before the insert.
Over(p) == p \in issued /\ (polls[p] = NoPoll \/ Closed(p))

OwnerFits(r) ==
    pc[r] \in {"write", "reload", "purge", "remove"} =>
       /\ call[r].poll \in issued
       /\ loaded[r] \in PollDoc /\ loaded[r].creator = call[r].user
       /\ polls[call[r].poll] # NoPoll
             => polls[call[r].poll].creator = call[r].user

EndFits(r) ==
    /\ call[r].kind = "close" /\ (pc[r] = "reload" \/ reply[r] \in {"ok", "null_poll"})
          => Over(call[r].poll)
    /\ call[r].kind = "delete" /\ reply[r] = "ok" => Over(call[r].poll)
    /\ call[r].kind = "vote" /\ reply[r] = "poll_closed" => Over(call[r].poll)

VoteFits(v) ==
    /\ call[v.id].kind = "vote" /\ v = VoteOf(v.id)
    /\ pc[v.id] \in {"incr", "read", "publish", "done", "lost"}
    /\ reply[v.id] \in {"none", "ok", "internal"}

LifeInv ==
    /\ \A r \in Requests : OwnerFits(r) /\ EndFits(r)
    /\ \A v \in accepted : VoteFits(v)

\* Once over, over: the two disjuncts of ClosedStaysClosed.
LEMMA OverStays ==
    ASSUME TypeInv, [Next]_vars, NEW p \in Polls
    PROVE  /\ Closed(p) => Closed(p)' \/ Gone(p)'
           /\ Gone(p) => Gone(p)'
           /\ Over(p) => Over(p)'
<1>1. PollStep(p)
  BY PollSteps
<1>2. polls[p] # NoPoll => p \in issued
  BY DEF TypeInv, StoreOK
<1>3. CASE PollKept(p)
  BY <1>3 DEF PollKept, Closed, Gone, Over
<1>4. CASE PollOpened(p)
  BY <1>4 DEF PollOpened, Closed, Gone, Over
<1>5. ASSUME NEW r \in Requests, PollWritten(p, r)
      PROVE  /\ issued' = issued /\ p \in issued
             /\ polls[p] # NoPoll
             /\ Closed(p) => polls'[p] = NoPoll \/ polls'[p].status = "closed"
  BY <1>2, <1>5, WrittenFields, StoreAssumption DEF PollWritten, Closed, StoreAssumption
<1>6. ASSUME NEW r \in Requests, PollRemoved(p, r)
      PROVE  Gone(p)' /\ Over(p)'
  BY <1>2, <1>6, StoreAssumption DEF PollRemoved, Gone, Over, StoreAssumption
<1>7. QED
  BY <1>1, <1>3, <1>4, <1>5, <1>6 DEF PollStep, Closed, Gone, Over

\* The creator of a document never changes, and a new one belongs to nobody's
\* earlier request.
LEMMA CreatorStays ==
    ASSUME TypeInv, [Next]_vars, NEW p \in Polls, p \in issued, polls'[p] # NoPoll
    PROVE  /\ p \in issued'
           /\ polls[p] # NoPoll
           /\ polls'[p].creator = polls[p].creator
           /\ polls'[p].options = polls[p].options
<1>1. PollStep(p)
  BY PollSteps
<1>2. CASE PollKept(p)
  BY <1>2 DEF PollKept
<1>3. ~PollOpened(p)
  BY DEF PollOpened
<1>4. ASSUME NEW r \in Requests, PollWritten(p, r)
      PROVE  /\ p \in issued'
             /\ polls[p] # NoPoll
             /\ polls'[p].creator = polls[p].creator
             /\ polls'[p].options = polls[p].options
  BY <1>4, WrittenFields, StoreAssumption DEF PollWritten, StoreAssumption
<1>5. \A r \in Requests : ~PollRemoved(p, r)
  BY DEF PollRemoved
<1>6. QED
  BY <1>1, <1>2, <1>3, <1>4, <1>5 DEF PollStep

LEMMA IssuedStays ==
    ASSUME TypeInv, [Next]_vars, NEW p \in issued
    PROVE  p \in issued'
<1>1. p \in Polls
  BY DEF TypeInv, StoreOK
<1>2. PollStep(p)
  BY <1>1, PollSteps
<1>3. QED
  BY <1>2 DEF PollStep, PollKept, PollOpened, PollWritten, PollRemoved

\* The poll of a call, for the kinds that name one.
LEMMA NamedPoll ==
    ASSUME TypeInv, NEW r \in Requests,
           call[r].kind \in {"vote", "results"} \cup OwnerKinds
    PROVE  call[r].poll \in Polls
BY CallFields
DEF TypeInv, HandlersOK, VoteCalls, ResultCalls, OwnerKinds, UpdateCalls, CloseCalls,
    DeleteCalls

\* A step of handler r leaves the locals of the others alone.
OnlyHandler(r) ==
    /\ UNCHANGED call
    /\ \A q \in Requests \ {r} : /\ pc'[q] = pc[q] /\ reply'[q] = reply[q]
                                 /\ loaded'[q] = loaded[q] /\ counts'[q] = counts[q]

LEMMA HandlerFrame ==
    ASSUME TypeInv, NEW r \in Requests, HandlerStep(r)
    PROVE  OnlyHandler(r) /\ up /\ up' = up
<1> USE DEF TypeInv, HandlersOK, OnlyHandler, process, Goto, Answer, FailsInternally,
            Starts, At
<1>1. CASE CastLoad(r) \/ CastCheck(r) \/ CastInsert(r)
  BY <1>1 DEF CastLoad, CastCheck, CastInsert
<1>2. CASE CastIncr(r) \/ CastRead(r) \/ CastPublish(r)
  BY <1>2 DEF CastIncr, CastRead, CastPublish
<1>3. CASE ResultsLoad(r) \/ ResultsRead(r)
  BY <1>3 DEF ResultsLoad, ResultsRead
<1>4. CASE Create(r) \/ OwnerLoad(r) \/ WriteFields(r)
  BY <1>4 DEF Create, OwnerLoad, WriteFields
<1>5. CASE Reload(r) \/ PurgeVotes(r) \/ RemovePoll(r)
  BY <1>5 DEF Reload, PurgeVotes, RemovePoll
<1>6. QED
  BY <1>1, <1>2, <1>3, <1>4, <1>5
  DEF HandlerStep, VoteServiceNext, CastStep, PollServiceNext, OwnerStep

-----------------------------------------------------------------------------
LEMMA OthersLife ==
    ASSUME TypeInv, LifeInv, [Next]_vars, NEW q \in Requests, UNCHANGED call,
           pc'[q] = pc[q], reply'[q] = reply[q], loaded'[q] = loaded[q]
    PROVE  OwnerFits(q)' /\ EndFits(q)'
<1>1. OwnerFits(q)'
  <2> SUFFICES ASSUME pc[q] \in {"write", "reload", "purge", "remove"}
               PROVE  /\ call[q].poll \in issued'
                      /\ polls'[call[q].poll] # NoPoll
                            => polls'[call[q].poll].creator = call[q].user
    BY DEF OwnerFits, LifeInv
  <2>1. /\ call[q].poll \in issued /\ call[q].poll \in Polls
        /\ polls[call[q].poll] # NoPoll
             => polls[call[q].poll].creator = call[q].user
    BY DEF OwnerFits, LifeInv, TypeInv, StoreOK
  <2>2. QED
    BY <2>1, CreatorStays, IssuedStays
<1>2. EndFits(q)'
  <2>1. call[q].kind \in {"close", "delete", "vote"} => call[q].poll \in Polls
    BY NamedPoll DEF OwnerKinds
  <2>2. call[q].kind \in {"close", "delete", "vote"} /\ Over(call[q].poll)
           => Over(call[q].poll)'
    BY <2>1, OverStays DEF Over
  <2>3. EndFits(q)
    BY DEF LifeInv
  <2>4. QED
    BY <2>2, <2>3 DEF EndFits, Over, Closed
<1>3. QED
  BY <1>1, <1>2

LEMMA HandlerLife ==
    ASSUME TypeInv, LifeInv, NEW r \in Requests, HandlerStep(r),
           OwnerFits(r)', EndFits(r)',
           \A v \in accepted' : v.id = r => VoteFits(v)'
    PROVE  LifeInv'
<1>1. [Next]_vars /\ OnlyHandler(r)
  BY HandlerFrame DEF Next
<1>2. ASSUME NEW q \in Requests
      PROVE  OwnerFits(q)' /\ EndFits(q)'
  BY <1>1, OthersLife DEF OnlyHandler
<1>3. ASSUME NEW v \in accepted', v.id # r
      PROVE  VoteFits(v)'
  <2>1. v \in accepted
    <3>1. CASE UNCHANGED <<votes, accepted>>
      BY <3>1
    <3>2. ASSUME NEW q \in Requests, VoteInserted(q)
          PROVE  v \in accepted
      <4>1. q = r
        BY <1>1, <3>2 DEF VoteInserted, OnlyHandler
      <4>2. QED
        BY <1>3, <3>2, <4>1 DEF VoteInserted, VoteOf
    <3>3. ASSUME NEW q \in Requests, VotesPurged(q)
          PROVE  v \in accepted
      BY <3>3 DEF VotesPurged
    <3>4. QED
      BY <1>1, <3>1, <3>2, <3>3, VoteSteps DEF VoteStep
  <2>2. VoteFits(v) /\ v.id \in Requests
    BY <2>1 DEF LifeInv, TypeInv, StoreOK, VoteDoc
  <2>3. QED
    BY <1>1, <1>3, <2>2 DEF VoteFits, VoteOf, OnlyHandler
<1>4. QED
  BY <1>2, <1>3 DEF LifeInv

\* No vote of a handler is stored before its insert.
LEMMA NotYetStored ==
    ASSUME LifeInv, NEW r \in Requests, pc[r] \notin {"incr", "read", "publish", "done", "lost"}
    PROVE  \A v \in accepted : v.id # r
BY DEF LifeInv, VoteFits

LEMMA CastLoadLife ==
    ASSUME TypeInv, LifeInv, NEW r \in Requests, CastLoad(r)
    PROVE  LifeInv'
<1>1. /\ call[r].kind = "vote" /\ pc[r] = "new" /\ call[r].poll \in Polls
      /\ call' = call /\ accepted' = accepted /\ polls' = polls /\ issued' = issued
  BY NamedPoll DEF CastLoad, Starts, process, mongo
<1>2. pc'[r] \in {"check", "done"}
  BY DEF CastLoad, Goto, Answer, FailsInternally, CastNext, TypeInv, HandlersOK
<1>3. reply'[r] = "poll_closed" => Over(call[r].poll)
  <2>1. reply[r] = "none"
    BY <1>1 DEF TypeInv, HandlersOK
  <2>2. CASE reply'[r] = "poll_closed"
    <3>1. polls[call[r].poll] # NoPoll /\ ~Accepting(polls[call[r].poll])
      BY <2>1, <2>2 DEF CastLoad, Goto, Answer, FailsInternally, FindByID, TypeInv, HandlersOK
    <3>2. QED
      BY <1>1, <3>1 DEF Over, Closed, Accepting, TypeInv, StoreOK, PollDoc
  <2>3. QED
    BY <2>2
<1>4. OwnerFits(r)' /\ EndFits(r)'
  BY <1>1, <1>2, <1>3 DEF OwnerFits, EndFits, Over, Closed
<1>5. \A v \in accepted' : v.id # r
  BY <1>1, NotYetStored
<1>6. QED
  BY <1>4, <1>5, HandlerLife DEF HandlerStep, VoteServiceNext

LEMMA CastCheckLife ==
    ASSUME TypeInv, LifeInv, NEW r \in Requests, CastCheck(r)
    PROVE  LifeInv'
<1>1. /\ call[r].kind = "vote" /\ pc[r] = "check" /\ reply[r] = "none"
      /\ call' = call /\ accepted' = accepted
  BY DEF TypeInv, StageOK, HandlersOK, CastStages, CastCheck, At, process, mongo
<1>2. pc'[r] \in {"insert", "done"} /\ reply'[r] \in {"none", "already_voted", "internal"}
  BY <1>1 DEF CastCheck, Goto, Answer, FailsInternally, CastNext, TypeInv, HandlersOK
<1>3. OwnerFits(r)' /\ EndFits(r)'
  BY <1>1, <1>2 DEF OwnerFits, EndFits
<1>4. \A v \in accepted' : v.id # r
  BY <1>1, NotYetStored
<1>5. QED
  BY <1>3, <1>4, HandlerLife DEF HandlerStep, VoteServiceNext, CastStep

LEMMA CastInsertLife ==
    ASSUME TypeInv, LifeInv, NEW r \in Requests, CastInsert(r)
    PROVE  LifeInv'
<1>1. /\ call[r].kind = "vote" /\ pc[r] = "insert" /\ reply[r] = "none"
      /\ call' = call
  BY DEF TypeInv, StageOK, HandlersOK, CastStages, CastInsert, At, process
<1>2. pc'[r] \in {"incr", "done"} /\ reply'[r] \in {"none", "internal"}
  BY <1>1 DEF CastInsert, Goto, Answer, FailsInternally, CastNext, TypeInv, HandlersOK
<1>3. OwnerFits(r)' /\ EndFits(r)'
  BY <1>1, <1>2 DEF OwnerFits, EndFits
<1>4. ASSUME NEW v \in accepted', v.id = r
      PROVE  VoteFits(v)'
  <2>1. v = VoteOf(r)
    BY <1>1, <1>4, NotYetStored DEF CastInsert
  <2>2. QED
    BY <1>1, <1>2, <1>4, <2>1 DEF VoteFits, VoteOf
<1>5. QED
  BY <1>3, <1>4, HandlerLife DEF HandlerStep, VoteServiceNext, CastStep

LEMMA CastRestLife ==
    ASSUME TypeInv, LifeInv, NEW r \in Requests,
           CastIncr(r) \/ CastRead(r) \/ CastPublish(r)
    PROVE  LifeInv'
<1>1. /\ call[r].kind = "vote" /\ pc[r] \in CastStages /\ reply[r] = "none"
      /\ call' = call /\ accepted' = accepted
  BY DEF TypeInv, StageOK, HandlersOK, CastStages, CastIncr, CastRead, CastPublish, At,
         process, mongo
<1>2. pc'[r] \in {"read", "publish", "done"} /\ reply'[r] \in {"none", "ok"}
  BY <1>1 DEF CastIncr, CastRead, CastPublish, Goto, Answer, CastNext, TypeInv, HandlersOK
<1>3. OwnerFits(r)' /\ EndFits(r)'
  BY <1>1, <1>2 DEF OwnerFits, EndFits
<1>4. \A v \in accepted' : v.id = r => VoteFits(v)'
  BY <1>1, <1>2 DEF LifeInv, VoteFits, VoteOf
<1>5. QED
  BY <1>3, <1>4, HandlerLife DEF HandlerStep, VoteServiceNext, CastStep

LEMMA ReadersLife ==
    ASSUME TypeInv, LifeInv, NEW r \in Requests,
           ResultsLoad(r) \/ ResultsRead(r) \/ Create(r)
    PROVE  LifeInv'
<1>1. /\ call[r].kind \in {"results", "create"}
      /\ call' = call /\ accepted' = accepted
  BY DEF TypeInv, StageOK, ResultsLoad, ResultsRead, Create, Starts, At, process, mongo
<1>2. pc'[r] \in {"tally", "done"}
  BY DEF ResultsLoad, ResultsRead, Create, Goto, Answer, FailsInternally, TypeInv,
         HandlersOK
<1>3. OwnerFits(r)' /\ EndFits(r)'
  BY <1>1, <1>2 DEF OwnerFits, EndFits
<1>4. \A v \in accepted' : v.id # r
  BY <1>1 DEF LifeInv, VoteFits
<1>5. QED
  BY <1>3, <1>4, HandlerLife DEF HandlerStep, VoteServiceNext, PollServiceNext

LEMMA OwnerLoadLife ==
    ASSUME TypeInv, LifeInv, NEW r \in Requests, OwnerLoad(r)
    PROVE  LifeInv'
<1> DEFINE doc == polls[call[r].poll]
<1>1. /\ call[r].kind \in OwnerKinds /\ call[r].poll \in Polls
      /\ pc[r] = "new" /\ reply[r] = "none"
      /\ call' = call /\ accepted' = accepted /\ polls' = polls /\ issued' = issued
  BY NamedPoll DEF OwnerLoad, Starts, process, mongo, TypeInv, HandlersOK
<1>2. ASSUME doc # NoPoll, doc.creator = call[r].user,
             loaded' = [loaded EXCEPT ![r] = doc], Goto(r, FirstWrite[call[r].kind])
      PROVE  OwnerFits(r)' /\ EndFits(r)'
  <2>1. pc'[r] \in {"write", "purge"} /\ reply'[r] = "none" /\ loaded'[r] = doc
    BY <1>1, <1>2 DEF Goto, FirstWrite, OwnerKinds, TypeInv, HandlersOK
  <2>2. doc \in PollDoc /\ call[r].poll \in issued
    BY <1>1, <1>2 DEF TypeInv, StoreOK
  <2>3. QED
    BY <1>1, <1>2, <2>1, <2>2 DEF OwnerFits, EndFits, OwnerKinds
<1>3. ASSUME NEW code \in {"not_found", "forbidden", "internal"}, Answer(r, code)
      PROVE  OwnerFits(r)' /\ EndFits(r)'
  <2>1. pc'[r] = "done" /\ reply'[r] \in {"not_found", "forbidden", "internal"}
    BY <1>3 DEF Answer, TypeInv, HandlersOK
  <2>2. QED
    BY <1>1, <2>1 DEF OwnerFits, EndFits, OwnerKinds
<1>4. OwnerFits(r)' /\ EndFits(r)'
  BY <1>2, <1>3 DEF OwnerLoad, OwnedBy, FindByID, FailsInternally
<1>5. \A v \in accepted' : v.id # r
  BY <1>1, NotYetStored
<1>6. QED
  BY <1>4, <1>5, HandlerLife DEF HandlerStep, PollServiceNext

LEMMA WriteFieldsLife ==
    ASSUME TypeInv, LifeInv, NEW r \in Requests, WriteFields(r)
    PROVE  LifeInv'
<1> DEFINE p == call[r].poll
<1>1. /\ call[r].kind \in {"update", "close"} /\ p \in Polls
      /\ pc[r] = "write" /\ reply[r] = "none"
      /\ call' = call /\ accepted' = accepted /\ issued' = issued /\ loaded' = loaded
  BY NamedPoll DEF TypeInv, StageOK, HandlersOK, WriteFields, At, OwnerKinds, process
<1>2. OwnerFits(r) /\ p \in issued
  BY <1>1 DEF LifeInv, OwnerFits
<1>3. [Next]_vars
  BY DEF Next, HandlerStep, PollServiceNext, OwnerStep
<1>4. reply'[r] \in {"none", "internal"} /\ pc'[r] \in {"reload", "done"}
  BY <1>1 DEF WriteFields, Goto, Answer, FailsInternally, TypeInv, HandlersOK
<1>5. polls'[p] # NoPoll => polls'[p].creator = polls[p].creator /\ polls[p] # NoPoll
  BY <1>1, <1>2, <1>3, CreatorStays
<1>6. OwnerFits(r)'
  BY <1>1, <1>2, <1>5 DEF OwnerFits
<1>7. call[r].kind = "close" /\ pc'[r] = "reload" => Over(p)'
  <2> SUFFICES ASSUME call[r].kind = "close", pc'[r] = "reload" PROVE Over(p)'
    OBVIOUS
  <2>1. polls' = UpdateOne(p, SetFields(r, polls[p]))
    BY DEF WriteFields, Answer, FailsInternally, TypeInv, HandlersOK
  <2>2. CASE polls[p] = NoPoll
    BY <1>1, <1>2, <2>1, <2>2 DEF Over, UpdateOne
  <2>3. CASE polls[p] # NoPoll
    <3>1. polls[p] \in PollDoc
      BY <1>1, <2>3 DEF TypeInv, StoreOK
    <3>2. polls'[p] = [polls[p] EXCEPT !.status = "closed"]
      BY <1>1, <2>1, <2>3 DEF UpdateOne, SetFields, TypeInv, StoreOK
    <3>3. polls'[p].status = "closed"
      BY <3>1, <3>2 DEF PollDoc
    <3>4. QED
      BY <1>1, <1>2, <3>3 DEF Over, Closed
  <2>4. QED
    BY <2>2, <2>3
<1>8. EndFits(r)'
  BY <1>1, <1>4, <1>7 DEF EndFits, Over, Closed
<1>9. \A v \in accepted' : v.id # r
  BY <1>1, NotYetStored
<1>10. QED
  BY <1>6, <1>8, <1>9, HandlerLife DEF HandlerStep, PollServiceNext, OwnerStep

LEMMA ReloadLife ==
    ASSUME TypeInv, LifeInv, NEW r \in Requests, Reload(r)
    PROVE  LifeInv'
<1>1. /\ call[r].kind \in {"update", "close"} /\ pc[r] = "reload" /\ reply[r] = "none"
      /\ call' = call /\ accepted' = accepted /\ polls' = polls /\ issued' = issued
  BY DEF TypeInv, StageOK, HandlersOK, Reload, At, process, mongo
<1>2. pc'[r] = "done"
  BY DEF Reload, Answer, FailsInternally, TypeInv, HandlersOK
<1>3. OwnerFits(r)' /\ EndFits(r)'
  BY <1>1, <1>2 DEF LifeInv, OwnerFits, EndFits, Over, Closed
<1>4. \A v \in accepted' : v.id # r
  BY <1>1, NotYetStored
<1>5. QED
  BY <1>3, <1>4, HandlerLife DEF HandlerStep, PollServiceNext, OwnerStep

LEMMA PurgeVotesLife ==
    ASSUME TypeInv, LifeInv, NEW r \in Requests, PurgeVotes(r)
    PROVE  LifeInv'
<1>1. /\ call[r].kind = "delete" /\ pc[r] = "purge" /\ reply[r] = "none"
      /\ call' = call /\ accepted' = accepted /\ polls' = polls /\ issued' = issued
      /\ loaded' = loaded
  BY DEF TypeInv, StageOK, HandlersOK, PurgeVotes, At, process
<1>2. pc'[r] = "remove" /\ reply'[r] = "none"
  BY <1>1 DEF PurgeVotes, Goto, TypeInv, HandlersOK
<1>3. OwnerFits(r)' /\ EndFits(r)'
  BY <1>1, <1>2 DEF LifeInv, OwnerFits, EndFits
<1>4. \A v \in accepted' : v.id # r
  BY <1>1, NotYetStored
<1>5. QED
  BY <1>3, <1>4, HandlerLife DEF HandlerStep, PollServiceNext, OwnerStep

LEMMA RemovePollLife ==
    ASSUME TypeInv, LifeInv, NEW r \in Requests, RemovePoll(r)
    PROVE  LifeInv'
<1> DEFINE p == call[r].poll
<1>1. /\ call[r].kind = "delete" /\ pc[r] = "remove" /\ p \in Polls
      /\ call' = call /\ accepted' = accepted /\ issued' = issued /\ loaded' = loaded
  BY NamedPoll DEF TypeInv, StageOK, RemovePoll, At, OwnerKinds, process
<1>2. pc'[r] = "done" /\ p \in issued
  BY <1>1 DEF RemovePoll, Answer, FailsInternally, TypeInv, HandlersOK, LifeInv, OwnerFits
<1>3. reply'[r] = "ok" => polls'[p] = NoPoll
  BY <1>1 DEF RemovePoll, Answer, FailsInternally, TypeInv, HandlersOK, StoreOK
<1>4. OwnerFits(r)' /\ EndFits(r)'
  BY <1>1, <1>2, <1>3 DEF OwnerFits, EndFits, Over
<1>5. \A v \in accepted' : v.id # r
  BY <1>1, NotYetStored
<1>6. QED
  BY <1>4, <1>5, HandlerLife DEF HandlerStep, PollServiceNext, OwnerStep

\* The server's own steps: a crash only loses handlers, the others touch none.
LEMMA ServerLife ==
    ASSUME TypeInv, LifeInv, Startup \/ Crash \/ RedisFlush \/ UNCHANGED vars
    PROVE  LifeInv'
<1>1. /\ UNCHANGED <<polls, issued, accepted, call, loaded, reply>>
      /\ \A r \in Requests : pc'[r] = pc[r] \/ pc'[r] = "lost"
  BY DEF Startup, Crash, RedisFlush, vars, mongo, process, handlers
<1>2. \A v \in accepted : v.id \in Requests
  BY DEF TypeInv, StoreOK, VoteDoc
<1>3. QED
  BY <1>1, <1>2
  DEF LifeInv, OwnerFits, EndFits, VoteFits, VoteOf, Over, Closed

LEMMA NextLifeInv == TypeInv /\ LifeInv /\ [Next]_vars => LifeInv'
<1> SUFFICES ASSUME TypeInv, LifeInv, [Next]_vars PROVE LifeInv'
  OBVIOUS
<1>1. ASSUME NEW r \in Requests, HandlerStep(r)
      PROVE  LifeInv'
  BY <1>1, CastLoadLife, CastCheckLife, CastInsertLife, CastRestLife, ReadersLife,
     OwnerLoadLife, WriteFieldsLife, ReloadLife, PurgeVotesLife, RemovePollLife
  DEF HandlerStep, VoteServiceNext, CastStep, PollServiceNext, OwnerStep
<1>2. QED
  BY <1>1, ServerLife DEF Next, Idle

LEMMA LifeInvHolds == Spec => [](TypeInv /\ LifeInv)
<1>1. Init => TypeInv /\ LifeInv
  BY InitTypeInv
  DEF Init, StoreInit, HandlersInit, LifeInv, OwnerFits, EndFits
<1>2. TypeInv /\ LifeInv /\ [Next]_vars => (TypeInv /\ LifeInv)'
  BY NextTypeInv, NextLifeInv
<1>3. QED
  BY <1>1, <1>2, PTL DEF Spec

-----------------------------------------------------------------------------
\* A vote refused as unknown, late, invalid or repeated was not stored by its
\* own handler, under every fault of the model and across crashes.
THEOREM RejectedLeavesNoTraceHolds == Spec => []RejectedLeavesNoTrace
<1>1. LifeInv => RejectedLeavesNoTrace
  BY DEF LifeInv, VoteFits, RejectedLeavesNoTrace
<1>2. QED
  BY <1>1, LifeInvHolds, PTL

NothingReopens ==
    \A p \in Polls : /\ Closed(p) => Closed(p)' \/ Gone(p)'
                     /\ Gone(p) => Gone(p)'

\* A closed poll never reopens and a deleted one never comes back, under every
\* fault and for any number of handlers in any order.
THEOREM ClosedStaysClosedHolds == Spec => ClosedStaysClosed
<1>1. TypeInv /\ [Next]_vars => NothingReopens
  BY OverStays DEF NothingReopens
<1>2. QED
  BY <1>1, LifeInvHolds, PTL DEF Spec, ClosedStaysClosed, NothingReopens

DrainedFreezes ==
    \A p \in Polls :
       Drained(p) => /\ Drained(p)'
                     /\ VotesOfPoll(votes', p) \subseteq votes

\* Only a poll that is active when CastLoad reads it admits a vote.
LEMMA AdmissionSteps ==
    ASSUME TypeInv, [Next]_vars, NEW r \in Requests, NEW p \in Polls,
           Admitted(r, p)', ~Admitted(r, p)
    PROVE  pc[r] = "new" /\ p \in issued /\ polls[p] # NoPoll /\ ~Closed(p)
<1>1. PICK q \in Requests : HandlerStep(q)
  <2>1. ~Startup /\ ~RedisFlush /\ ~UNCHANGED vars
    BY DEF Startup, RedisFlush, vars, process, handlers, Admitted
  <2>2. ~Crash
    BY DEF Crash, Admitted, InFlight, Stages, TypeInv, HandlersOK
  <2>3. QED
    BY <2>1, <2>2 DEF Next, Idle
<1>2. q = r /\ call' = call
  BY <1>1, HandlerFrame DEF OnlyHandler, Admitted
<1>3. /\ call[r].kind = "vote" /\ call[r].poll = p
      /\ pc'[r] \in {"check", "insert"} /\ pc[r] \notin {"check", "insert"}
  BY <1>2 DEF Admitted
<1>4. ~CastCheck(r) /\ ~CastInsert(r)
  BY <1>3 DEF CastCheck, CastInsert, At
<1>5. ~CastIncr(r) /\ ~CastRead(r) /\ ~CastPublish(r)
  BY <1>3 DEF CastIncr, CastRead, CastPublish, Goto, Answer, CastNext, TypeInv, HandlersOK
<1>6. ~ResultsLoad(r) /\ ~ResultsRead(r) /\ ~Create(r) /\ ~OwnerLoad(r)
  BY <1>3
  DEF ResultsLoad, ResultsRead, Create, OwnerLoad, OwnerKinds, Starts, At, TypeInv, StageOK
<1>7. ~WriteFields(r) /\ ~Reload(r) /\ ~PurgeVotes(r) /\ ~RemovePoll(r)
  BY <1>3 DEF WriteFields, Reload, PurgeVotes, RemovePoll, At, TypeInv, StageOK
<1>8. CastLoad(r)
  BY <1>1, <1>2, <1>4, <1>5, <1>6, <1>7
  DEF HandlerStep, VoteServiceNext, CastStep, PollServiceNext, OwnerStep
<1>9. pc[r] = "new" /\ polls[p] # NoPoll /\ Accepting(polls[p])
  BY <1>3, <1>8
  DEF CastLoad, Starts, FindByID, Goto, Answer, FailsInternally, TypeInv, HandlersOK
<1>10. QED
  BY <1>9 DEF Accepting, Closed, TypeInv, StoreOK

\* Once a poll is over and its admitted votes are decided, its votes never grow
\* again, under every fault of the model and for any number of handlers.
THEOREM FrozenOnceDrainedHolds == Spec => FrozenOnceDrained
<1>1. TypeInv /\ LifeInv /\ [Next]_vars => DrainedFreezes
  <2> SUFFICES ASSUME TypeInv, LifeInv, [Next]_vars, NEW p \in Polls, Drained(p)
               PROVE  Drained(p)' /\ VotesOfPoll(votes', p) \subseteq votes
    BY DEF DrainedFreezes
  <2>1. Over(p)'
    BY OverStays DEF Drained, Over
  <2>2. \A r \in Requests : ~Admitted(r, p)'
    BY AdmissionSteps DEF Drained
  <2>3. VotesOfPoll(votes', p) \subseteq votes
    <3>1. ASSUME NEW r \in Requests, VoteInserted(r)
          PROVE  VotesOfPoll(votes', p) \subseteq votes
      <4>1. VoteOf(r).poll # p
        BY <3>1 DEF VoteInserted, Drained, Admitted, VoteOf
      <4>2. QED
        BY <3>1, <4>1 DEF VoteInserted, VotesOfPoll
    <3>2. ASSUME NEW r \in Requests, VotesPurged(r)
          PROVE  VotesOfPoll(votes', p) \subseteq votes
      BY <3>2 DEF VotesPurged, VotesOfPoll
    <3>3. QED
      BY <3>1, <3>2, VoteSteps DEF VoteStep, VotesOfPoll
  <2>4. QED
    BY <2>1, <2>2, <2>3 DEF Over, Drained
<1>2. QED
  BY <1>1, LifeInvHolds, PTL DEF Spec, FrozenOnceDrained, DrainedFreezes

MutatedByCreator ==
    \A p \in Polls :
        polls[p] # NoPoll /\ (polls'[p] # polls[p]
                               \/ ~(VotesOfPoll(votes, p) \subseteq votes'))
           => \E r \in Requests : /\ pc'[r] # pc[r]
                                  /\ call[r].kind \in OwnerKinds
                                  /\ call[r].poll = p
                                  /\ call[r].user = polls[p].creator

\* Only its creator's requests change or remove a poll or remove its votes: the
\* check on the copy that was read several calls earlier suffices.
THEOREM OnlyCreatorMutatesHolds == Spec => OnlyCreatorMutates
<1>1. TypeInv /\ LifeInv /\ [Next]_vars => MutatedByCreator
  <2> SUFFICES ASSUME TypeInv, LifeInv, [Next]_vars, NEW p \in Polls, polls[p] # NoPoll,
                      polls'[p] # polls[p] \/ ~(VotesOfPoll(votes, p) \subseteq votes')
               PROVE  \E r \in Requests : /\ pc'[r] # pc[r]
                                          /\ call[r].kind \in OwnerKinds
                                          /\ call[r].poll = p
                                          /\ call[r].user = polls[p].creator
    BY DEF MutatedByCreator
  <2>1. PICK r \in Requests : PollWritten(p, r) \/ PollRemoved(p, r)
                                \/ (VotesPurged(r) /\ call[r].poll = p)
    <3>1. CASE polls'[p] # polls[p]
      BY <3>1, PollSteps DEF PollStep, PollKept, PollOpened
    <3>2. CASE ~(VotesOfPoll(votes, p) \subseteq votes')
      <4>1. PICK v \in votes : v.poll = p /\ v \notin votes'
        BY <3>2 DEF VotesOfPoll
      <4>2. PICK r \in Requests : VotesPurged(r)
        BY <4>1, VoteSteps DEF VoteStep, VoteInserted
      <4>3. call[r].poll = p
        BY <4>1, <4>2 DEF VotesPurged, VotesOfPoll
      <4>4. QED
        BY <4>2, <4>3
    <3>3. QED
      BY <3>1, <3>2
  <2>2. /\ pc[r] \in {"write", "remove", "purge"} /\ pc'[r] # pc[r]
        /\ call[r].kind \in OwnerKinds /\ call[r].poll = p
    BY <2>1 DEF PollWritten, PollRemoved, VotesPurged, OwnerKinds
  <2>3. call[r].user = polls[p].creator
    BY <2>2 DEF LifeInv, OwnerFits
  <2>4. QED
    BY <2>2, <2>3
<1>2. QED
  BY <1>1, LifeInvHolds, PTL DEF Spec, OnlyCreatorMutates, MutatedByCreator

AdmitsBeforeTheEnd ==
    \A r \in Requests :
       pc[r] = "new" /\ pc'[r] = "check"
          => \A q \in Requests : ~SaysOver(q, call[r].poll)

\* No vote request that starts after any client was told that its poll is closed
\* or deleted is admitted, whatever failed or was restarted meanwhile.
THEOREM OverIsOverHolds == Spec => OverIsOver
<1>1. TypeInv /\ LifeInv /\ [Next]_vars => AdmitsBeforeTheEnd
  <2> SUFFICES ASSUME TypeInv, LifeInv, [Next]_vars,
                      NEW r \in Requests, pc[r] = "new", pc'[r] = "check",
                      NEW q \in Requests, SaysOver(q, call[r].poll)
               PROVE  FALSE
    BY DEF AdmitsBeforeTheEnd
  <2>1. call'[r] = call[r]
    <3>1. ASSUME NEW h \in Requests, HandlerStep(h)
          PROVE  call' = call
      BY <3>1, HandlerFrame DEF OnlyHandler
    <3>2. QED
      BY <3>1 DEF Next, Idle, Startup, Crash, RedisFlush, vars, process
  <2>2. call[r].kind = "vote"
    <3>1. TypeInv'
      BY NextTypeInv
    <3>2. QED
      BY <2>1, <3>1 DEF TypeInv, StageOK, CastStages
  <2>3. call[r].poll \in Polls
    BY <2>2, NamedPoll
  <2>4. polls[call[r].poll] # NoPoll /\ ~Closed(call[r].poll)
    <3>1. PICK p \in Polls : p = call[r].poll
      BY <2>3
    <3>2. Admitted(r, p)' /\ ~Admitted(r, p)
      BY <2>1, <2>2, <3>1 DEF Admitted
    <3>3. QED
      BY <3>1, <3>2, AdmissionSteps
  <2>5. EndFits(q) /\ call[q].poll = call[r].poll
    BY DEF LifeInv, SaysOver
  <2>6. CASE call[q].kind = "close"
    BY <2>4, <2>5, <2>6 DEF SaysOver, OverCodes, EndFits, Over
  <2>7. CASE call[q].kind = "delete"
    BY <2>4, <2>5, <2>7 DEF SaysOver, OverCodes, EndFits, Over
  <2>8. CASE call[q].kind = "vote"
    BY <2>4, <2>5, <2>8 DEF SaysOver, OverCodes, EndFits, Over
  <2>9. QED
    BY <2>6, <2>7, <2>8 DEF SaysOver, OverCodes
<1>2. QED
  BY <1>1, LifeInvHolds, PTL DEF Spec, OverIsOver, AdmitsBeforeTheEnd
=============================================================================
