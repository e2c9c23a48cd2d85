---------------------------- MODULE LedgerProofs ----------------------------
(***************************************************************************)
(* The backend implements VoteLedger: every step of a handler, and every   *)
(* fault but a failed index creation, is a step of the ledger or none.     *)
(***************************************************************************)
EXTENDS PollProofs

\* The same argument for the phases, the requests to delete and the ballots:
\* each is a function of few of the backend's variables.
LEMMA PhaseKept ==
    ASSUME \A p \in Polls : PollKept(p)
    PROVE  LedgerPhase' = LedgerPhase
BY DEF PollKept, LedgerPhase

LEMMA AskedForKept ==
    ASSUME UNCHANGED call,
           \A r \in Requests : call[r].kind = "delete" => loaded'[r] = loaded[r]
    PROVE  AskedFor' = AskedFor
BY DEF AskedFor, MayDelete

LEMMA UndecidedKept ==
    ASSUME UNCHANGED call, \A r \in Requests : Undecided(r)' <=> Undecided(r)
    PROVE  UndecidedVotes' = UndecidedVotes
BY DEF UndecidedVotes, VoteOf

\* Two requests never cast the same vote document.
LEMMA VoteOfInjective ==
    ASSUME NEW r \in Requests, NEW q \in Requests, VoteOf(r) = VoteOf(q)
    PROVE  r = q
BY DEF VoteOf

LEMMA UndecidedJoins ==
    ASSUME UNCHANGED call, NEW r \in Requests, Undecided(r)',
           \A q \in Requests \ {r} : Undecided(q)' <=> Undecided(q)
    PROVE  UndecidedVotes' = UndecidedVotes \cup {VoteOf(r)}
BY DEF UndecidedVotes, VoteOf

LEMMA UndecidedLeaves ==
    ASSUME UNCHANGED call, NEW r \in Requests, ~Undecided(r)',
           \A q \in Requests \ {r} : Undecided(q)' <=> Undecided(q)
    PROVE  UndecidedVotes' = UndecidedVotes \ {VoteOf(r)}
<1>1. ASSUME NEW v \in UndecidedVotes', v \in UndecidedVotes => v = VoteOf(r)
      PROVE  FALSE
  <2>1. PICK q \in Requests : Undecided(q)' /\ v = VoteOf(q)
    BY DEF UndecidedVotes, VoteOf
  <2>2. q # r /\ v \in UndecidedVotes
    BY <2>1 DEF UndecidedVotes
  <2>3. QED
    BY <1>1, <2>1, <2>2, VoteOfInjective
<1>2. ASSUME NEW v \in UndecidedVotes, v # VoteOf(r)
      PROVE  v \in UndecidedVotes'
  BY <1>2 DEF UndecidedVotes, VoteOf
<1>3. QED
  BY <1>1, <1>2

LedgerStutters ==
    UNCHANGED <<LedgerPhase, AskedFor, UndecidedVotes, votes>>

LedgerStep == Ledger!Next \/ LedgerStutters

-----------------------------------------------------------------------------
\* One handler's step.
LEMMA OthersUndecided ==
    ASSUME NEW r \in Requests, OnlyHandler(r)
    PROVE  \A q \in Requests \ {r} : Undecided(q)' <=> Undecided(q)
BY DEF OnlyHandler, Undecided

LEMMA CastLoadLedger ==
    ASSUME TypeInv, LifeInv, NEW r \in Requests, CastLoad(r)
    PROVE  LedgerStep
<1>1. /\ call[r].kind = "vote" /\ pc[r] = "new" /\ call[r].poll \in Polls
      /\ votes' = votes /\ polls' = polls /\ issued' = issued /\ call' = call
  BY NamedPoll DEF CastLoad, Starts, mongo, process
<1>2. OnlyHandler(r)
  BY HandlerFrame DEF HandlerStep, VoteServiceNext
<1>3. LedgerPhase' = LedgerPhase /\ AskedFor' = AskedFor
  BY <1>1, <1>2, AskedForKept DEF LedgerPhase, OnlyHandler
<1>4. CASE Undecided(r)'
  <2>1. UndecidedVotes' = UndecidedVotes \cup {VoteOf(r)}
    BY <1>1, <1>2, <1>4, OthersUndecided, UndecidedJoins
  <2>2. VoteOf(r) \in VoteDoc /\ VoteOf(r).poll = call[r].poll /\ VoteOf(r).id = r
    BY <1>1, VoteOfType DEF TypeInv
  <2>3. LedgerPhase[call[r].poll] = "open"
    <3>1. polls[call[r].poll] # NoPoll /\ Accepting(polls[call[r].poll])
      BY <1>4
      DEF CastLoad, Undecided, FindByID, Answer, FailsInternally, TypeInv, HandlersOK
    <3>2. QED
      BY <1>1, <3>1 DEF LedgerPhase, Accepting
  <2>4. VoteOf(r) \notin votes
    BY <1>1, <2>2, NotYetStored DEF TypeInv, StoreOK
  <2>5. Ledger!Admit(VoteOf(r))
    BY <1>1, <1>3, <2>1, <2>2, <2>3, <2>4 DEF Ledger!Admit
  <2>6. QED
    BY <2>2, <2>5 DEF LedgerStep, Ledger!Next
<1>5. CASE ~Undecided(r)'
  <2>1. UndecidedVotes' = UndecidedVotes
    BY <1>1, <1>2, <1>5, OthersUndecided, UndecidedKept DEF Undecided
  <2>2. QED
    BY <1>1, <1>3, <2>1 DEF LedgerStep, LedgerStutters
<1>6. QED
  BY <1>4, <1>5

\* A ballot is turned away: a repeated vote, a duplicate key or a failure.
LEMMA TurnedAway ==
    ASSUME NEW r \in Requests, Undecided(r), UNCHANGED <<LedgerPhase, AskedFor, votes>>,
           UndecidedVotes' = UndecidedVotes \ {VoteOf(r)}
    PROVE  LedgerStep
<1>1. {VoteOf(r)} \in SUBSET UndecidedVotes
  BY DEF UndecidedVotes
<1>2. Ledger!TurnAway({VoteOf(r)})
  BY DEF Ledger!TurnAway
<1>3. QED
  BY <1>1, <1>2 DEF LedgerStep, Ledger!Next

LEMMA CastCheckLedger ==
    ASSUME TypeInv, LifeInv, NEW r \in Requests, CastCheck(r)
    PROVE  LedgerStep
<1>1. /\ Undecided(r)
      /\ votes' = votes /\ polls' = polls /\ issued' = issued /\ call' = call
      /\ loaded' = loaded
  BY DEF TypeInv, StageOK, CastStages, CastCheck, At, Undecided, mongo, process
<1>2. OnlyHandler(r)
  BY HandlerFrame DEF HandlerStep, VoteServiceNext, CastStep
<1>3. LedgerPhase' = LedgerPhase /\ AskedFor' = AskedFor
  BY <1>1, AskedForKept DEF LedgerPhase
<1>4. CASE Undecided(r)'
  <2>1. UndecidedVotes' = UndecidedVotes
    BY <1>1, <1>2, <1>4, OthersUndecided, UndecidedKept
  <2>2. QED
    BY <1>1, <1>3, <2>1 DEF LedgerStep, LedgerStutters
<1>5. CASE ~Undecided(r)'
  <2>1. UndecidedVotes' = UndecidedVotes \ {VoteOf(r)}
    BY <1>1, <1>2, <1>5, OthersUndecided, UndecidedLeaves
  <2>2. QED
    BY <1>1, <1>3, <2>1, TurnedAway
<1>6. QED
  BY <1>4, <1>5

\* The insert: the index, which exists while the server runs, refuses what the
\* ledger refuses.
LEMMA CastInsertLedger ==
    ASSUME TypeInv, LifeInv, IndexInv, NEW r \in Requests, CastInsert(r)
    PROVE  LedgerStep
<1>1. /\ Undecided(r) /\ call[r].kind = "vote" /\ up
      /\ polls' = polls /\ issued' = issued /\ call' = call /\ loaded' = loaded
  BY DEF TypeInv, StageOK, CastStages, CastInsert, At, Undecided, process
<1>2. OnlyHandler(r) /\ ~Undecided(r)'
  BY HandlerFrame
  DEF HandlerStep, VoteServiceNext, CastStep, CastInsert, Goto, Answer, FailsInternally,
      CastNext, Undecided, TypeInv, HandlersOK
<1>3. LedgerPhase' = LedgerPhase /\ AskedFor' = AskedFor
  BY <1>1, AskedForKept DEF LedgerPhase
<1>4. UndecidedVotes' = UndecidedVotes \ {VoteOf(r)}
  BY <1>1, <1>2, OthersUndecided, UndecidedLeaves
<1>5. CASE votes' = votes
  BY <1>1, <1>3, <1>4, <1>5, TurnedAway
<1>6. CASE ~DuplicateKey(VoteOf(r)) /\ votes' = votes \cup {VoteOf(r)}
  <2>1. VoteOf(r) \in UndecidedVotes /\ VoteOf(r) \in VoteDoc
    BY <1>1, VoteOfType DEF UndecidedVotes, TypeInv
  <2>2. \A c \in votes : ~(c.poll = VoteOf(r).poll /\ c.token = VoteOf(r).token)
    BY <1>1, <1>6 DEF IndexInv, DuplicateKey, HasVoted
  <2>3. Ledger!Record(VoteOf(r))
    BY <1>3, <1>4, <1>6, <2>1, <2>2 DEF Ledger!Record
  <2>4. QED
    BY <2>1, <2>3 DEF LedgerStep, Ledger!Next
<1>7. QED
  BY <1>5, <1>6 DEF CastInsert

\* HINCRBY, the reads and the publication are invisible to the ledger.
LEMMA QuietLedger ==
    ASSUME TypeInv, NEW r \in Requests,
           \/ CastIncr(r) \/ CastRead(r) \/ CastPublish(r)
           \/ ResultsLoad(r) \/ ResultsRead(r) \/ Reload(r)
    PROVE  LedgerStutters
<1>1. /\ call[r].kind \in {"vote", "results", "update", "close"}
      /\ votes' = votes /\ polls' = polls /\ issued' = issued /\ call' = call
  BY DEF TypeInv, StageOK, CastStages, CastIncr, CastRead, CastPublish, ResultsLoad,
         ResultsRead, Reload, Starts, At, mongo, process
<1>2. OnlyHandler(r)
  BY HandlerFrame
  DEF HandlerStep, VoteServiceNext, CastStep, PollServiceNext, OwnerStep
<1>3. ~Undecided(r) /\ ~Undecided(r)'
  <2>1. CASE CastIncr(r) \/ CastRead(r) \/ CastPublish(r)
    BY <2>1
    DEF CastIncr, CastRead, CastPublish, At, Goto, Answer, CastNext, Undecided, TypeInv,
        HandlersOK
  <2>2. CASE ResultsLoad(r) \/ ResultsRead(r) \/ Reload(r)
    BY <1>1, <2>2
    DEF TypeInv, StageOK, ResultsLoad, ResultsRead, Reload, Starts, At, Undecided
  <2>3. QED
    BY <2>1, <2>2
<1>4. LedgerPhase' = LedgerPhase
  BY <1>1 DEF LedgerPhase
<1>5. AskedFor' = AskedFor
  BY <1>1, <1>2, AskedForKept DEF OnlyHandler
<1>6. UndecidedVotes' = UndecidedVotes
  BY <1>1, <1>2, <1>3, OthersUndecided, UndecidedKept
<1>7. QED
  BY <1>1, <1>4, <1>5, <1>6 DEF LedgerStutters

\* The handlers of the poll service never cast.
LEMMA PollServiceUndecided ==
    ASSUME TypeInv, NEW r \in Requests, PollServiceNext(r)
    PROVE  UndecidedVotes' = UndecidedVotes /\ call' = call /\ OnlyHandler(r)
<1>1. OnlyHandler(r) /\ call' = call
  BY HandlerFrame DEF HandlerStep, OnlyHandler
<1>2. call[r].kind # "vote"
  BY DEF PollServiceNext, OwnerStep, Create, OwnerLoad, WriteFields, Reload, PurgeVotes,
         RemovePoll, Starts, At, TypeInv, StageOK, OwnerKinds
<1>3. \A q \in Requests : Undecided(q)' <=> Undecided(q)
  BY <1>1, <1>2, OthersUndecided DEF Undecided
<1>4. QED
  BY <1>1, <1>3, UndecidedKept

LEMMA CreateLedger ==
    ASSUME TypeInv, NEW r \in Requests, Create(r)
    PROVE  LedgerStep
<1>1. UndecidedVotes' = UndecidedVotes /\ call' = call
  BY PollServiceUndecided DEF PollServiceNext
<1>2. votes' = votes /\ loaded' = loaded /\ call[r] \in CreateCalls
  BY CallFields DEF Create, Starts, TypeInv, HandlersOK
<1>3. AskedFor' = AskedFor
  BY <1>1, <1>2, AskedForKept
<1>4. CASE UNCHANGED <<polls, issued>>
  BY <1>1, <1>2, <1>3, <1>4 DEF LedgerStep, LedgerStutters, LedgerPhase
<1>5. ASSUME NEW p \in Polls \ issued,
             polls' = [polls EXCEPT ![p] = NewPoll(call[r])],
             issued' = issued \cup {p}
      PROVE  LedgerStep
  <2>1. NewPoll(call[r]).status = "active" /\ NewPoll(call[r]) # NoPoll
    BY <1>2, StoreAssumption DEF NewPoll, PollDoc, CreateCalls, StoreAssumption
  <2>2. LedgerPhase[p] = "none"
    BY DEF LedgerPhase, TypeInv, StoreOK
  <2>3. LedgerPhase' = [LedgerPhase EXCEPT ![p] = "open"]
    BY <1>5, <2>1 DEF LedgerPhase, TypeInv, StoreOK
  <2>4. Ledger!Open(p)
    BY <1>1, <1>2, <1>3, <2>2, <2>3 DEF Ledger!Open, Ledger!Turns
  <2>5. QED
    BY <2>4 DEF LedgerStep, Ledger!Next
<1>6. QED
  BY <1>4, <1>5 DEF Create

LEMMA OwnerLoadLedger ==
    ASSUME TypeInv, NEW r \in Requests, OwnerLoad(r)
    PROVE  LedgerStep
<1> DEFINE p == call[r].poll
<1>1. UndecidedVotes' = UndecidedVotes /\ call' = call /\ OnlyHandler(r)
  BY PollServiceUndecided DEF PollServiceNext
<1>2. /\ votes' = votes /\ polls' = polls /\ issued' = issued
      /\ call[r].kind \in OwnerKinds /\ p \in Polls
  BY NamedPoll DEF OwnerLoad, Starts, mongo
<1>3. LedgerPhase' = LedgerPhase
  BY <1>2 DEF LedgerPhase
<1>4. CASE call[r].kind # "delete" \/ loaded' = loaded
  <2>1. AskedFor' = AskedFor
    BY <1>1, <1>4, AskedForKept DEF OnlyHandler
  <2>2. QED
    BY <1>1, <1>2, <1>3, <2>1 DEF LedgerStep, LedgerStutters
<1>5. CASE /\ call[r].kind = "delete" /\ polls[p] # NoPoll
           /\ polls[p].creator = call[r].user
           /\ loaded' = [loaded EXCEPT ![r] = polls[p]]
  <2>1. loaded'[r] = polls[p] /\ \A q \in Requests \ {r} : loaded'[q] = loaded[q]
    BY <1>5 DEF TypeInv, HandlersOK
  <2>2. MayDelete(r)'
    BY <1>1, <1>5, <2>1 DEF MayDelete
  <2>3. AskedFor' = AskedFor \cup {p}
    BY <1>1, <1>2, <2>1, <2>2 DEF AskedFor, MayDelete
  <2>4. LedgerPhase[p] \in {"open", "closed"}
    BY <1>2, <1>5 DEF LedgerPhase
  <2>5. Ledger!Doom(p)
    BY <1>1, <1>2, <1>3, <2>3, <2>4 DEF Ledger!Doom
  <2>6. QED
    BY <1>2, <2>5 DEF LedgerStep, Ledger!Next
<1>6. QED
  BY <1>4, <1>5 DEF OwnerLoad, OwnedBy, FindByID

LEMMA WriteFieldsLedger ==
    ASSUME TypeInv, NEW r \in Requests, WriteFields(r)
    PROVE  LedgerStep
<1> DEFINE p == call[r].poll
<1>1. UndecidedVotes' = UndecidedVotes /\ call' = call
  BY PollServiceUndecided DEF PollServiceNext, OwnerStep
<1>2. /\ votes' = votes /\ issued' = issued /\ loaded' = loaded
      /\ call[r].kind \in {"update", "close"} /\ p \in Polls
  BY NamedPoll DEF WriteFields, At, OwnerKinds, TypeInv, StageOK
<1>3. AskedFor' = AskedFor
  BY <1>1, <1>2, AskedForKept
<1>4. CASE polls' = polls
  BY <1>1, <1>2, <1>3, <1>4 DEF LedgerStep, LedgerStutters, LedgerPhase
<1>5. CASE polls[p] # NoPoll /\ polls' = [polls EXCEPT ![p] = SetFields(r, polls[p])]
  <2>1. polls[p] \in PollDoc
    BY <1>2, <1>5 DEF TypeInv, StoreOK
  <2>2. /\ SetFields(r, polls[p]).status = IF call[r].kind = "close" THEN "closed"
                                           ELSE polls[p].status
        /\ SetFields(r, polls[p]) \in PollDoc
    BY <1>2, <2>1, SetFieldsType DEF SetFields, PollDoc, TypeInv
  <2>3. SetFields(r, polls[p]) # NoPoll
    BY <2>2, StoreAssumption DEF StoreAssumption
  <2>4. CASE call[r].kind = "close" /\ polls[p].status = "active"
    <3>1. LedgerPhase[p] = "open" /\ LedgerPhase' = [LedgerPhase EXCEPT ![p] = "closed"]
      BY <1>2, <1>5, <2>2, <2>3, <2>4 DEF LedgerPhase, TypeInv, StoreOK
    <3>2. Ledger!Close(p)
      BY <1>1, <1>2, <1>3, <3>1 DEF Ledger!Close, Ledger!Turns
    <3>3. QED
      BY <1>2, <3>2 DEF LedgerStep, Ledger!Next
  <2>5. CASE ~(call[r].kind = "close" /\ polls[p].status = "active")
    <3>1. SetFields(r, polls[p]).status = polls[p].status
      BY <2>1, <2>2, <2>5 DEF PollDoc
    <3>2. LedgerPhase' = LedgerPhase
      BY <1>2, <1>5, <2>3, <3>1 DEF LedgerPhase, TypeInv, StoreOK
    <3>3. QED
      BY <1>1, <1>2, <1>3, <3>2 DEF LedgerStep, LedgerStutters
  <2>6. QED
    BY <2>4, <2>5
<1>6. QED
  BY <1>4, <1>5 DEF WriteFields, UpdateOne

\* A delete that has come to its writes asked for the deletion.
LEMMA DeleterAsked ==
    ASSUME TypeInv, LifeInv, NEW r \in Requests, call[r].kind = "delete",
           pc[r] \in {"purge", "remove"}
    PROVE  call[r].poll \in AskedFor
<1>1. loaded[r] \in PollDoc /\ loaded[r].creator = call[r].user
  BY DEF LifeInv, OwnerFits
<1>2. call[r].poll \in Polls
  BY NamedPoll DEF OwnerKinds
<1>3. QED
  BY <1>1, <1>2, StoreAssumption DEF AskedFor, MayDelete, StoreAssumption

LEMMA PurgeVotesLedger ==
    ASSUME TypeInv, LifeInv, NEW r \in Requests, PurgeVotes(r)
    PROVE  LedgerStep
<1> DEFINE p == call[r].poll
           S == votes \ votes'
<1>1. UndecidedVotes' = UndecidedVotes /\ call' = call
  BY PollServiceUndecided DEF PollServiceNext, OwnerStep
<1>2. /\ polls' = polls /\ issued' = issued /\ loaded' = loaded
      /\ call[r].kind = "delete" /\ pc[r] = "purge" /\ p \in Polls
  BY NamedPoll DEF PurgeVotes, At, OwnerKinds, TypeInv, StageOK
<1>3. AskedFor' = AskedFor /\ LedgerPhase' = LedgerPhase
  BY <1>1, <1>2, AskedForKept DEF LedgerPhase
<1>4. votes' = votes \ S /\ S \in SUBSET Ledger!OfPoll(votes, p)
  BY DEF PurgeVotes, VotesOfPoll, Ledger!OfPoll
<1>5. p \in AskedFor
  BY <1>2, DeleterAsked
<1>6. Ledger!Discard(S, p)
  BY <1>1, <1>3, <1>4, <1>5 DEF Ledger!Discard
<1>7. QED
  BY <1>2, <1>4, <1>6 DEF LedgerStep, Ledger!Next

LEMMA RemovePollLedger ==
    ASSUME TypeInv, LifeInv, NEW r \in Requests, RemovePoll(r)
    PROVE  LedgerStep
<1> DEFINE p == call[r].poll
<1>1. UndecidedVotes' = UndecidedVotes /\ call' = call
  BY PollServiceUndecided DEF PollServiceNext, OwnerStep
<1>2. /\ votes' = votes /\ issued' = issued /\ loaded' = loaded
      /\ call[r].kind = "delete" /\ pc[r] = "remove" /\ p \in Polls
  BY NamedPoll DEF RemovePoll, At, OwnerKinds, TypeInv, StageOK
<1>3. AskedFor' = AskedFor
  BY <1>1, <1>2, AskedForKept
<1>4. CASE polls' = polls
  BY <1>1, <1>2, <1>3, <1>4 DEF LedgerStep, LedgerStutters, LedgerPhase
<1>5. CASE polls' = [polls EXCEPT ![p] = NoPoll] /\ polls[p] # NoPoll
  <2>1. LedgerPhase[p] \in {"open", "closed"}
    BY <1>2, <1>5 DEF LedgerPhase
  <2>2. LedgerPhase' = [LedgerPhase EXCEPT ![p] = "gone"]
    BY <1>2, <1>5 DEF LedgerPhase, TypeInv, StoreOK
  <2>3. p \in AskedFor
    BY <1>2, DeleterAsked
  <2>4. Ledger!Remove(p)
    BY <1>1, <1>2, <1>3, <2>1, <2>2, <2>3 DEF Ledger!Remove, Ledger!Turns
  <2>5. QED
    BY <1>2, <2>4 DEF LedgerStep, Ledger!Next
<1>6. CASE polls' = [polls EXCEPT ![p] = NoPoll] /\ polls[p] = NoPoll
  BY <1>2, <1>4, <1>6 DEF TypeInv, StoreOK
<1>7. QED
  BY <1>4, <1>5, <1>6 DEF RemovePoll

-----------------------------------------------------------------------------
\* A crash turns away every ballot whose handler it stops.
LEMMA ServerLedger ==
    ASSUME TypeInv, Startup \/ Crash \/ RedisFlush \/ UNCHANGED vars
    PROVE  LedgerStep
<1>1. UNCHANGED <<polls, issued, votes, call, loaded>>
  BY DEF Startup, Crash, RedisFlush, vars, mongo, process, handlers
<1>2. LedgerPhase' = LedgerPhase /\ AskedFor' = AskedFor
  BY <1>1, AskedForKept DEF LedgerPhase
<1>3. CASE Crash
  <2>1. \A r \in Requests : ~Undecided(r)'
    BY <1>3 DEF Crash, Undecided, InFlight, Stages
  <2>2. UndecidedVotes' = UndecidedVotes \ UndecidedVotes
    BY <2>1 DEF UndecidedVotes
  <2>3. Ledger!TurnAway(UndecidedVotes)
    BY <1>1, <1>2, <2>2 DEF Ledger!TurnAway
  <2>4. QED
    BY <2>3 DEF LedgerStep, Ledger!Next
<1>4. CASE Startup \/ RedisFlush \/ UNCHANGED vars
  <2>1. pc' = pc
    BY <1>4 DEF Startup, RedisFlush, vars, handlers
  <2>2. UndecidedVotes' = UndecidedVotes
    BY <1>1, <2>1, UndecidedKept DEF Undecided
  <2>3. QED
    BY <1>1, <1>2, <2>2 DEF LedgerStep, LedgerStutters
<1>5. QED
  BY <1>3, <1>4

LEMMA NextLedger ==
    TypeInv /\ LifeInv /\ IndexInv /\ [Next]_vars => [Ledger!Next]_(Ledger!vars)
<1> SUFFICES ASSUME TypeInv, LifeInv, IndexInv, [Next]_vars PROVE LedgerStep
  BY DEF LedgerStep, LedgerStutters, Ledger!vars
<1>1. ASSUME NEW r \in Requests, VoteServiceNext(r)
      PROVE  LedgerStep
  BY <1>1, CastLoadLedger, CastCheckLedger, CastInsertLedger, QuietLedger
  DEF VoteServiceNext, CastStep, LedgerStep
<1>2. ASSUME NEW r \in Requests, PollServiceNext(r)
      PROVE  LedgerStep
  BY <1>2, CreateLedger, OwnerLoadLedger, WriteFieldsLedger, QuietLedger,
     PurgeVotesLedger, RemovePollLedger
  DEF PollServiceNext, OwnerStep, LedgerStep
<1>3. QED
  BY <1>1, <1>2, ServerLedger DEF Next, HandlerStep, Idle

LEMMA InitLedger == Init => Ledger!Init
<1> SUFFICES ASSUME Init PROVE Ledger!Init
  OBVIOUS
<1> USE DEF Init, StoreInit, HandlersInit
<1>1. LedgerPhase \in [Polls -> {"none", "open", "closed"}]
  BY DEF LedgerPhase
<1>2. AskedFor = {} /\ UndecidedVotes = {}
  BY DEF AskedFor, MayDelete, UndecidedVotes, Undecided
<1>3. QED
  BY <1>1, <1>2 DEF Ledger!Init

\* The backend implements the ledger for all sets of polls, users and requests
\* and under all faults of the model but a failed index creation: a vote is admitted only
\* while its poll is open, at most one is recorded per token, none is lost before
\* the creator asks for the deletion, and a poll lives once.
THEOREM BackendImplementsLedger ==
    ASSUME "index" \notin Faults
    PROVE  Spec => LedgerSpec
<1>1. Init => TypeInv /\ IndexInv
  BY InitTypeInv DEF Init, StoreInit, HandlersInit, IndexInv, IndexBuildable
<1>2. TypeInv /\ IndexInv /\ [Next]_vars => (TypeInv /\ IndexInv)'
  BY NextTypeInv, NextIndexInv
<1>3. Init => Ledger!Init
  BY InitLedger
<1>4. TypeInv /\ LifeInv /\ IndexInv /\ [Next]_vars => [Ledger!Next]_(Ledger!vars)
  BY NextLedger
<1>5. QED
  BY <1>1, <1>2, <1>3, <1>4, LifeInvHolds, PTL DEF Spec, LedgerSpec, Ledger!Spec
=============================================================================
