---------------------------- MODULE VoteService ----------------------------
(***************************************************************************)
(* VoteService.Cast and VoteService.GetResults, one action per call the    *)
(* code makes to MongoDB, Redis or Pub/Sub.                                *)
(***************************************************************************)
EXTENDS Handlers

\* Mutants of CastNext: the same calls in another order.
StoreBeforeCheck == [load |-> "insert", insert |-> "check", check |-> "incr",
                     incr |-> "read", read |-> "publish"]
CountBeforeStore == [load |-> "check", check |-> "incr", incr |-> "insert",
                     insert |-> "read", read |-> "publish"]
ReadBeforeCount  == [load |-> "check", check |-> "insert", insert |-> "read",
                     read |-> "incr", incr |-> "publish"]

\* The order of Cast's calls.
CastNext == [load |-> "check", check |-> "insert", insert |-> "incr",
             incr |-> "read", read |-> "publish"]

\* Mutant of Accepting: the status check is missing.
AcceptingAny(doc) == TRUE

\* The test on the status that FindByID returned.
Accepting(doc) == doc.status = "active"

\* The document that Cast inserts.
VoteOf(r) == [id |-> r, poll |-> call[r].poll,
              option |-> call[r].option, token |-> call[r].token]

-----------------------------------------------------------------------------
\* Load the poll and validate the vote against it.
CastLoad(r) ==
    /\ Starts(r, {"vote"})
    /\ LET doc == FindByID(call[r].poll)
           known == doc # NoPoll
       IN \/ ~known /\ Answer(r, "not_found") /\ UNCHANGED loaded
          \/ known /\ ~Accepting(doc)
                /\ Answer(r, "poll_closed") /\ UNCHANGED loaded
          \/ known /\ Accepting(doc) /\ call[r].option \notin doc.options
                /\ Answer(r, "invalid_option") /\ UNCHANGED loaded
          \/ known /\ Accepting(doc) /\ call[r].option \in doc.options
                /\ loaded' = [loaded EXCEPT ![r] = doc]
                /\ Goto(r, CastNext.load)
          \/ FailsInternally(r) /\ UNCHANGED loaded
    /\ UNCHANGED <<mongo, redis, process, counts>>

\* HasVoted.
CastCheck(r) ==
    /\ At(r, "check")
    /\ \/ HasVoted(call[r].poll, call[r].token) /\ Answer(r, "already_voted")
       \/ ~HasVoted(call[r].poll, call[r].token) /\ Goto(r, CastNext.check)
       \/ FailsInternally(r)
    /\ UNCHANGED <<mongo, redis, process, loaded, counts>>

\* voteRepo.Create: every error, a duplicate key included, is answered 500.  An
\* insert that fails has happened by its error, or never happens (a bound: MongoDB
\* may still apply one whose client gave up).
CastInsert(r) ==
    /\ At(r, "insert")
    /\ LET v == VoteOf(r)
           Inserted == votes' = votes \cup {v} /\ accepted' = accepted \cup {v}
       IN \/ ~DuplicateKey(v) /\ Inserted /\ Goto(r, CastNext.insert)
          \/ DuplicateKey(v) /\ Answer(r, "internal")
                /\ UNCHANGED <<votes, accepted>>
          \/ FailsInternally(r) /\ UNCHANGED <<votes, accepted>>
          \/ ~DuplicateKey(v) /\ FailsInternally(r) /\ Inserted
    /\ UNCHANGED <<polls, issued, uniqueIndex, redis, process, loaded, counts>>

\* HIncrBy: an error is only logged.
CastIncr(r) ==
    /\ At(r, "incr")
    /\ \E n \in WriteTimes :
          counters' = [counters EXCEPT ![call[r].poll][call[r].option] = @ + n]
    /\ Goto(r, CastNext.incr)
    /\ UNCHANGED <<mongo, events, process, loaded, counts>>

\* HGetAll, on error the aggregate over the votes, on its error nothing.
CastRead(r) ==
    /\ At(r, "read")
    /\ LET Holds(e) == counts' = [counts EXCEPT ![r] = e]
           p == call[r].poll
           opts == loaded[r].options
       IN \/ Holds(RedisCounts(p, opts))
          \/ "redis" \in Faults /\ Holds(MongoCounts(p, opts))
          \/ {"redis", "mongo"} \subseteq Faults /\ Holds(NoCounts)
    /\ Goto(r, CastNext.read)
    /\ UNCHANGED <<mongo, redis, process, loaded>>

\* Publish, whose error is only logged, and the 201 with the same event.
CastPublish(r) ==
    /\ At(r, "publish")
    /\ \E n \in WriteTimes : Publish(call[r].poll, counts[r], n)
    /\ Answer(r, "ok")
    /\ UNCHANGED <<mongo, counters, process, loaded, counts>>

-----------------------------------------------------------------------------
\* GetResults: load the poll, then read the counts.
ResultsLoad(r) ==
    /\ Starts(r, {"results"})
    /\ LET doc == FindByID(call[r].poll)
       IN \/ doc = NoPoll /\ Answer(r, "not_found") /\ UNCHANGED loaded
          \/ doc # NoPoll /\ Goto(r, "tally")
                /\ loaded' = [loaded EXCEPT ![r] = doc]
          \/ FailsInternally(r) /\ UNCHANGED loaded
    /\ UNCHANGED <<mongo, redis, process, counts>>

ResultsRead(r) ==
    /\ At(r, "tally")
    /\ LET Returns(e) == counts' = [counts EXCEPT ![r] = e] /\ Answer(r, "ok")
           p == call[r].poll
           opts == loaded[r].options
       IN \/ Returns(RedisCounts(p, opts))
          \/ "redis" \in Faults /\ Returns(MongoCounts(p, opts))
          \/ "redis" \in Faults /\ FailsInternally(r) /\ UNCHANGED counts
    /\ UNCHANGED <<mongo, redis, process, loaded>>

CastStep(r) == CastCheck(r) \/ CastInsert(r) \/ CastIncr(r)
                 \/ CastRead(r) \/ CastPublish(r)

VoteServiceNext(r) == CastLoad(r) \/ CastStep(r)
                        \/ ResultsLoad(r) \/ ResultsRead(r)
=============================================================================
