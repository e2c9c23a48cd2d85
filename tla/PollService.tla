---------------------------- MODULE PollService ----------------------------
(***************************************************************************)
(* PollService.Create, Update, Close and Delete: a load with an ownership  *)
(* check, then the writes, one action per MongoDB call.                    *)
(***************************************************************************)
EXTENDS Handlers

\* Create validates the options before it writes.
ValidOptions(opts) == Cardinality(opts) \in 2 .. 10

NewPoll(c) == [creator |-> c.user, title |-> c.title,
               options |-> c.options, status |-> "active"]

\* NewObjectID never repeats an identifier, not even a deleted poll's.
Create(r) ==
    /\ Starts(r, {"create"})
    /\ LET Stored == \E p \in Polls \ issued :
                        /\ polls' = [polls EXCEPT ![p] = NewPoll(call[r])]
                        /\ issued' = issued \cup {p}
       IN \/ ~ValidOptions(call[r].options) /\ Answer(r, "invalid_options")
                /\ UNCHANGED <<polls, issued>>
          \/ ValidOptions(call[r].options) /\ Stored /\ Answer(r, "ok")
          \/ ValidOptions(call[r].options) /\ Stored /\ FailsInternally(r)
          \/ ValidOptions(call[r].options) /\ FailsInternally(r)
                /\ UNCHANGED <<polls, issued>>
    /\ UNCHANGED <<votes, uniqueIndex, accepted, redis, process, loaded, counts>>

-----------------------------------------------------------------------------
\* Mutant of OwnedBy: the ownership check is missing.
OwnedByAny(doc, user) == TRUE

\* The check `poll.CreatorID.Hex() != userID`.
OwnedBy(doc, user) == doc.creator = user

FirstWrite == [update |-> "write", close |-> "write", delete |-> "purge"]

\* The load that Update, Close and Delete begin with.
OwnerLoad(r) ==
    /\ Starts(r, OwnerKinds)
    /\ LET doc == FindByID(call[r].poll)
           known == doc # NoPoll
       IN \/ ~known /\ Answer(r, "not_found") /\ UNCHANGED loaded
          \/ known /\ ~OwnedBy(doc, call[r].user)
                /\ Answer(r, "forbidden") /\ UNCHANGED loaded
          \/ known /\ OwnedBy(doc, call[r].user)
                /\ loaded' = [loaded EXCEPT ![r] = doc]
                /\ Goto(r, FirstWrite[call[r].kind])
          \/ FailsInternally(r) /\ UNCHANGED loaded
    /\ UNCHANGED <<mongo, redis, process, counts>>

\* Mutant of SetFields: the loaded document is written back as a whole.
ReplaceDocument(r, doc) ==
    IF call[r].kind = "close" THEN [loaded[r] EXCEPT !.status = "closed"]
    ELSE [loaded[r] EXCEPT !.title = IF call[r].title = NoTitle THEN @
                                                 ELSE call[r].title]

\* The $set of Update (a given title only) and of Close, over document doc.
SetFields(r, doc) ==
    CASE call[r].kind = "close"  -> [doc EXCEPT !.status = "closed"]
      [] call[r].kind = "update" ->
            [doc EXCEPT !.title = IF call[r].title = NoTitle THEN @
                                                   ELSE call[r].title]

WriteFields(r) ==
    /\ At(r, "write")
    /\ LET p == call[r].poll
           Written == polls' = UpdateOne(p, SetFields(r, polls[p]))
       IN \/ Written /\ Goto(r, "reload")
          \/ Written /\ FailsInternally(r)
          \/ UNCHANGED polls /\ FailsInternally(r)
    /\ UNCHANGED <<issued, votes, uniqueIndex, accepted,
                   redis, process, loaded, counts>>

\* The FindByID whose result is the answer; a missing poll is a 200 with null.
Reload(r) ==
    /\ At(r, "reload")
    /\ LET doc == FindByID(call[r].poll)
       IN \/ loaded' = [loaded EXCEPT ![r] = doc]
                /\ Answer(r, IF doc = NoPoll THEN "null_poll" ELSE "ok")
          \/ FailsInternally(r) /\ UNCHANGED loaded
    /\ UNCHANGED <<mongo, redis, process, counts>>

-----------------------------------------------------------------------------
\* DeleteByPollID: an error is only logged, so some votes may stay.
PurgeVotes(r) ==
    /\ At(r, "purge")
    /\ LET doomed == VotesOfPoll(votes, call[r].poll)
       IN \/ votes' = votes \ doomed
          \/ "mongo" \in Faults /\ \E S \in SUBSET doomed : votes' = votes \ S
    /\ Goto(r, "remove")
    /\ UNCHANGED <<polls, issued, uniqueIndex, accepted,
                   redis, process, loaded, counts>>

\* pollRepo.Delete; the Redis hash stays.
RemovePoll(r) ==
    /\ At(r, "remove")
    /\ LET Removed == polls' = [polls EXCEPT ![call[r].poll] = NoPoll]
       IN \/ Removed /\ Answer(r, "ok")
          \/ Removed /\ FailsInternally(r)
          \/ UNCHANGED polls /\ FailsInternally(r)
    /\ UNCHANGED <<issued, votes, uniqueIndex, accepted,
                   redis, process, loaded, counts>>

OwnerStep(r) == WriteFields(r) \/ Reload(r) \/ PurgeVotes(r) \/ RemovePoll(r)

PollServiceNext(r) == Create(r) \/ OwnerLoad(r) \/ OwnerStep(r)
=============================================================================
