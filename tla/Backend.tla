------------------------------ MODULE Backend ------------------------------
(***************************************************************************)
(* The backend process: the handlers of both services over the shared      *)
(* stores, with startup, crashes and the loss of Redis data.               *)
(***************************************************************************)
EXTENDS VoteService, PollService

vars == <<mongo, redis, process, handlers>>

Init == StoreInit /\ HandlersInit

\* main: the repositories create their indexes; the counters stay as they are.
Startup ==
    /\ ~up
    /\ up' = TRUE
    /\ CreateIndexes
    /\ UNCHANGED <<polls, issued, votes, accepted, redis, call, handlers>>

\* A crash, or a shutdown whose five seconds of grace are over.
Crash ==
    /\ "crash" \in Faults
    /\ up
    /\ up' = FALSE
    /\ pc' = [r \in Requests |-> IF InFlight(r) THEN "lost" ELSE pc[r]]
    /\ UNCHANGED <<mongo, redis, call, loaded, counts, reply>>

\* The Redis data directory is lost.
RedisFlush ==
    /\ "flush" \in Faults
    /\ counters' = [p \in Polls |-> [o \in Options |-> 0]]
    /\ UNCHANGED <<mongo, events, process, handlers>>

Answered(r) == pc[r] \in {"done", "lost"}

\* The server idles once all requests of the instance are served.
Idle == up /\ (\A r \in Requests : Answered(r)) /\ UNCHANGED vars

HandlerStep(r) == VoteServiceNext(r) \/ PollServiceNext(r)

Next ==
    \/ \E r \in Requests : HandlerStep(r)
    \/ Startup
    \/ Crash
    \/ RedisFlush
    \/ Idle

Spec == Init /\ [][Next]_vars

-----------------------------------------------------------------------------
\* The states of the model are the ones its comments describe.
CountMap(e) == \E S \in SUBSET Options : e \in [S -> Nat]

TypeOK ==
    /\ polls \in [Polls -> PollDoc \cup {NoPoll}]
    /\ issued \subseteq Polls
    /\ \A p \in Polls : polls[p] # NoPoll => p \in issued
    /\ accepted \subseteq VoteDoc
    /\ votes \subseteq accepted
    /\ uniqueIndex \in BOOLEAN
    /\ counters \in [Polls -> [Options -> Nat]]
    /\ DOMAIN events = Polls
    /\ \A p \in Polls : \A i \in DOMAIN events[p] : CountMap(events[p][i])
    /\ up \in BOOLEAN
    /\ call \in [Requests -> Calls]
    /\ pc \in [Requests -> {"new", "done", "lost"} \cup Stages]
    /\ loaded \in [Requests -> PollDoc \cup {NoPoll}]
    /\ \A r \in Requests : CountMap(counts[r])
    /\ \A r \in Requests :
          reply[r] \in IF pc[r] = "done" THEN Codes[call[r].kind] ELSE {"none"}

-----------------------------------------------------------------------------
\* Votes.

\* A voter token has at most one stored vote per poll, whatever the
\* interleaving of the check in Cast with another Cast's insert, and across
\* restarts: the check is only a courtesy, the index must decide.
OneVotePerToken == IndexBuildable

\* Unless commands fail, each counter is the number of votes ever inserted for the
\* option, less those whose handler stands between the insert and HINCRBY.
CountersAccountForVotes ==
    \A p \in Polls, o \in Options :
       counters[p][o] =
          Cardinality({v \in VotesFor(accepted, p, o) : pc[v.id] # "incr"})

\* No published total exceeds the votes inserted, times the number of times
\* that Redis may apply one HINCRBY: an event never announces a vote that was
\* not stored first, from whichever store the counts were read.
EventsNeverOverstate ==
    \A p \in Polls : \A i \in DOMAIN events[p] : \A o \in DOMAIN events[p][i] :
       \E n \in WriteTimes :
          events[p][i][o] <= n * Cardinality(VotesFor(accepted, p, o))

\* A vote that is refused as unknown, late, invalid or repeated was not
\* stored by its own handler: the refusals come before the insert.
RejectedLeavesNoTrace ==
    \A v \in accepted : reply[v.id] \in {"none", "ok", "internal"}

Casting(r, p) == call[r].kind = "vote" /\ call[r].poll = p /\ InFlight(r)

\* Unless commands fail, whenever no vote is in flight on a poll that has votes,
\* one of the events published for it carries the counters as they are.
SomeEventIsCurrent ==
    \A p \in Polls :
       VotesOfPoll(accepted, p) # {} /\ (\A r \in Requests : ~Casting(r, p))
          => \E i \in DOMAIN events[p] :
                \A o \in DOMAIN events[p][i] : events[p][i][o] = counters[p][o]

Reads(r) == pc[r] \in {"read", "tally"} /\ pc'[r] # pc[r] /\ up'

\* Unless commands fail, no read of the counters is stale: it counts every vote that
\* had been answered with 201 before and, for Cast, the reader's own vote.
ReadsAreFresh ==
    [][\A r \in Requests : Reads(r) =>
          \A v \in VotesOfPoll(accepted, call[r].poll) :
             reply[v.id] = "ok" \/ v.id = r =>
                counts'[r][v.option] >=
                   Cardinality({w \in VotesFor(accepted, v.poll, v.option) :
                                   reply[w.id] = "ok" \/ w.id = r})]_vars

-----------------------------------------------------------------------------
\* Polls.

Closed(p) == polls[p] # NoPoll /\ polls[p].status = "closed"
Gone(p) == p \in issued /\ polls[p] = NoPoll

\* A closed poll never reopens and a deleted one never comes back, whatever
\* updates of the same document were under way.
ClosedStaysClosed ==
    [][\A p \in Polls : /\ Closed(p) => Closed(p)' \/ Gone(p)'
                        /\ Gone(p) => Gone(p)']_vars

\* A handler that has passed Cast's status check and not yet inserted.
Admitted(r, p) ==
    call[r].kind = "vote" /\ call[r].poll = p /\ pc[r] \in {"check", "insert"}

Drained(p) ==
    /\ p \in issued
    /\ polls[p] = NoPoll \/ Closed(p)
    /\ \A r \in Requests : ~Admitted(r, p)

\* Once a poll is closed or deleted and the votes admitted before that have
\* been inserted or refused, no vote is ever stored for it again.
FrozenOnceDrained ==
    [][\A p \in Polls :
          Drained(p) => /\ Drained(p)'
                        /\ VotesOfPoll(votes', p) \subseteq votes]_vars

ActsOn(r, p, kinds, stage) ==
    call[r].kind \in kinds /\ call[r].poll = p /\ pc[r] = stage

\* Only its creator's requests change or remove a poll, or remove its votes,
\* though ownership is checked on a copy read several calls earlier.
OnlyCreatorMutates ==
    [][\A p \in Polls :
        polls[p] # NoPoll /\ (polls'[p] # polls[p]
                               \/ ~(VotesOfPoll(votes, p) \subseteq votes'))
           => \E r \in Requests : /\ pc'[r] # pc[r]
                                  /\ call[r].kind \in OwnerKinds
                                  /\ call[r].poll = p
                                  /\ call[r].user = polls[p].creator]_vars

\* The answers that tell a client that voting on the poll is over.
OverCodes == [close |-> {"ok", "null_poll"}, delete |-> {"ok"},
              vote |-> {"poll_closed"}]

SaysOver(r, p) ==
    /\ call[r].kind \in DOMAIN OverCodes
    /\ call[r].poll = p
    /\ reply[r] \in OverCodes[call[r].kind]

\* Once any client was told that a poll is closed or deleted, no vote request
\* that starts later is admitted, whatever failed or was restarted meanwhile.
OverIsOver ==
    [][\A r \in Requests :
          pc[r] = "new" /\ pc'[r] = "check"
             => \A q \in Requests : ~SaysOver(q, call[r].poll)]_vars

-----------------------------------------------------------------------------
\* The abstract ledger.

LedgerPhase ==
    [p \in Polls |-> IF polls[p] # NoPoll
                     THEN IF polls[p].status = "active" THEN "open" ELSE "closed"
                     ELSE IF p \in issued THEN "gone" ELSE "none"]

\* Request r has passed the ownership check of Delete.
MayDelete(r) ==
    /\ call[r].kind = "delete"
    /\ loaded[r] # NoPoll /\ loaded[r].creator = call[r].user

AskedFor == {p \in Polls : \E r \in Requests : MayDelete(r) /\ call[r].poll = p}

\* Request r has passed Cast's validation and has not come to an insert.
Undecided(r) == call[r].kind = "vote" /\ pc[r] \in {"check", "insert"}

UndecidedVotes == {VoteOf(r) : r \in {q \in Requests : Undecided(q)}}

Ledger == INSTANCE VoteLedger WITH
    Ballots <- VoteDoc,
    phase <- LedgerPhase,
    doomed <- AskedFor,
    pending <- UndecidedVotes,
    recorded <- votes

\* The backend implements the ledger under every fault of the model except a failed
\* index creation: admission only while open, one vote per token, no loss of votes
\* before the creator asked for the deletion, one life per poll.
LedgerSpec == Ledger!Spec

-----------------------------------------------------------------------------
\* What the documentation says and the code does not do.

\* vote_service.go:201, "rebuilds Redis counters from MongoDB (called on
\* startup)": after startup every counter agrees with the stored votes.
RebuiltOnStartup ==
    [][~up /\ up' => \A p \in Polls : counters'[p] = RebuiltCounters(p)]_vars

\* DeletePollDialog.tsx:23, "All votes will also be permanently deleted": when
\* every handler of a deleted poll has ended, none of its votes is stored.
NoOrphanVotes ==
    \A v \in votes :
       \/ polls[v.poll] # NoPoll
       \/ \E r \in Requests : call[r].kind \in {"vote", "delete"}
                                 /\ call[r].poll = v.poll /\ InFlight(r)
=============================================================================
