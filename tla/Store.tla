------------------------------- MODULE Store -------------------------------
(***************************************************************************)
(* The stores behind PulsePoll: the MongoDB collections `polls` and        *)
(* `votes`, the Redis hashes poll:<id> that hold a counter per option, and *)
(* the Redis Pub/Sub channels poll:<id>.  The operators below are the      *)
(* repositories' queries; the services apply them in their steps.          *)
(***************************************************************************)
EXTENDS Naturals, Sequences, FiniteSets

CONSTANTS
    Polls,          \* the ObjectIDs that poll documents may be given
    Options,        \* option identifiers
    Tokens,         \* voter tokens, none of them empty
    Users,          \* account identifiers
    Titles,         \* poll titles
    Requests,       \* HTTP requests, each served by a goroutine of its own
    InitialPolls,   \* the polls collection that earlier requests left behind
    NoPoll,         \* what a lookup that matches no document returns
    Faults,         \* the kinds of failure the environment may inject
    MaxResend       \* bound: how often the Redis client repeats one command

FaultKinds ==
    { "mongo",      \* a MongoDB command fails, before or after it took effect
      "index",      \* the creation of the unique index at startup fails
      "redis",      \* a Redis command fails
      "resend",     \* the Redis client repeats a command whose answer was lost
      "crash",      \* the server process stops and is started again
      "flush" }     \* Redis loses its data

\* models.Poll: the fields the services read or write.
PollDoc == [creator : Users, title : Titles,
            options : SUBSET Options, status : {"active", "closed"}]

\* models.Vote: `id` is the document's ObjectID.  A request inserts at most
\* one vote, so the request's own name serves as the ObjectID it generates.
VoteDoc == [id : Requests, poll : Polls, option : Options, token : Tokens]

ASSUME StoreAssumption ==
    /\ IsFiniteSet(Requests)
    /\ NoPoll \notin PollDoc
    /\ InitialPolls \in [Polls -> PollDoc \cup {NoPoll}]
    /\ Faults \subseteq FaultKinds
    /\ MaxResend \in Nat

VARIABLES
    polls,          \* the collection `polls`
    issued,         \* the ObjectIDs ever given to a poll
    votes,          \* the collection `votes`
    uniqueIndex,    \* whether `votes` has its index on (pollId, voterToken)
    accepted,       \* history: every vote document ever inserted
    counters,       \* the hash poll:<id>; an absent field counts as zero
    events          \* history: the count maps published on channel poll:<id>

mongo == <<polls, issued, votes, uniqueIndex, accepted>>
redis == <<counters, events>>

StoreInit ==
    /\ polls = InitialPolls
    /\ issued = {p \in Polls : InitialPolls[p] # NoPoll}
    /\ votes = {}
    /\ uniqueIndex = FALSE
    /\ accepted = {}
    /\ counters = [p \in Polls |-> [o \in Options |-> 0]]
    /\ events = [p \in Polls |-> <<>>]

-----------------------------------------------------------------------------
\* The repositories.

FindByID(p) == polls[p]

HasVoted(p, t) == \E v \in votes : v.poll = p /\ v.token = t

VotesFor(S, p, o) == {v \in S : v.poll = p /\ v.option = o}

CountByOption(p, o) == Cardinality(VotesFor(votes, p, o))

VotesOfPoll(S, p) == {v \in S : v.poll = p}

\* InitRedisCounters: the hash it would write for a poll.  It has no caller.
RebuiltCounters(p) == [o \in Options |-> CountByOption(p, o)]

\* Mutant of DuplicateKey: the index is not unique.
NoDuplicateKey(v) == FALSE

\* The insert that the unique index, when it exists, refuses.
DuplicateKey(v) == uniqueIndex /\ HasVoted(v.poll, v.token)

\* $set on the document with identifier p; matching no document is no error.
UpdateOne(p, doc) ==
    IF polls[p] = NoPoll THEN polls ELSE [polls EXCEPT ![p] = doc]

\* The index can be built only over votes that do not already violate it.
IndexBuildable ==
    \A v, w \in votes : v.poll = w.poll /\ v.token = w.token => v = w

\* createIndexes at startup: its outcome is discarded.
CreateIndexes ==
    \/ IndexBuildable /\ uniqueIndex' = TRUE
    \/ ~IndexBuildable /\ UNCHANGED uniqueIndex
    \/ "index" \in Faults /\ UNCHANGED uniqueIndex

-----------------------------------------------------------------------------
\* Redis.

\* A function from the poll's options to numbers, the event's Counts field.
NoCounts == [o \in {} |-> 0]

RedisCounts(p, opts) == [o \in opts |-> counters[p][o]]

MongoCounts(p, opts) == [o \in opts |-> CountByOption(p, o)]

\* How often a write to Redis may take effect: the client repeats a command
\* whose answer it did not get, and a failed one may not have happened.
WriteTimes ==
    {1} \cup (IF "redis" \in Faults THEN {0} ELSE {})
        \cup (IF "resend" \in Faults THEN 1 .. (1 + MaxResend) ELSE {})

Publish(p, e, n) ==
    events' = [events EXCEPT ![p] = @ \o [i \in 1 .. n |-> e]]
=============================================================================
