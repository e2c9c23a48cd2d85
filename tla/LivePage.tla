------------------------------ MODULE LivePage ------------------------------
(***************************************************************************)
(* A browser page with live results: PublicPoll, Results or ManagePoll     *)
(* over useRealtimePoll, with the HTTP calls, the votes of others, and the *)
(* connection that carries the result events.                              *)
(***************************************************************************)
EXTENDS Integers, Sequences, FiniteSets, SequencesExt, FiniteSetsExt

CONSTANTS
    Polls,        \* polls that pages can show
    Opens,        \* bound: the pages that are opened, as <<kind, poll>>
    MaxSockets,   \* bound: connections that can be open at once
    MaxVotes,     \* bound: votes on each poll
    Closable,     \* bound: polls that are closed from elsewhere
    MaxMoves,     \* bound: jumps of one page from manage page to manage page
    MaxAttempts,  \* WS_MAX_RECONNECT_ATTEMPTS, 10 in the code
    MaxBatch,     \* bound: messages that WritePump joins in one frame
    Reached,      \* public routes that reach their handlers: none as routes.go stands
    None          \* no poll, no results, no call, no connection

ASSUME LivePageAssumption ==
    /\ Opens \subseteq {"public", "results", "manage"} \X Polls
    /\ MaxVotes \in [Polls -> Nat] /\ MaxMoves \in Nat
    /\ MaxAttempts \in Nat /\ MaxBatch \in Nat
    /\ MaxSockets \in Nat \ {0}
    /\ Reached \subseteq {"results", "votes"}
    /\ Polls # {}

VARIABLES
    total,   \* votes counted for each poll
    closed,  \* polls whose status is closed
    voted,   \* polls that the voter token of this browser has voted on
    unsent,  \* events of each poll still to be published, by their lowest count
    page,    \* the state of the mounted page
    hook,    \* the state and the refs of its useRealtimePoll
    sock,    \* the connections
    load,    \* the loads in flight
    vote,    \* the public page's vote in flight
    closing, \* the manage page's close in flight
    moves    \* how many jumps the mounted page has seen

server == <<total, closed, voted, unsent>>
browser == <<page, hook, sock>>
vars == <<server, browser, load, vote, closing, moves>>

Sockets == 1 .. MaxSockets

Counts == UNION {0 .. MaxVotes[p] : p \in Polls}

\* What is left of PollResults: whose counts, and their sum.
Results == [poll : Polls, total : Counts]

\* One connection, as the browser, the hub and the network between them see it.
Connection ==
    [poll : Polls, open : BOOLEAN, joined : BOOLEAN, sent : BOOLEAN,
     upset : BOOLEAN, pipe : Seq(Counts)]

LoadSlots == 1 .. 2

LoadCall == [poll : Polls, results : {"waiting", "null", "found"}, total : Counts]

VoteAnswered == {"ok", "already_voted", "poll_closed", "failed"}

VoteCall ==
    [poll : Polls, stage : {"sent", "stored"} \cup VoteAnswered, total : Counts]

CloseCall == [poll : Polls, stage : {"sent", "ok", "null", "failed"}]

ASSUME NoneAssumption ==
    /\ None \notin Polls /\ None \notin Sockets /\ None \notin Results
    /\ None \notin Connection /\ None \notin LoadCall /\ None \notin VoteCall
    /\ None \notin CloseCall

Status == {"connecting", "connected", "reconnecting", "disconnected"}

FreshPage(k, p) ==
    [kind |-> k, url |-> p, poll |-> None, closed |-> FALSE, initial |-> None,
     loading |-> TRUE, failed |-> FALSE, voting |-> FALSE, hasVoted |-> FALSE]

FreshHook ==
    [results |-> None, status |-> "connecting", attempts |-> 0, timer |-> None,
     ws |-> None]

NoPage == [FreshPage("left", CHOOSE p \in Polls : TRUE) EXCEPT !.loading = FALSE]

Init ==
    /\ total = [p \in Polls |-> 0]
    /\ closed = {}
    /\ voted = {}
    /\ unsent = [p \in Polls |-> {}]
    /\ page = NoPage
    /\ hook = FreshHook
    /\ sock = [s \in Sockets |-> None]
    /\ load = [i \in LoadSlots |-> None]
    /\ vote = None
    /\ closing = None
    /\ moves = 0

Mounted == page.kind # "left"

\* What each page renders.
PublicScreen ==
    IF page.loading THEN "skeleton"
    ELSE IF page.failed \/ page.poll = None THEN "not found"
    ELSE IF page.hasVoted \/ page.closed THEN "results" ELSE "form"

ResultsScreen ==
    IF page.loading THEN "skeleton"
    ELSE IF page.poll = None THEN "not found" ELSE "results"

ManageScreen ==
    IF page.loading THEN "skeleton"
    ELSE IF page.poll = None THEN "blank" ELSE "results"

Screen ==
    CASE page.kind = "public" -> PublicScreen
      [] page.kind = "results" -> ResultsScreen
      [] page.kind = "manage" -> ManageScreen
      [] OTHER -> "blank"

\* results || initialResults
Shown == IF hook.results # None THEN hook.results ELSE page.initial

\* The indicator of the screens that show a poll.
Indicator ==
    IF page.poll = None THEN "none"
    ELSE CASE hook.status = "connected" -> "Live"
           [] hook.status = "connecting" -> "Connecting..."
           [] hook.status = "reconnecting" -> "Reconnecting..."
           [] hook.status = "disconnected" -> "Offline"

-----------------------------------------------------------------------------
\* useRealtimePoll.  The operators take and return the hook's state together
\* with the connections.

Live(cs) == {s \in Sockets : cs[s] # None}

\* connect for poll p.
Connect(h, cs, p) ==
    LET s == Min(Sockets \ Live(cs))
    IN [hook |-> [h EXCEPT !.ws = s,
                           !.status = IF h.attempts > 0 THEN "reconnecting"
                                                        ELSE "connecting"],
        sock |-> [cs EXCEPT ![s] = [poll |-> p, open |-> FALSE, joined |-> FALSE,
                                    sent |-> FALSE, upset |-> FALSE, pipe |-> <<>>]]]

\* Mutant of Cleanup: the timer is not cleared.
CleanupSocketOnly(h, cs) ==
    [hook |-> [h EXCEPT !.ws = None],
     sock |-> [s \in Sockets |-> IF s = h.ws THEN None ELSE cs[s]]]

\* The effect's cleanup: the timer and the socket that the refs name.
Cleanup(h, cs) ==
    [hook |-> [h EXCEPT !.ws = None, !.timer = None],
     sock |-> [s \in Sockets |-> IF s = h.ws THEN None ELSE cs[s]]]

\* The connect effect runs again when the poll's identifier changes; connect
\* does nothing without one.
Rerun(h, cs, old, new) ==
    IF old = new THEN [hook |-> h, sock |-> cs]
    ELSE LET c == Cleanup(h, cs)
         IN IF new = None THEN c ELSE Connect(c.hook, c.sock, new)

\* The counts of an answer replace those shown; `upset` notes that they went down.
Show(h, cs, r) ==
    [hook |-> [h EXCEPT !.results = r],
     sock |-> [s \in Sockets |->
                 IF cs[s] # None /\ h.results # None
                       /\ h.results.poll = r.poll /\ h.results.total > r.total
                 THEN [cs[s] EXCEPT !.upset = TRUE] ELSE cs[s]]]

\* Mutant of ShowInitial: no effect keeps the results in step with `initial`.
ShowInitialNever(h, cs, r) == [hook |-> h, sock |-> cs]

\* The effect on `initial`: null leaves the results alone.
ShowInitial(h, cs, r) == IF r = None THEN [hook |-> h, sock |-> cs] ELSE Show(h, cs, r)

Becomes(b) == hook' = b.hook /\ sock' = b.sock

\* Mutant of SockOpens: onopen does not set the status.
SockOpensSilently(s) ==
    /\ sock[s] # None /\ ~sock[s].open
    /\ sock' = [sock EXCEPT ![s].open = TRUE]
    /\ hook' = [hook EXCEPT !.attempts = 0]
    /\ UNCHANGED <<server, page, load, vote, closing, moves>>

\* onopen.
SockOpens(s) ==
    /\ sock[s] # None /\ ~sock[s].open
    /\ sock' = [sock EXCEPT ![s].open = TRUE]
    /\ hook' = [hook EXCEPT !.attempts = 0, !.status = "connected"]
    /\ UNCHANGED <<server, page, load, vote, closing, moves>>

\* Mutant of SockFails: onclose does not count the attempts.
SockFailsUncounted(s) ==
    /\ sock[s] # None
    /\ sock' = [sock EXCEPT ![s] = None]
    /\ hook' = [hook EXCEPT !.status = "reconnecting", !.timer = sock[s].poll,
                            !.ws = None]
    /\ UNCHANGED <<server, page, load, vote, closing, moves>>

\* Mutant of SockFails: one attempt too many.
SockFailsOnceMore(s) ==
    /\ sock[s] # None
    /\ sock' = [sock EXCEPT ![s] = None]
    /\ \/ /\ hook.attempts <= MaxAttempts
          /\ hook' = [hook EXCEPT !.attempts = @ + 1, !.status = "reconnecting",
                                  !.timer = sock[s].poll, !.ws = None]
       \/ /\ hook.attempts > MaxAttempts
          /\ hook' = [hook EXCEPT !.status = "disconnected", !.ws = None]
    /\ UNCHANGED <<server, page, load, vote, closing, moves>>

\* onclose, after an error, a restart, an eviction, or because the poll is gone.
SockFails(s) ==
    /\ sock[s] # None
    /\ sock' = [sock EXCEPT ![s] = None]
    /\ \/ /\ hook.attempts < MaxAttempts
          /\ hook' = [hook EXCEPT !.attempts = @ + 1, !.status = "reconnecting",
                                  !.timer = sock[s].poll, !.ws = None]
       \/ /\ hook.attempts >= MaxAttempts
          /\ hook' = [hook EXCEPT !.status = "disconnected", !.ws = None]
    /\ UNCHANGED <<server, page, load, vote, closing, moves>>

\* The delay is over: connect runs for the poll of its closure.
TimerFires ==
    /\ hook.timer # None
    /\ Becomes(Connect([hook EXCEPT !.timer = None], sock, hook.timer))
    /\ UNCHANGED <<server, page, load, vote, closing, moves>>

\* Mutant of Received: the type is compared with another name than the server's.
ReceivedNothing(s) == [hook |-> hook, sock |-> sock]

\* onmessage for one event: the page now shows what came last.
Received(s) ==
    [hook |-> [hook EXCEPT !.results = [poll |-> sock[s].poll, total |-> Head(sock[s].pipe)]],
     sock |-> [sock EXCEPT ![s].upset = FALSE]]

\* A frame with one event is shown; several in one frame are no JSON text.
Deliver(s) ==
    /\ sock[s] # None /\ sock[s].open
    /\ \/ /\ sock[s].pipe # <<>>
          /\ hook' = Received(s).hook
          /\ sock' = [Received(s).sock EXCEPT ![s].pipe = Tail(@)]
       \/ \E k \in 2 .. MaxBatch :
             /\ Len(sock[s].pipe) >= k
             /\ sock' = [sock EXCEPT ![s].pipe = SubSeq(@, k + 1, Len(@)),
                                     ![s].upset = TRUE]
             /\ UNCHANGED hook
    /\ UNCHANGED <<server, page, load, vote, closing, moves>>

-----------------------------------------------------------------------------
\* The server and the other visitors.

\* One more vote for poll p, whose event is still to come.
Count(p) ==
    /\ total[p] < MaxVotes[p]
    /\ total' = [total EXCEPT ![p] = @ + 1]
    /\ unsent' = [unsent EXCEPT ![p] = @ \cup {total[p] + 1}]

\* No connection has the current count of p any more.
Outdated(p) ==
    [s \in Sockets |-> IF sock[s] # None /\ sock[s].poll = p
                       THEN [sock[s] EXCEPT !.sent = FALSE] ELSE sock[s]]

OthersVote(p) ==
    /\ p \notin closed
    /\ Count(p)
    /\ sock' = Outdated(p)
    /\ UNCHANGED <<closed, voted, page, hook, load, vote, closing, moves>>

\* The voter token of this browser votes in another tab, or on a page left since.
VoteElsewhere(p) ==
    /\ "votes" \in Reached
    /\ p \notin voted \cup closed
    /\ Count(p)
    /\ voted' = voted \cup {p}
    /\ sock' = Outdated(p)
    /\ UNCHANGED <<closed, page, hook, load, vote, closing, moves>>

CloseElsewhere(p) ==
    /\ p \in Closable \ closed
    /\ closed' = closed \cup {p}
    /\ UNCHANGED <<total, voted, unsent, browser, load, vote, closing, moves>>

\* Some vote's event is published with counts read since that vote, in any order
\* with the events of other votes; it may be lost on the way to the hub.
Publish(p) ==
    \E v \in unsent[p] :
       /\ unsent' = [unsent EXCEPT ![p] = @ \ {v}]
       /\ \/ UNCHANGED sock
          \/ \E w \in v .. total[p] :
                /\ \E s \in Sockets : sock[s] # None /\ sock[s].joined /\ sock[s].poll = p
                /\ sock' = [s \in Sockets |->
                      IF sock[s] # None /\ sock[s].joined /\ sock[s].poll = p
                      THEN [sock[s] EXCEPT !.pipe = Append(@, w), !.sent = (w = total[p])]
                      ELSE sock[s]]
       /\ UNCHANGED <<total, closed, voted, page, hook, load, vote, closing, moves>>

\* The hub registers the connection, which may be before or after onopen.
Joins(s) ==
    /\ sock[s] # None /\ ~sock[s].joined
    /\ sock' = [sock EXCEPT ![s].joined = TRUE]
    /\ UNCHANGED <<server, page, hook, load, vote, closing, moves>>

-----------------------------------------------------------------------------
\* Loading a page: the poll and its results in two GETs at once.

Loading(p) == [poll |-> p, results |-> "waiting", total |-> 0]

Open(k, p) ==
    /\ <<k, p>> \in Opens
    /\ ~Mounted
    /\ page' = FreshPage(k, p)
    /\ hook' = FreshHook
    /\ load' = [load EXCEPT ![1] = Loading(p)]
    /\ UNCHANGED <<server, sock, vote, closing, moves>>

\* A jump in the history from one manage page to another keeps the component.
Move(p) ==
    /\ page.kind = "manage" /\ p # page.url
    /\ moves < MaxMoves
    /\ moves' = moves + 1
    /\ page' = [page EXCEPT !.url = p]
    /\ \E i \in LoadSlots : load[i] = None /\ load' = [load EXCEPT ![i] = Loading(p)]
    /\ UNCHANGED <<server, hook, sock, vote, closing>>

\* The page unmounts, by a link or after a deletion: the answers of its calls
\* change nothing any more, and what its vote or its close still does to the
\* server is VoteElsewhere or CloseElsewhere.
Leave ==
    /\ Mounted
    /\ page' = NoPage
    /\ hook' = FreshHook
    /\ sock' = Cleanup(hook, sock).sock
    /\ load' = [i \in LoadSlots |-> None]
    /\ vote' = None /\ closing' = None
    /\ moves' = 0
    /\ UNCHANGED server

\* getResults or getPublicResults; an error becomes null.  The public route
\* hands the share code on as an identifier, which is never one of a poll.
ServeResults(i) ==
    /\ load[i] # None /\ load[i].results = "waiting"
    /\ \/ load' = [load EXCEPT ![i].results = "null"]
       \/ /\ page.kind = "manage" \/ "results" \in Reached
          /\ load' = [load EXCEPT ![i].results = "found", ![i].total = total[load[i].poll]]
    /\ UNCHANGED <<server, browser, vote, closing, moves>>

\* getById or getPublic finds the poll.  Its status is read here: a close after
\* an earlier read is the same as a close after this step, and once a manage page
\* has jumped its status decides nothing.
Loaded(i) ==
    /\ load[i].results # "waiting"
    /\ LET r == IF load[i].results = "null" THEN None
                ELSE [poll |-> load[i].poll, total |-> load[i].total]
           b == Rerun(hook, sock, page.poll, load[i].poll)
       IN /\ page' = [page EXCEPT !.poll = load[i].poll, !.initial = r, !.loading = FALSE,
                                  !.closed = load[i].poll \in closed]
          /\ Becomes(ShowInitial(b.hook, b.sock, r))

\* Promise.all fails with getById or getPublic; PublicPoll remembers it.
LoadFailed ==
    /\ page' = [page EXCEPT !.failed = @ \/ page.kind = "public", !.loading = FALSE]
    /\ UNCHANGED <<hook, sock>>

LoadAnswers(i) ==
    /\ load[i] # None
    /\ Loaded(i) \/ LoadFailed
    /\ load' = [load EXCEPT ![i] = None]
    /\ UNCHANGED <<server, vote, closing, moves>>

-----------------------------------------------------------------------------
\* Voting.

\* handleVote with an option selected, behind the disabled button.
Vote ==
    /\ page.kind = "public" /\ PublicScreen = "form" /\ ~page.voting
    /\ vote = None
    /\ page' = [page EXCEPT !.voting = TRUE]
    /\ vote' = [poll |-> page.poll, stage |-> "sent", total |-> 0]
    /\ UNCHANGED <<server, hook, sock, load, closing, moves>>

Reply(a, n) == vote' = [vote EXCEPT !.stage = a, !.total = n]

\* Cast up to the stored and counted vote, unless AuthRequired stops the call:
\* the browser sends no token with it.
ServeVote ==
    /\ vote # None /\ vote.stage = "sent"
    /\ \/ Reply("failed", 0) /\ UNCHANGED <<server, sock>>
       \/ /\ "votes" \in Reached /\ vote.poll \in closed
          /\ Reply("poll_closed", 0) /\ UNCHANGED <<server, sock>>
       \/ /\ "votes" \in Reached /\ vote.poll \in voted \ closed
          /\ Reply("already_voted", 0) /\ UNCHANGED <<server, sock>>
       \/ /\ "votes" \in Reached /\ vote.poll \notin voted \cup closed
          /\ Count(vote.poll)
          /\ voted' = voted \cup {vote.poll}
          /\ sock' = Outdated(vote.poll)
          /\ Reply("stored", 0)
          /\ UNCHANGED closed
    /\ UNCHANGED <<page, hook, load, closing, moves>>

\* The counts of the answer are read, or the answer is lost.
ServeVoteResults ==
    /\ vote # None /\ vote.stage = "stored"
    /\ Reply("ok", total[vote.poll]) \/ Reply("failed", 0)
    /\ UNCHANGED <<server, browser, load, closing, moves>>

VoteShown ==
    LET r == [poll |-> vote.poll, total |-> vote.total]
    IN /\ vote.stage = "ok"
       /\ page' = [page EXCEPT !.initial = r, !.hasVoted = TRUE, !.voting = FALSE]
       /\ Becomes(ShowInitial(hook, sock, r))

\* Mutant of VoteRefused: no finally.
VoteRefusedStuck ==
    /\ vote.stage # "ok"
    /\ page' = [page EXCEPT !.hasVoted = @ \/ vote.stage = "already_voted",
                            !.closed = @ \/ vote.stage = "poll_closed",
                            !.voting = vote.stage = "failed"]
    /\ UNCHANGED <<hook, sock>>

\* Mutant of VoteRefused: every error counts as a vote already cast.
VoteRefusedAsCast ==
    /\ vote.stage # "ok"
    /\ page' = [page EXCEPT !.hasVoted = TRUE, !.voting = FALSE]
    /\ UNCHANGED <<hook, sock>>

\* The catch block: other errors leave the form as it was.
VoteRefused ==
    /\ vote.stage # "ok"
    /\ page' = [page EXCEPT !.hasVoted = @ \/ vote.stage = "already_voted",
                            !.closed = @ \/ vote.stage = "poll_closed",
                            !.voting = FALSE]
    /\ UNCHANGED <<hook, sock>>

VoteAnswers ==
    /\ vote # None /\ vote.stage \in VoteAnswered
    /\ VoteShown \/ VoteRefused
    /\ vote' = None
    /\ UNCHANGED <<server, load, closing, moves>>

-----------------------------------------------------------------------------
\* Closing, on the manage page.

\* handleClose, for the poll shown.  Its dialog opens over an active poll and
\* stays open in a jump.
Close ==
    /\ page.kind = "manage" /\ page.poll # None
    /\ ~page.closed \/ moves > 0
    /\ closing = None
    /\ closing' = [poll |-> page.poll, stage |-> "sent"]
    /\ UNCHANGED <<server, browser, load, vote, moves>>

\* The update and the reload behind it, either of which may fail; the reload
\* finds null when the poll was deleted in between.  Deletions are not followed
\* further: every call about such a poll may fail.
ServeClose ==
    /\ closing # None /\ closing.stage = "sent"
    /\ \/ closing' = [closing EXCEPT !.stage = "failed"] /\ UNCHANGED closed
       \/ /\ closed' = closed \cup {closing.poll}
          /\ \E a \in {"ok", "null", "failed"} : closing' = [closing EXCEPT !.stage = a]
    /\ UNCHANGED <<total, voted, unsent, browser, load, vote, moves>>

\* setPoll(updated), whichever poll the page shows by now.
CloseShown ==
    LET updated == IF closing.stage = "null" THEN None ELSE closing.poll
    IN /\ closing.stage \in {"ok", "null"}
       /\ page' = [page EXCEPT !.poll = updated, !.closed = updated # None]
       /\ Becomes(Rerun(hook, sock, page.poll, updated))

CloseAnswers ==
    /\ closing # None /\ closing.stage # "sent"
    /\ \/ CloseShown
       \/ closing.stage = "failed" /\ UNCHANGED browser
    /\ closing' = None
    /\ UNCHANGED <<server, load, vote, moves>>

-----------------------------------------------------------------------------
Next ==
    \/ \E k \in {"public", "results", "manage"}, p \in Polls : Open(k, p)
    \/ \E p \in Polls : Move(p) \/ Publish(p)
    \/ \E p \in Polls : OthersVote(p) \/ VoteElsewhere(p) \/ CloseElsewhere(p)
    \/ Leave
    \/ \E i \in LoadSlots : ServeResults(i) \/ LoadAnswers(i)
    \/ Vote \/ ServeVote \/ ServeVoteResults \/ VoteAnswers
    \/ Close \/ ServeClose \/ CloseAnswers
    \/ \E s \in Sockets : SockOpens(s) \/ Joins(s) \/ SockFails(s) \/ Deliver(s)
    \/ TimerFires

Spec == Init /\ [][Next]_vars

\* Every call is answered or fails, every handshake ends, and timers fire.
FairSpec ==
    /\ Spec
    /\ \A i \in LoadSlots : WF_vars(ServeResults(i) \/ LoadAnswers(i))
    /\ WF_vars(ServeVote \/ ServeVoteResults \/ VoteAnswers)
    /\ WF_vars(ServeClose \/ CloseAnswers)
    /\ WF_vars(\E s \in Sockets : SockOpens(s))
    /\ WF_vars(TimerFires)

-----------------------------------------------------------------------------
\* Properties.

\* The states of the model, with no more reconnection attempts than the constant.
TypeOK ==
    /\ total \in [Polls -> Counts] /\ closed \subseteq Polls /\ voted \subseteq Polls
    /\ \A p \in Polls : unsent[p] \subseteq 1 .. total[p]
    /\ page \in [kind : {"public", "results", "manage", "left"}, url : Polls, poll : Polls \cup {None},
                 closed : BOOLEAN, initial : Results \cup {None}, loading : BOOLEAN,
                 failed : BOOLEAN, voting : BOOLEAN, hasVoted : BOOLEAN]
    /\ hook \in [results : Results \cup {None}, status : Status,
                 attempts : 0 .. MaxAttempts, timer : Polls \cup {None},
                 ws : Sockets \cup {None}]
    /\ sock \in [Sockets -> Connection \cup {None}]
    /\ load \in [LoadSlots -> LoadCall \cup {None}]
    /\ vote \in VoteCall \cup {None}
    /\ closing \in CloseCall \cup {None}

\* The page has one connection or one timer, for the poll it shows, and none
\* once it is left: no reconnection survives the page or the poll it was for.
\* It gives up only after the last attempt.
FollowsItsPoll ==
    LET timers == IF hook.timer = None THEN 0 ELSE 1
    IN IF page.poll = None THEN Live(sock) = {} /\ timers = 0
       ELSE /\ Cardinality(Live(sock)) + timers
                  = IF hook.status = "disconnected" THEN 0 ELSE 1
            /\ \A s \in Live(sock) : s = hook.ws /\ sock[s].poll = page.poll
            /\ hook.timer \in {None, page.poll}
            /\ hook.status = "disconnected" => hook.attempts = MaxAttempts

\* The indicator says "Live" exactly while the connection is open.
LiveMeansOpen ==
    Indicator = "Live" <=> \E s \in Live(sock) : sock[s].open

\* Whenever the event sent last carries the current count and nothing is on the
\* way, the page shows that count, however far behind it was before: unless,
\* since it last showed an event, events came in one frame or an answer was
\* older than what it showed.
DrainedIsCurrent ==
    \A s \in Live(sock) :
       sock[s].sent /\ sock[s].pipe = <<>> /\ ~sock[s].upset
          => Shown = [poll |-> page.poll, total |-> total[page.poll]]

\* The page shows the counts of another poll than its own.
Mixed == page.poll # None /\ Shown # None /\ Shown.poll # page.poll

NullLoad(i) ==
    /\ load[i] # None /\ load'[i] = None
    /\ load[i].results = "null" /\ load[i].poll # page.poll

LateClose == closing # None /\ closing' = None /\ closing.poll # page.poll

MixesOnlySo ==
    ~Mixed /\ Mixed' => (\E i \in LoadSlots : NullLoad(i)) \/ LateClose

\* A page comes to show counts of another poll in two ways only: it loads a poll
\* whose results cannot be read, or a close that was sent for one poll is
\* answered when the page already shows another.
ResultsOfThisPoll == [][MixesOnlySo]_vars

\* The page says "Vote submitted" only if the server has once stored a vote of
\* this browser on this poll.
VotedMeansStored == page.hasVoted => page.poll \in voted

\* Connecting and reconnecting end: the page is live, offline, or left.
Settles == []<>(hook.status \in {"connected", "disconnected"} \/ page.poll = None)

\* Neither the skeleton nor "Submitting..." nor "Closing..." stays for ever.
WaitingEnds == []<>(~page.loading) /\ []<>(~page.voting) /\ []<>(closing = None)
=============================================================================
