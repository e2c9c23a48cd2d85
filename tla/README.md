# PulsePoll, verified

TLA+ models of PulsePoll, the live polling application of this repository: a Go
backend (gin, MongoDB, Redis) and a React frontend. The modules state what the
vote, poll and account services, the WebSocket hub and the pages of the browser
do, TLC checks their properties on small instances, and TLAPS proves all of the
safety properties among them for every instance. Liveness stays with TLC.

## 1. The system

| Component | State | Operations | Interacts with | Correct when |
|---|---|---|---|---|
| Vote service (`services/vote_service.go`, `repositories/vote_repository.go`) | `votes` in MongoDB with a unique index on (pollId, voterToken); hash `poll:<id>` in Redis | `Cast`, `GetResults`; `InitRedisCounters` exists and is called nowhere | MongoDB, Redis, Pub/Sub | one vote per token; counters and events agree with the votes; a late or repeated vote leaves no trace |
| Poll service (`services/poll_service.go`, `repositories/poll_repository.go`) | `polls` in MongoDB | `Create`, `Update`, `Close`, `Delete`, reads | MongoDB; shares `votes` with the vote service | only the creator changes a poll; closing and deleting are final |
| Realtime service (`services/realtime_service.go`) | the Pub/Sub subscription | `Publish`, the subscriber goroutine | Redis, hub | events reach the hub in order |
| Hub and connections (`websocket/`) | rooms, three channels, a send channel per client | `Run`, `ServeWS`, `ReadPump`, `WritePump` | subscriber, browsers | no panic; no silent gap in what a client sees; leavers are forgotten |
| Process (`cmd/server/main.go`) | none that survives | startup, shutdown | all | a restart loses nothing that was promised |
| Accounts (`services/auth_service.go`, `middleware/auth.go`) | `users` with a unique index on email; JWTs | `Signup`, `Login`, `Me` | MongoDB | one account per email |
| Routing (`routes/routes.go`), validators | none | the path to a handler; option identifiers | controllers | each documented call reaches its handler; options are distinguishable |
| Session (`AuthContext`, `services/auth.ts`, `App`, `Login`, `Signup`) | the token in local storage, shared by tabs; per tab user, `isLoading`, route | start, sign up, sign in, log out, guarded routes | account service | a tab shows the account it acts for; waiting ends |
| Live pages (`useRealtimePoll`, `PublicPoll`, `Results`, `ManagePoll`) | poll, initial and live results, socket, timer, attempts | load, vote, connect, reconnect, leave | API, WebSocket | one connection, for the poll shown; current counts once received |
| Creator pages (`Dashboard`, `CreatePoll`, `ManagePoll`, dialogs) | a copy of the polls, dialogs, busy flags | list, create, close, delete, navigate | poll API | shows what is stored; a form makes one poll |

Gin serves every request in a goroutine of its own, without locks: all state is
in MongoDB and Redis, so *any two database calls of two requests interleave*.
Failures are real too: each MongoDB call has a timeout of five seconds after
which it may or may not have taken effect, Redis errors are only logged, the
Redis client repeats commands, the index creation's error is discarded, and a
crash may fall between any two calls. In the hub, one goroutine owns the rooms
and `select` picks among three buffered channels in no particular order. In the
browser every handler is a sequence of steps between `await`s: its answer is
applied to whatever the page has become, in any order with other answers, with
socket events and with what the user did meanwhile; another tab shares the
storage and tells nobody.

`PROJECT.json` lists the hazards this leads to, each at its line.

## 2. Modules

| Module | Models | Correspondence |
|---|---|---|
| `Store` | MongoDB and Redis as the repositories use them | `polls`, `votes`, `uniqueIndex`, `counters` are the persistent state; an operator per query |
| `Handlers` | the requests in flight | `pc[r]` is the call the handler of `r` makes next, `loaded` and `counts` its locals, `reply` the controller's answer |
| `VoteService` | `Cast`, `GetResults` | one action per database call, in the order `CastNext` gives |
| `PollService` | `Create`, `Update`, `Close`, `Delete` | one action per database call; Update and Close share load, `$set` and reload |
| `Backend` | the process: both services, startup, crash, loss of Redis data; the properties | extends both services |
| `VoteLedger` | abstract specification: what the backend promises about votes | `Backend` implements it under the mapping `Ledger`: `LedgerPhase`, `AskedFor`, `UndecidedVotes`, `votes` |
| `Hub` | `Hub.Run`, `ServeWS`, `ReadPump`, `WritePump` | an action per select branch, per target of a fan-out, per pump step |
| `Session` | tabs of a browser and the account service | `token` is local storage, `user`, `loading`, `busy` and `page` the state of each tab; a call is found, inserted, answered, then its continuation runs |
| `LivePage` | one mounted page over `useRealtimePoll` | `page` is the component's state, `hook` the hook's state and refs, `sock` the WebSockets with the events on their way, `load`, `vote` and `closing` the calls in flight; `total`, `closed`, `unsent` are the server |
| `PollValidator` | `CreatePollRequest.Validate` | pure: from option texts to identifiers, the loop as a recursive function |
| `CreatorPages` | a creator's tab, its calls and the poll service | `page` is the state of the mounted page (`poll` the route's identifier, `shown` and `status` the poll object), `call` the calls in flight, `db` the status of each poll |
| `MCBackend`, `MCHub`, `MCSession`, `MCLivePage`, `MCCreatorPages` | instances for TLC | the calls that requests may carry, the rooms, the pages, the drafts |
| `BackendProofs` | theorems: types, one vote per token, counters | extended by the next three |
| `PollProofs` | theorems: the life of a poll, ownership, refused votes | |
| `LedgerProofs` | theorem: `Backend` implements `VoteLedger` | |
| `CountProofs` | theorems: events, and reads of the counters | |
| `HubProofs`, `SessionProofs`, `LivePageProofs` | theorems about `Hub`, `Session`, `LivePage` | |
| `CreatorPagesProofs` | theorems about `CreatorPages`, and lemmas about the loop of `PollValidator` | |

Each action is one atomic effect on a store and everything the handler does
until its next one. An action's disjuncts are the outcomes of the call: its
success, the early returns behind it and, when the fault is enabled, its failure
before and after it took effect.

What is abstracted, and why no property depends on it:

- *Data.* Polls, options, tokens and users are model values. Titles stand for
  title and description. A poll's options are a set: their texts matter only to
  the validators. Share codes and timestamps are left out. A vote's ObjectID is
  the name of its request, as a request inserts at most one vote.
- *Inputs refused before any database call* (missing fields, an empty voter
  token) are not enumerated: they change nothing.
- *The Redis hash.* An absent field reads as zero in the code; here every option
  has a counter.
- *HTTP codes.* `reply` keeps the controllers' error kinds.
- *Failures of MongoDB reads and writes* are one fault, `"mongo"`; a write may
  fail after taking effect. A failed `DeleteMany` may have removed any part. A write
  takes effect by the time its handler learns of the failure, or never: one that
  MongoDB applies still later, after the 500 was answered or the process stopped, is
  not modelled. "Every fault of the model" below excludes it, and such a late insert
  could be stored after a poll has drained (`FrozenOnceDrained`).
- *Redis retries* (`"resend"`) are external behaviour of go-redis: a command may
  take effect up to `1 + MaxResend` times.
- *In the hub*, messages are numbered; ping, pong, deadlines and read limits are
  the step `PeerBreaks` with what follows it. Capacities are constants.
- *In the browser*, a component is the record of its state; what React renders is
  an operator over it where a guard depends on it (`PublicScreen`, `Cards`,
  `Indicator`), and layout is left out. Effects run with the step that changes
  their dependencies. The double effects of React's development mode are left out.
- *Accounts.* A password is right or the call fails; a token is the account it
  names and may have expired, which is one of the ways a call fails. Trimming
  and lower case of addresses are done by the validator before anything else.
- *Results* in `LivePage` are the poll and the total, which every vote raises;
  in the code counts, total and poll travel together. The status of a poll is
  read with the answer of a load: a close between the two reads is the same as
  one after them. Polls are closed from the page (`Close`) and from elsewhere. They
  are not deleted; what a page sees of a deletion is a call that fails, or the `null`
  answer of its own close, after which it renders nothing and its connection ends.
- *History jumps.* A jump of the browser's history between two manage pages keeps the
  component mounted (`App.tsx:68`), with its state and its calls in flight. Both
  modules of pages have it: `LivePage` for counts and the connection, `CreatorPages`
  (`Jump`) for dialogs and the busy flags. There the poll of the route, which loads
  and jumps use, and the poll object, which the close and the deletion use, are two
  fields, since they differ until the load answers. The bound of `LivePage` is
  `MaxMoves`, that of `CreatorPages` is `Linked`, the polls that the history leads to.
- *Public routes.* `Reached` names the public routes that reach their handlers.
  As `routes/routes.go` stands it is empty: votes of the browser carry no token
  and `AuthRequired` refuses them all (line 76), and results are asked for with a
  share code where an identifier is parsed (lines 93-98), although README.md:96
  promises voting "without requiring an account". The run sets both and lets
  every call fail as well, so its behaviours include those of this commit; with
  `Reached = {}` the same properties hold.
- *Texts* in `PollValidator` are sequences over `Symbols`, with one upper-case
  letter and one blank. Of the alphabet only the symbols that the code writes
  itself are assumed.
- `foreign`, `touched`, `made`, `lost`, `upset`, `sent`, `moves`: history, or
  the bound of jumps. `voted` too: the polls on which a vote of this browser was once
  stored, here or in another tab (`VoteElsewhere`), purges not undone.
- `accepted` (every vote ever inserted), `events` (all published), `due` and
  `missed` are history variables: nothing reads them but the properties.

## 3. Runs

| Run | Question | Instance |
|---|---|---|
| `Races` | are counters, events, votes, ownership and the poll's life consistent when requests race? | 3 requests out of 15 calls, 2 users, 2 tokens, up to 4 polls; index creation may fail |
| `Faults` | what holds whatever of the model's faults occurs, and is a close binding? | 3 requests (votes, close, delete, results); MongoDB, Redis, one resend, crash, flush |
| `HubSafety` | can the hub panic, lose a message silently, or send it to the wrong room? | 2 clients in one of two rooms, capacities 1, 3 messages |
| `HubLiveness` | does the hub stop only on its own send; are leavers forgotten and messages delivered? | fair; 2 clients in one room, capacities 1, 2 messages |
| `Sessions` | does a tab show the account it acts for, and does waiting end? | fair; 2 tabs, 2 calls, one address, 2 accounts; index creation may fail |
| `LivePages` | what does a page with live results show, and for how long does it wait? | fair; 3 kinds of pages, 2 polls, 2 votes, 2 sockets, 1 attempt, a jump, closes from the page and from elsewhere |
| `CreatorPages` | do the creator's pages agree with what is stored? | fair; 2 polls, 2 calls at a time, 2 drafts, jumps to one of the polls, closes and deletions in another tab |

Runs that end in a violation, each of a sentence of the documentation or of a
comment (see `findings` in `PROJECT.json`): `RebuiltOnStartup`, `NoOrphanVotes`,
`FullBuffer`, `BatchedFrames`, `OptionIds`.

*Bounds.* Every hazard listed needs two or three requests: a check that races
with an insert, a close or delete between two calls of a vote, and a third to
observe. Requests are symmetric. One poll is enough for votes, as no operation
touches two polls; `Races` has four, one for each creation its three requests can
make. Three messages and capacities of one reach full buffers, evictions, and both orders in
which select may serve two channels. `FullBuffer` with a capacity of one stands
for 256: the run blocks because the channel is full, whatever its size. In
`HubLiveness` the unregister channel fills as well, with readers that wait for a
place in it and a broadcast channel that blocks the subscriber. Its three properties
except one state, `HubStuck`: the hub waits to send to its own full unregister channel,
which is what `FullBuffer` is about. So they say that this is the only way to stop it.
Neither run checks deadlock, since the stuck hub is one, and so is an instance whose
clients have left and whose messages are spent.

In the browser, two calls in flight are the least that can be answered out of
order; two tabs the least that share a storage; two polls the least that a card,
a dialog, a socket or a load can be wrong about. Two votes let two events meet in
one frame and arrive in the opposite order of their counts. One attempt stands
for the ten of `WS_MAX_RECONNECT_ATTEMPTS`: the last one is reached, fails or opens,
and opening resets the counter, so that it is spent again. Of the two drafts of
`CreatorPages` one is refused and one is accepted and holds the blank row that the
form drops; `OptionIds` has one with an identifier that a suffix makes equal to
another, and one with an identifier that meets a text.

What the runs of the browser show is as precise as the exceptions of their
properties, each of which is a behaviour that TLC reached without it:

- `ShowsWhoItActsAs` and `NewTokensSurvive` except tabs whose storage another tab
  has changed. A tab then shows one account and acts for another, and the late
  failure of its `me()` removes the token that the other tab has just stored.
- `DrainedIsCurrent` excepts pages that missed what came last: two events in one
  frame (run `BatchedFrames`), an event published after a newer one, or an answer that
  replaces a newer event. The next event that is shown ends the exception, so the
  property says that a page that fell behind catches up with it.
- `ResultsOfThisPoll` is about the step by which a page comes to show counts of
  another poll than its own, and names the two there are. A load whose results
  cannot be read, after a jump: the manage page then shows the previous poll's
  numbers under the new title (`ManagePoll.tsx`, the load sets the poll before the
  results). A close that was sent before a jump and is answered after it:
  `setPoll(updated)` puts the closed poll under the numbers of the page jumped to.
- `ListIsStored` excepts polls changed elsewhere or whose answer was lost:
  nothing refreshes the list.
- `OnePollPerForm` excepts a second submission after a lost answer.
- `CrashesOverDeletedPolls` allows the app to go blank when a poll is deleted
  during its close: `Dashboard.tsx:69` reads the identifier of null.
- Options have no such property: `OptionIds` is a violation of the comment at
  `poll_validator.go:67`, "Add index to ensure uniqueness for edge cases". When a suffix
  meets the identifier of an earlier option, two options get one identifier and thus
  one counter. What remains true is `OptionsDiffer`, which is proved: texts always
  differ, and of two equal identifiers exactly one was made by a suffix.

The reconnection delay grows linearly (`useRealtimePoll.ts:58`) where README.md
speaks of an exponential backoff; delays are not modelled, so nothing depends on it.

*Requests are finite* in an instance; `Idle` lets the server go on without
work, so that deadlock checking means what it says.

*Fairness.* No run asks for liveness of `Backend`: its handlers are straight lines of
calls that time out. In `Hub`, the hub goroutine and each connection's goroutines are
weakly fair; connecting, breaking and broadcasting are not. In the browser, every HTTP
call, a manage page's close among them, is weakly fair: the server bounds its database
calls, the browser gives up on a connection, and the code that awaits runs. So are a
WebSocket handshake, which opens or fails, and a timer that is set. What users do is never fair.

## 4. Proofs

`tlapm` checks the eight proof modules from the named assumptions of the modules
they are about and nothing else: `StoreAssumption`, `HandlersAssumption`,
`HubAssumption`, `SessionAssumption`, `LivePageAssumption`,
`CreatorPagesAssumption`, `SymbolsAssumption` (the symbols the validator writes
are symbols) and, in the two modules of pages, `NoneAssumption` (the value for
"nothing" is no poll, no socket, no call). All are about constants, and TLC
evaluates them in the runs.

| Theorem | For every instance |
|---|---|
| `TypeCorrect` | `TypeOK` of the backend holds, under all faults of the model |
| `OneVotePerTokenHolds` | one vote per token and poll, if `"index"` is not among the faults |
| `CountersAccount` | counters account for the votes, if nothing but the index creation fails |
| `RejectedLeavesNoTraceHolds` | a vote that is refused was not stored by its handler, under all faults of the model |
| `ClosedStaysClosedHolds` | closing and deleting are final, under all faults of the model |
| `FrozenOnceDrainedHolds` | no vote is stored once a poll is over and its admitted votes are decided, under all faults of the model |
| `OnlyCreatorMutatesHolds` | only its creator's requests change a poll or remove its votes, under all faults of the model |
| `OverIsOverHolds` | once a client was told that a poll is over, no later vote is admitted, under all faults of the model |
| `BackendImplementsLedger` | `Spec => LedgerSpec`, if `"index"` is not among the faults |
| `EventsNeverOverstateHolds` | no event announces a vote that was not stored, under all faults of the model |
| `SomeEventIsCurrentHolds` | a quiet poll has an event with its counters, if nothing but the index creation fails |
| `ReadsAreFreshHolds` | a read includes the votes answered before it and its own, if nothing but the index creation fails |
| `HubTypeOK` | `Hub`'s `TypeOK` holds: no buffer exceeds its capacity |
| `HubNeverPanics` | the hub never uses a closed channel |
| `MissedAreEvicted` | who missed a message is being removed |
| `NothingIsLost` | who missed nothing has got or will get exactly the messages due to it, in order and once |
| `SessionTypeCorrect` | `Session`'s `TypeOK` holds, so no tab leaves the routes of `App` |
| `OneAccountPerEmailHolds` | with the unique index, one account per address |
| `ShowsWhoItActsAsHolds` | a started tab shows the owner of the stored token, unless another tab replaced it |
| `NewTokensSurviveHolds` | no late failure of an older `me()` removes a newer token |
| `LivePageTypeOK` | `LivePage`'s `TypeOK` holds |
| `PageFollowsItsPoll` | one connection or one timer, for the poll shown, and none after the page |
| `LiveIsOpen` | "Live" is shown exactly while the connection is open |
| `DrainedShowsCurrent` | a page that was sent the current count shows it, and one that fell behind does again with the next event it can show |
| `ResultsAreOfThisPoll` | a page comes to show another poll's numbers only by unreadable results or a close answered after a jump |
| `VotedIsStored` | "Vote submitted" means that the server has once stored a vote of this browser |
| `CreatorPagesTypeOK` | `CreatorPages`'s `TypeOK` holds |
| `ListShowsTheStored` | the dashboard shows what is stored, with the exceptions of section 3 |
| `ShownClosedIsNotOpen` | what is shown as closed takes no votes |
| `FormMakesOnePoll` | one poll per form, unless an answer was lost |
| `CreatedOptionsDiffer` | options of a created poll differ in their texts, and share an identifier only by one suffix, for texts of any length over any alphabet |
| `CrashOnlyOverDeleted` | the app goes blank only over a poll that was deleted during its close |

The hypotheses on `Faults` are needed: run `Races` includes `"index"` and so does
not check `OneVotePerToken`, and a failed or repeated Redis command breaks the three
properties of the counters.

*Types.* `TypeOK` is not inductive: a handler past its load must hold a poll
document, and an event is built from `counts`. `TypeInv` adds this. For
functions updated at a point, the lemmas on `EXCEPT` are stated once.

*One vote per token.* `IndexInv` adds that while the server runs the unique
index exists: `CreateIndexes` can refuse to build it only over votes that
already violate it, so the induction goes through startup. Without the index
two requests can both pass `HasVoted` and both insert, so the theorem and the run
`Faults` exclude the fault `"index"`.

*Counters.* `AccountInv` relates three pieces of state: the votes ever inserted,
the counters, and the handlers between the insert and `HINCRBY`. It needs that
an inserted vote belongs to a request past the insert, and conversely that a
request at or before it has inserted nothing, so that an insert adds exactly one
element to the set that is counted and `HINCRBY` moves exactly one across.

*The life of a poll.* Lemmas say once what a step can do to a poll (keep it,
open it, change it in place, remove it) and to the votes (keep, insert one,
remove some of one poll), so that no proof goes through all actions again.
`LifeInv` is what the handlers add: one that is past the ownership check holds
a document whose creator is its user and whose poll, if it is still there, has
that creator; an answer that says that voting is over was given when it was;
and a stored vote belongs to a request past its insert with no answer that
refuses. The five properties follow from it and from these lemmas; four of them are
about steps.

*The ledger.* `VoteLedger` admits a vote while its poll is open, decides it later,
and removes votes only after the creator has asked for the deletion. An admitted
vote is pending in the mapping from the status check to the insert. The proof has
a lemma per step of the ledger and one for a stutter, and each action of `Backend`
is one of them: admission is the load of `Cast`, recording its insert, dropping a
refused insert, a failure or a crash, and the deletion of a poll and that of its votes
are two steps. A failed insert that took effect is a recording. The unique index
is what makes recording one per token, hence the hypothesis.

*Events.* `BoundInv` bounds every counter by the number of votes past their
insert whose `HINCRBY` may have run, times `MostTimes`; what is read and published
was a counter once, and the set of inserted votes only grows. `CurrentInv`
says that a poll with votes has an event as current as its counters or a handler that
is about to read them or holds counts that still match: whoever moves a
counter is such a handler itself, so the last one to read publishes them as they are.
For `ReadsAreFresh`, `OptionsInv` adds that a poll has one set of options for good: the
stored document, the copies of the handlers and the votes agree with it, so a
reader's copy has an entry for every vote.

*Hub.* `NoPanic` needs that a client registers at most once and, once its channel
is closed, is in no room, in no registration and not among the targets of the
fan-out in progress: the last holds because the hub serves no unregistration
during a fan-out. `PublishedInv` bounds the sequence numbers. `CapacityInv` gives the
stages of the hub and the bounds of the channels. `DeliveryInv` is the equation of
`NothingLostOnTheWay` from before the connection is opened until it breaks: a message is
appended to `due` and to the targets in one step, moves from the fan-out to the send
buffer, from there to the frame of `WritePump` and to what was received, and each
move leaves the concatenation as it is.

*Session.* `TypeOK` and "two identifiers never share an address" are inductive.
What a tab shows is not: `SessionInv` adds that a tab with the spinner shows
nobody and has one open `me()`, which carries the stored token unless another
tab has replaced it; and that an open form belongs to a tab without the spinner,
because the layouts of `App` hide the forms behind it. So a sign-in can never
overtake the `me()` of its own tab, and every answer keeps `user` and the storage
together. A step that only answers or ends calls keeps all of this (`QuietStep`).
The action property `NewTokensSurvive` follows from the same invariant.

*Live pages.* `PageInv` has a part per piece of state. `HookInv` follows the hook
through `Connect`, `Cleanup` and `Rerun`: `Follows` is that the live connection is the one in
`hook.ws` or there is none, and exactly one of connection, timer and giving up
holds; `Drained` that the last count on the way or shown is the current one.
`LoadInv` and `VoteInv` say what the calls in flight are about: a load belongs to the
mounted page, its total is at most the poll's, a vote of this page is for its poll and
is stored when it says so. `CloseInv`: a close in flight belongs to the mounted manage
page, though not always to the poll it shows. `ShownInv` says what the page can have
displayed. `ResultsOfThisPoll` is an action property, proved with one lemma
for each kind of step that may change what is shown (`NetworkMixes`, `LoadMixes`,
`VoteMixes`, `CloseMixes`) and one for all other steps (`OtherStepsMix`). Lemmas
about the hook's operators are proved for any hook, so that the effects of React that
run them in one step compose.

*Creator pages.* `CallInv` says what a call in flight knows: an answered close found its
poll closed or gone, an answered delete found it gone, a call whose answer is still
awaited belongs to the mounted page. `LoadingInv`: a dashboard that loads has one
list call and no card to act on. `CardInv` is the strengthening of `ListIsStored`: a
card that differs from the store has a call on the way that will set it right.
`FormInv`: a form has one creation in flight and none once it has made its poll, which
is what the disabled button buys. What is shown as closed is tied to `shown`, the
poll object, not to the route: after a jump the two differ, and a close that answers
then sets both the object and its status. `CreatedOptionsDiffer` is about the data:
the loop of `Validate` keeps that its identifiers and texts are in `seen` and that
two equal identifiers have exactly one suffix between them, because a suffix is
`i` times `x` after the slug and so differs from place to place.

*Recursion.* The library's induction theorems take an operator as a parameter,
which the installed provers cannot instantiate. Where a proof is about a recursive
function (`FlattenSeq` in the hub, `Loop` and `Filled` in the form) it takes
the set of numbers at which the claim fails and its least member, which
well-foundedness of `<` on the naturals gives for a set (`LeastNumber`). For this,
`Filled` is a recursive function, as `SelectSeq` has no definition that can be
unfolded, and texts are over a set of symbols.

*Only model-checked.* Liveness is outside the prover's reach, as it needs fairness and
ENABLED: `LeaversEnd`, `BroadcastReaches`, `HubCatchesUp`, `SpinnerEnds`, `SubmitEnds`,
`Settles`, `WaitingEnds` and `PagesSettle` are checked on the instances of section 3.
So are the five runs that end in a violation.

## 5. Not modelled, and the plan

Not modelled: password hashing, token signing, CORS, configuration, charts and
styles, deployment. Read-only endpoints add no interleaving that `GetResults` does
not have. `usePoll`, `pollService.update` and `InitRedisCounters` have no caller.
Copying a share link changes nothing that is modelled. The live results of
the manage page are in `LivePage`, its dialogs and its deletion in `CreatorPages`. The
load, the close and the jump between two manage pages concern both and are in both:
what they do to counts and connection is in the first, what they do to dialogs, busy
flags, the poll object and what is stored in the second. Deleting from the manage
page leaves it, as `Leave` does in `LivePage`.

Planned, in this order:

1. The composition of `LivePage` with `Hub`, to replace its events on the way by
   the hub's rooms and buffers.
2. The lemmas about functions, `EXCEPT` and least counterexamples, which several
   proof modules state for themselves, in one place.
