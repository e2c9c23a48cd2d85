---------------------------- MODULE CreatorPages ----------------------------
(***************************************************************************)
(* A creator's tab on Dashboard, CreatePoll or ManagePoll, the calls it    *)
(* makes to the poll service, and the same creator at another place.       *)
(***************************************************************************)
EXTENDS PollValidator

CONSTANTS
    Polls,     \* 1 .. n: identifiers, in the order they are handed out
    Drafts,    \* option texts that are typed into the form
    Linked,    \* bound: polls that the history leads to from another's page
    MaxCalls,  \* bound: calls in flight
    None       \* no poll, no call

ASSUME CreatorPagesAssumption ==
    /\ \E n \in 1 .. Cardinality(Polls) : Polls = 1 .. n
    /\ Linked \subseteq Polls
    /\ MaxCalls \in Nat
    /\ \A d \in Drafts : d \in Seq(Text)

VARIABLES
    db,       \* the status of each poll; "absent" before and "gone" after it
    page,     \* the state of the mounted page
    call,     \* the calls in flight
    touched   \* history: polls changed behind the dashboard since its list was read

vars == <<db, page, call, touched>>

Slots == 1 .. MaxCalls
Exists(p) == db[p] \in {"active", "closed"}

\* What a page can show of a poll.
Stored(p) == IF Exists(p) THEN db[p] ELSE "none"
Shows == {"none", "active", "closed"}
Nothing == [p \in Polls |-> "none"]

Places == {"dashboard", "create", "manage", "crashed"}
MaybePoll == Polls \cup {None}

Page ==
    [at : Places, loading : BOOLEAN, list : [Polls -> Shows], asked : MaybePoll,
     poll : MaybePoll, shown : MaybePoll, status : Shows, askDelete : BOOLEAN,
     askClose : BOOLEAN, deleting : BOOLEAN, closing : BOOLEAN, creating : BOOLEAN,
     created : MaybePoll, made : Nat, lost : BOOLEAN]

Call ==
    [kind : {"list", "load", "close", "delete", "create"}, from : Places,
     poll : MaybePoll, draft : Seq(Text), live : BOOLEAN, ids : Seq(Text),
     stage : {"sent", "set", "found", "answered"},
     reply : Shows \cup {"ok", "failed"}, list : [Polls -> Shows]]

ASSUME NoneAssumption == None \notin Polls /\ None \notin Call

\* `poll` is the route's identifier, `shown` and `status` are the poll object.
\* `made` and `lost` are history: polls made from this form, and whether the
\* answer of one was lost.
Fresh(at, p) ==
    [at |-> at, loading |-> at # "create", list |-> Nothing, asked |-> None,
     poll |-> p, shown |-> None, status |-> "none", askDelete |-> FALSE,
     askClose |-> FALSE, deleting |-> FALSE, closing |-> FALSE, creating |-> FALSE,
     created |-> None, made |-> 0, lost |-> FALSE]

NewCall(kind, p, d) ==
    [kind |-> kind, from |-> page.at, poll |-> p, draft |-> d, live |-> TRUE,
     ids |-> <<>>, stage |-> "sent", reply |-> "none", list |-> Nothing]

Init ==
    /\ db \in [Polls -> {"absent", "active"}]
    /\ \A p \in Polls \ {1} : db[p] # "absent" => db[p - 1] # "absent"
    /\ page = Fresh("create", None)
    /\ call = [c \in Slots |-> None]
    /\ touched = {}

InFlight(c) == call[c] # None
FreeSlot(cs, c) == cs[c] = None /\ \A d \in 1 .. c - 1 : cs[d] # None

\* What calls navigate("/dashboard") when it succeeds.
Navigates(k) == k.kind = "delete" /\ k.from = "manage"

\* The page unmounts: reads and answers are forgotten, for they can only set its
\* state; a write goes on unwatched, and so does what navigates.
Unwatched ==
    [c \in Slots |->
        IF ~InFlight(c) THEN None
        ELSE IF Navigates(call[c]) THEN [call[c] EXCEPT !.live = FALSE]
        ELSE IF call[c].kind \in {"list", "load"} \/ call[c].stage = "answered" THEN None
        ELSE [call[c] EXCEPT !.live = FALSE]]

-----------------------------------------------------------------------------
\* Navigation.

\* Another page mounts and loads, with cs the other calls.
Mount(at, p, cs) ==
    /\ page' = Fresh(at, p)
    /\ \/ at = "create" /\ call' = cs
       \/ /\ at # "create"
          /\ \E c \in Slots :
                /\ FreeSlot(cs, c)
                /\ call' = [cs EXCEPT ![c] =
                      [NewCall(IF at = "manage" THEN "load" ELSE "list", p, <<>>)
                         EXCEPT !.from = at]]

\* The sidebar, a card's menu, or the history; a blank page has to be reloaded.
Visit(at, p) ==
    /\ at # page.at
    /\ IF at = "manage" THEN p # None /\ db[p] # "absent" ELSE p = None
    /\ Mount(at, p, Unwatched)
    /\ UNCHANGED <<db, touched>>

\* The history leads to another poll's page: ManagePoll stays mounted with all
\* it shows, asks and waits for, and loads.
Jump(c, p) ==
    /\ page.at = "manage" /\ p \in Linked \ {page.poll} /\ db[p] # "absent"
    /\ FreeSlot(call, c)
    /\ call' = [call EXCEPT ![c] = NewCall("load", p, <<>>)]
    /\ page' = [page EXCEPT !.poll = p]
    /\ UNCHANGED <<db, touched>>

\* Mutant of CloseShare: the identifier of the new poll is not kept.
CloseShareNowhere ==
    /\ page.at = "create" /\ page.created # None
    /\ Mount("manage", None, Unwatched)
    /\ UNCHANGED <<db, touched>>

\* Closing the share dialog leads to the new poll's page.
CloseShare ==
    /\ page.at = "create" /\ page.created # None
    /\ Mount("manage", page.created, Unwatched)
    /\ UNCHANGED <<db, touched>>

-----------------------------------------------------------------------------
\* What the user does on a page.

Send(c, k) == FreeSlot(call, c) /\ call' = [call EXCEPT ![c] = k]

\* The cards of the dashboard, which has none while it loads.
Cards == {p \in Polls : page.at = "dashboard" /\ page.list[p] # "none"}

\* The delete entry of a card, and the dialog's way out.
AskDelete(p) ==
    /\ p \in Cards /\ page.asked = None
    /\ page' = [page EXCEPT !.asked = p]
    /\ UNCHANGED <<db, call, touched>>

CancelDelete ==
    /\ page.at = "dashboard" /\ page.asked # None
    /\ page' = [page EXCEPT !.asked = None]
    /\ UNCHANGED <<db, call, touched>>

\* The dialog's action closes it at once; handleDelete keeps its poll.
ConfirmDelete(c) ==
    /\ page.at = "dashboard" /\ page.asked # None /\ ~page.deleting
    /\ Send(c, NewCall("delete", page.asked, <<>>))
    /\ page' = [page EXCEPT !.asked = None, !.deleting = TRUE]
    /\ UNCHANGED <<db, touched>>

\* handleClose of Dashboard, for each card that shows an active poll.
CloseCard(c, p) ==
    /\ p \in Cards /\ page.list[p] = "active" /\ page.asked = None
    /\ Send(c, NewCall("close", p, <<>>))
    /\ UNCHANGED <<db, page, touched>>

\* ManagePoll opens one of its dialogs, both closed by their actions.
AskOnPage ==
    /\ page.at = "manage" /\ page.status # "none" /\ ~page.askDelete /\ ~page.askClose
    /\ \/ page' = [page EXCEPT !.askDelete = TRUE]
       \/ page.status = "active" /\ page' = [page EXCEPT !.askClose = TRUE]
    /\ UNCHANGED <<db, call, touched>>

CancelOnPage ==
    /\ page.askDelete \/ page.askClose
    /\ page' = [page EXCEPT !.askDelete = FALSE, !.askClose = FALSE]
    /\ UNCHANGED <<db, call, touched>>

DeleteOnPage(c) ==
    /\ page.askDelete /\ ~page.deleting /\ page.status # "none"
    /\ Send(c, NewCall("delete", page.shown, <<>>))
    /\ page' = [page EXCEPT !.askDelete = FALSE, !.deleting = TRUE]
    /\ UNCHANGED <<db, touched>>

CloseOnPage(c) ==
    /\ page.askClose /\ ~page.closing /\ page.status # "none"
    /\ Send(c, NewCall("close", page.shown, <<>>))
    /\ page' = [page EXCEPT !.askClose = FALSE, !.closing = TRUE]
    /\ UNCHANGED <<db, touched>>

\* filledOptions: the rows that are not blank.
Filled(d) ==
    LET rows[n \in 0 .. Len(d)] ==
          IF n = 0 THEN <<>>
          ELSE IF TrimSpace(d[n]) = <<>> THEN rows[n - 1] ELSE Append(rows[n - 1], d[n])
    IN rows[Len(d)]

\* Mutant of Submit: the button is not disabled.
SubmitTwice(c, d) ==
    /\ page.at = "create" /\ page.created = None
    /\ Len(Filled(d)) >= 2
    /\ Send(c, NewCall("create", None, Filled(d)))
    /\ page' = [page EXCEPT !.creating = TRUE]
    /\ UNCHANGED <<db, touched>>

\* handleSubmit of CreatePoll, with a title and two options that are not blank.
Submit(c, d) ==
    /\ page.at = "create" /\ page.created = None /\ ~page.creating
    /\ Len(Filled(d)) >= 2
    /\ Send(c, NewCall("create", None, Filled(d)))
    /\ page' = [page EXCEPT !.creating = TRUE]
    /\ UNCHANGED <<db, touched>>

-----------------------------------------------------------------------------
\* The poll service.

Goto(c, stage) == call' = [call EXCEPT ![c].stage = stage]

\* A call is answered, if anything is to come of it.
Reply(c, k) ==
    call' = [call EXCEPT ![c] = IF k.live \/ Navigates(k) THEN [k EXCEPT !.stage = "answered"]
                                ELSE None]
Says(c, r) == Reply(c, [call[c] EXCEPT !.reply = r])

\* A change of poll p that no mounted page waits for.
Touch(c, p) == touched' = IF call[c].live THEN touched ELSE touched \cup {p}

ServeList(c) ==
    /\ call[c].kind = "list" /\ call[c].stage = "sent"
    /\ Reply(c, [call[c] EXCEPT !.reply = "ok", !.list = [p \in Polls |-> Stored(p)]])
    /\ touched' = {}
    /\ UNCHANGED <<db, page>>

ServeLoad(c) ==
    /\ call[c].kind = "load" /\ call[c].stage = "sent"
    /\ Says(c, IF Exists(call[c].poll) THEN db[call[c].poll] ELSE "failed")
    /\ UNCHANGED <<db, page, touched>>

\* Close finds the poll and sets its status; a deletion in between has the
\* outcome of one after both.
ServeClose(c) ==
    /\ call[c].kind = "close" /\ call[c].stage = "sent"
    /\ Exists(call[c].poll)
    /\ db' = [db EXCEPT ![call[c].poll] = "closed"]
    /\ Goto(c, "set")
    /\ Touch(c, call[c].poll)
    /\ UNCHANGED page

\* Mutant of Reloaded: a closed poll is not found.
ReloadedActive(p) == IF db[p] = "active" THEN "active" ELSE "none"

\* FindByID once more, null when the poll is gone.
Reloaded(p) == Stored(p)

ServeReload(c) ==
    /\ call[c].kind = "close" /\ call[c].stage = "set"
    /\ Says(c, Reloaded(call[c].poll))
    /\ UNCHANGED <<db, page, touched>>

\* Delete finds the poll, purges its votes and removes it.
ServeDelete(c) ==
    /\ call[c].kind = "delete"
    /\ \/ /\ call[c].stage = "sent" /\ Exists(call[c].poll)
          /\ Goto(c, "found")
          /\ UNCHANGED <<db, touched>>
       \/ /\ call[c].stage = "found"
          /\ db' = [db EXCEPT ![call[c].poll] = "gone"]
          /\ Says(c, "ok")
          /\ Touch(c, call[c].poll)
    /\ UNCHANGED page

\* The identifiers that each draft's options get, none if it is refused.
Validated == [texts \in {Filled(d) : d \in Drafts} |-> Validate(texts)]

\* Create validates and inserts.
ServeCreate(c) ==
    /\ call[c].kind = "create" /\ call[c].stage = "sent"
    /\ \E p \in Polls, ids \in {Validated[call[c].draft]} \ {<<>>} :
          /\ db[p] = "absent" /\ \A q \in 1 .. p - 1 : db[q] # "absent"
          /\ db' = [db EXCEPT ![p] = "active"]
          /\ Reply(c, [call[c] EXCEPT !.reply = "ok", !.poll = p, !.ids = ids])
          /\ Touch(c, p)
    /\ page' = IF call[c].live THEN [page EXCEPT !.made = @ + 1] ELSE page

\* A poll that is not found, an invalid request, a database error, no network.
CallFails(c) ==
    /\ call[c].stage \in {"sent", "found"}
    /\ Says(c, "failed")
    /\ UNCHANGED <<db, page, touched>>

\* A change took effect, and its answer is an error or is lost.
AnswerLost(c) ==
    /\ call[c].kind \in {"close", "delete", "create"}
    /\ call[c].stage = "set" \/ call[c].reply \notin {"none", "failed"}
    /\ Says(c, "failed")
    /\ touched' = touched \cup {call[c].poll}
    /\ page' = IF call[c].live THEN [page EXCEPT !.lost = TRUE] ELSE page
    /\ UNCHANGED db

Serve(c) ==
    /\ InFlight(c)
    /\ \/ ServeList(c) \/ ServeLoad(c) \/ ServeClose(c) \/ ServeReload(c)
       \/ ServeDelete(c) \/ ServeCreate(c) \/ CallFails(c) \/ AnswerLost(c)

\* The creator closes or deletes a poll in another tab.
Elsewhere(p) ==
    /\ \/ db[p] = "active" /\ db' = [db EXCEPT ![p] = "closed"]
       \/ Exists(p) /\ db' = [db EXCEPT ![p] = "gone"]
    /\ touched' = touched \cup {p}
    /\ UNCHANGED <<page, call>>

-----------------------------------------------------------------------------
\* The answers.

Done(c) == [call EXCEPT ![c] = None]

ListAnswers(c) ==
    /\ call[c].kind = "list"
    /\ page' = [page EXCEPT !.list = call[c].list, !.loading = FALSE]
    /\ touched' = IF call[c].reply = "ok" THEN touched ELSE Polls
    /\ call' = Done(c)

\* ManagePoll shows the poll a call answered, whichever poll its route asks for
\* by now; null leaves nothing to see.
Showing(c) ==
    IF call[c].reply = "failed" THEN page
    ELSE [page EXCEPT !.shown = call[c].poll, !.status = call[c].reply]

\* getById; the results of the page are another module's.
LoadAnswers(c) ==
    /\ call[c].kind = "load"
    /\ page' = [Showing(c) EXCEPT !.loading = FALSE]
    /\ call' = Done(c)
    /\ UNCHANGED touched

\* Dashboard maps the card; with a card left, reading the identifier of null
\* throws while React renders, and no error boundary keeps the rest of the app.
CardClosed(c) ==
    /\ call[c].kind = "close" /\ call[c].from = "dashboard"
    /\ \/ /\ call[c].reply = "failed" \/ (call[c].reply = "none" /\ page.list = Nothing)
          /\ UNCHANGED page /\ call' = Done(c)
       \/ /\ call[c].reply = "none" /\ page.list # Nothing
          /\ page' = [Fresh("crashed", None) EXCEPT !.loading = FALSE]
          /\ call' = [d \in Slots |->
                IF d = c \/ Unwatched[d] = None THEN None
                ELSE IF call[d].stage = "answered" THEN None
                ELSE [Unwatched[d] EXCEPT !.from = "crashed"]]
       \/ /\ call[c].reply \in {"active", "closed"}
          /\ page' = [page EXCEPT !.list[call[c].poll] =
                                     IF @ = "none" THEN @ ELSE call[c].reply]
          /\ call' = Done(c)
    /\ UNCHANGED touched

\* Mutant of Without: the card is found by the dialog's poll of now.
WithoutAsked(l, p) ==
    IF page.asked = None THEN l ELSE [l EXCEPT ![page.asked] = "none"]

\* prev.filter
Without(l, p) == [l EXCEPT ![p] = "none"]

\* Success closes the dialog, whatever it asks by now.
CardDeleted(c) ==
    /\ call[c].kind = "delete" /\ call[c].from = "dashboard"
    /\ page' = IF call[c].reply = "ok"
               THEN [page EXCEPT !.list = Without(page.list, call[c].poll), !.asked = None,
                                 !.deleting = FALSE]
               ELSE [page EXCEPT !.deleting = FALSE]
    /\ call' = Done(c)
    /\ UNCHANGED touched

\* Mutant of PageClosed: no finally.
PageClosedStuck(c) ==
    /\ call[c].kind = "close" /\ call[c].from = "manage"
    /\ page' = IF call[c].reply = "failed" THEN page
               ELSE [Showing(c) EXCEPT !.closing = FALSE, !.askClose = FALSE]
    /\ call' = Done(c)
    /\ UNCHANGED touched

\* Mutant of PageClosed: the answer sets the status of the poll shown by then.
PageClosedInPlace(c) ==
    /\ call[c].kind = "close" /\ call[c].from = "manage"
    /\ page' = [page EXCEPT !.closing = FALSE, !.askClose = FALSE,
                            !.status = IF call[c].reply = "failed" THEN @ ELSE call[c].reply]
    /\ call' = Done(c)
    /\ UNCHANGED touched

\* handleClose of ManagePoll.
PageClosed(c) ==
    /\ call[c].kind = "close" /\ call[c].from = "manage"
    /\ page' = [Showing(c) EXCEPT !.closing = FALSE, !.askClose = FALSE]
    /\ call' = Done(c)
    /\ UNCHANGED touched

PageNotDeleted(c) ==
    /\ call[c].kind = "delete" /\ call[c].from = "manage" /\ call[c].reply = "failed"
    /\ page' = [page EXCEPT !.deleting = FALSE]
    /\ call' = Done(c)
    /\ UNCHANGED touched

\* The tab goes there, although the page may have been left for another.
PageDeleted(c) ==
    /\ Navigates(call[c]) /\ call[c].reply = "ok"
    /\ IF page.at = "dashboard" THEN UNCHANGED page /\ call' = Done(c)
       ELSE Mount("dashboard", None, [d \in Slots |-> IF d = c THEN None ELSE Unwatched[d]])
    /\ UNCHANGED touched

Created(c) ==
    /\ call[c].kind = "create"
    /\ page' = IF call[c].reply = "failed" THEN [page EXCEPT !.creating = FALSE]
               ELSE [page EXCEPT !.creating = FALSE,
                                 !.created = call[c].poll]
    /\ call' = Done(c)
    /\ UNCHANGED touched

Answers(c) ==
    /\ InFlight(c) /\ call[c].stage = "answered"
    /\ \/ PageDeleted(c)
       \/ call[c].live /\ (\/ ListAnswers(c) \/ LoadAnswers(c) \/ CardClosed(c)
                           \/ CardDeleted(c) \/ PageClosed(c) \/ PageNotDeleted(c)
                           \/ Created(c))
       \/ /\ ~call[c].live /\ call[c].reply = "failed"
          /\ call' = Done(c) /\ UNCHANGED <<page, touched>>
    /\ UNCHANGED db

-----------------------------------------------------------------------------
Next ==
    \/ \E p \in Polls \cup {None}, at \in {"dashboard", "create", "manage"} : Visit(at, p)
    \/ CloseShare \/ CancelDelete \/ AskOnPage \/ CancelOnPage
    \/ \E p \in Polls : AskDelete(p) \/ Elsewhere(p)
    \/ \E c \in Slots : \/ ConfirmDelete(c) \/ DeleteOnPage(c) \/ CloseOnPage(c)
                        \/ \E p \in Polls : CloseCard(c, p) \/ Jump(c, p)
                        \/ \E d \in Drafts : Submit(c, d)
                        \/ Serve(c) \/ Answers(c)

Spec == Init /\ [][Next]_vars

\* Every call ends, and then the code that awaits it runs.
FairSpec == Spec /\ \A c \in Slots : WF_vars(Serve(c) \/ Answers(c))

-----------------------------------------------------------------------------
\* Properties.

\* The states of the model: a page of one poll has a poll.
TypeOK ==
    /\ db \in [Polls -> {"absent", "active", "closed", "gone"}]
    /\ touched \subseteq Polls
    /\ page \in Page
    /\ page.at = "manage" => page.poll # None
    /\ call \in [Slots -> Call \cup {None}]

Pending(p) == \E c \in Slots : InFlight(c) /\ call[c].live /\ call[c].poll = p

\* The dashboard shows what is stored, in whatever order the closes and deletes
\* of its cards are answered: except for polls that were changed somewhere else
\* or whose answer was lost, and which nothing refreshes.
ListIsStored ==
    page.at = "dashboard" /\ ~page.loading =>
       \A p \in Polls \ touched : ~Pending(p) => page.list[p] = Stored(p)

\* What is shown as closed is closed, or deleted, and never still takes votes:
\* also on a page that closed one poll and went on to another.
ShownClosedIsClosed ==
    /\ \A p \in Polls : page.list[p] = "closed" => db[p] \in {"closed", "gone"}
    /\ page.status = "closed" => db[page.shown] \in {"closed", "gone"}

\* A form makes one poll, unless the answer of a first one was lost and the
\* creator sends it again.
OnePollPerForm == page.made <= 1 \/ page.lost

\* A create call that was answered.
MadePoll(c) == InFlight(c) /\ call[c].reply = "ok" /\ call[c].kind = "create"

\* The options of a created poll have different texts, and two of them have one
\* identifier only where a suffix met an identifier of before.
OptionsDiffer == \A c \in Slots : MadePoll(c) => NearlyUnique(call[c].draft, call[c].ids)

\* Each option of a created poll has an identifier of its own: "Add index to ensure
\* uniqueness for edge cases" (poll_validator.go:67).
OptionIdsUnique == \A c \in Slots : MadePoll(c) => IsInjective(call[c].ids)

\* The app comes down only over a poll that was deleted while its close was
\* under way.
CrashesOverDeletedPolls ==
    [][page'.at = "crashed" /\ page.at # "crashed" =>
          \E c \in Slots : InFlight(c) /\ call[c].kind = "close" /\ db[call[c].poll] = "gone"
                            /\ call'[c] = None]_vars

LeavesPage == page'.at # page.at \/ page'.poll # page.poll

\* A page that the creator does not keep leaving does not keep its skeleton, and
\* no page keeps its busy buttons or its disabled dialogs.
PagesSettle ==
    /\ []<><<LeavesPage>>_vars \/ []<>(~page.loading)
    /\ []<>(~page.deleting)
    /\ []<>(~page.closing)
    /\ []<>(~page.creating)
=============================================================================
