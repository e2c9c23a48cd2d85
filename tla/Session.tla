------------------------------ MODULE Session ------------------------------
(***************************************************************************)
(* Signing up, in and out: browser tabs that share one local storage and   *)
(* each keep a copy of the signed-in user, over the account service.       *)
(***************************************************************************)
EXTENDS Naturals, FiniteSets

CONSTANTS
    Tabs,       \* tabs of one browser
    Emails,     \* addresses, trimmed and in lower case as Validate leaves them
    MaxUsers,   \* bound: how many accounts can be inserted
    MaxCalls,   \* bound: how many HTTP calls can be in flight
    None        \* no user, no token, no call

ASSUME SessionAssumption ==
    /\ MaxUsers \in Nat
    /\ MaxCalls \in Nat
    /\ None \notin 1 .. MaxUsers
    /\ None \notin Tabs \cup Emails

UserIds == 1 .. MaxUsers
Slots == 1 .. MaxCalls

GuestPages == {"login", "signup"}
Protected == {"dashboard"}
Pages == {"landing"} \cup GuestPages \cup Protected

VARIABLES
    users,      \* users collection: the address of each identifier in use
    emailIndex, \* whether the unique index on email could be created
    token,      \* pulsepoll_auth_token in local storage, as the account it names
    page,       \* the route each tab is on
    user,       \* AuthProvider's user in each tab
    loading,    \* AuthProvider's isLoading
    busy,       \* isLoading of the mounted form
    call,       \* the HTTP calls in flight
    foreign     \* history: the tabs whose storage another tab has changed

accounts == <<users, emailIndex>>
tabs == <<page, user, loading, busy>>
vars == <<accounts, token, tabs, call, foreign>>

\* A call: `tab` is None once its page was reloaded, `mounted` says whether the
\* form that made it is still there; it is answered with a user or with an error.
Call == [kind : {"me"} \cup GuestPages, tab : Tabs \cup {None},
         mounted : BOOLEAN, token : UserIds \cup {None},
         email : Emails \cup {None}, stage : {"find", "insert", "answered"},
         user : UserIds \cup {None}]

\* Nobody has signed in yet: a tab that finds no token is done starting.
Init ==
    /\ users = [i \in UserIds |-> None]
    /\ emailIndex \in BOOLEAN
    /\ token = None
    /\ page = [t \in Tabs |-> "landing"]
    /\ user = [t \in Tabs |-> None]
    /\ loading = [t \in Tabs |-> FALSE]
    /\ busy = [t \in Tabs |-> FALSE]
    /\ call = [c \in Slots |-> None]
    /\ foreign = {}

InFlight(c) == call[c] # None

\* The slot that the next call takes.
FreeSlot(c) == ~InFlight(c) /\ \A d \in 1 .. c - 1 : InFlight(d)

-----------------------------------------------------------------------------
\* The account service.

Registered(e) == {i \in UserIds : users[i] = e}

\* Mutant of EmailRefused: createIndexes forgets SetUnique(true).
EmailAccepted(e) == FALSE

\* What InsertOne answers with a duplicate key error.
EmailRefused(e) == emailIndex /\ Registered(e) # {}

\* The answer of call c, whose body has done its work: user i, or an error.
Answer(c, i) ==
    call' = [call EXCEPT ![c].stage = "answered", ![c].user = i, ![c].email = None]

\* AuthRequired and Me: the token may have expired; its owner is found, because
\* accounts are never removed.
ServeMe(c) ==
    /\ call[c].kind = "me"
    /\ call[c].stage = "find"
    /\ Answer(c, call[c].token)
    /\ UNCHANGED accounts

\* Login with the password of some account of that address.
ServeLogin(c) ==
    /\ call[c].kind = "login"
    /\ call[c].stage = "find"
    /\ \E i \in Registered(call[c].email) : Answer(c, i)
    /\ UNCHANGED accounts

\* Signup looks the address up in one call and inserts in another.
SignupFind(c) ==
    /\ call[c].kind = "signup"
    /\ call[c].stage = "find"
    /\ Registered(call[c].email) = {}
    /\ call' = [call EXCEPT ![c].stage = "insert"]
    /\ UNCHANGED accounts

NewAccount(c, i) ==
    /\ users[i] = None
    /\ \A j \in 1 .. i - 1 : users[j] # None
    /\ users' = [users EXCEPT ![i] = call[c].email]
    /\ UNCHANGED emailIndex

\* The insert may take effect although its answer is lost.
SignupInsert(c) ==
    /\ call[c].kind = "signup"
    /\ call[c].stage = "insert"
    /\ ~EmailRefused(call[c].email)
    /\ \E i \in UserIds : NewAccount(c, i) /\ (Answer(c, i) \/ Answer(c, None))

\* The call is refused (an expired token, a wrong password, a known or unknown
\* address, a duplicate key), or fails before it has any effect.
CallFails(c) ==
    /\ call[c].stage # "answered"
    /\ Answer(c, None)
    /\ UNCHANGED accounts

Serve(c) ==
    /\ InFlight(c)
    /\ ServeMe(c) \/ ServeLogin(c) \/ SignupFind(c) \/ SignupInsert(c) \/ CallFails(c)
    /\ UNCHANGED <<token, tabs, foreign>>

-----------------------------------------------------------------------------
\* The tabs.

\* Mutant of Routed: the guest layout redirects to a path that is no route.
RoutedHome(p, u, l) ==
    IF l THEN p
    ELSE IF p \in GuestPages /\ u # None THEN "home"
    ELSE IF p \in Protected /\ u = None THEN "login"
    ELSE p

\* The routes with their layouts: where a tab ends up that asks for page p.
Routed(p, u, l) ==
    IF l THEN p
    ELSE IF p \in GuestPages /\ u # None THEN "dashboard"
    ELSE IF p \in Protected /\ u = None THEN "login"
    ELSE p

\* The calls of tab t lose who waits for them, and only a signup still matters;
\* or they lose the form that made them.
Abandoned(t) ==
    [c \in Slots |-> IF ~InFlight(c) \/ call[c].tab # t THEN call[c]
                     ELSE IF call[c].kind = "signup"
                          THEN [call[c] EXCEPT !.tab = None, !.mounted = FALSE]
                          ELSE None]
Unmounted(cs, t) ==
    [c \in Slots |-> IF cs[c] # None /\ cs[c].tab = t
                     THEN [cs[c] EXCEPT !.mounted = FALSE] ELSE cs[c]]

MeCall(t) ==
    [kind |-> "me", tab |-> t, mounted |-> FALSE, token |-> token, email |-> None,
     stage |-> "find", user |-> None]

\* Mutant of Start: no else branch, so isLoading stays true without a token.
StartWaiting(t, p) ==
    /\ user' = [user EXCEPT ![t] = None]
    /\ busy' = [busy EXCEPT ![t] = FALSE]
    /\ loading' = [loading EXCEPT ![t] = TRUE]
    /\ \/ token = None /\ call' = Abandoned(t)
       \/ /\ token # None
          /\ \E c \in Slots : FreeSlot(c) /\ call' = [Abandoned(t) EXCEPT ![c] = MeCall(t)]
    /\ page' = [page EXCEPT ![t] = p]
    /\ foreign' = foreign \ {t}
    /\ UNCHANGED <<accounts, token>>

\* Mutant of Start: isLoading starts as false.
StartIdle(t, p) ==
    /\ user' = [user EXCEPT ![t] = None]
    /\ busy' = [busy EXCEPT ![t] = FALSE]
    /\ loading' = [loading EXCEPT ![t] = FALSE]
    /\ \/ token = None /\ call' = Abandoned(t)
       \/ /\ token # None
          /\ \E c \in Slots : FreeSlot(c) /\ call' = [Abandoned(t) EXCEPT ![c] = MeCall(t)]
    /\ page' = [page EXCEPT ![t] = Routed(p, None, FALSE)]
    /\ foreign' = foreign \ {t}
    /\ UNCHANGED <<accounts, token>>

\* A tab is opened or reloaded: AuthProvider mounts and asks whose the stored
\* token is.
Start(t, p) ==
    /\ user' = [user EXCEPT ![t] = None]
    /\ busy' = [busy EXCEPT ![t] = FALSE]
    /\ loading' = [loading EXCEPT ![t] = token # None]
    /\ \/ token = None /\ call' = Abandoned(t)
       \/ /\ token # None
          /\ \E c \in Slots : FreeSlot(c) /\ call' = [Abandoned(t) EXCEPT ![c] = MeCall(t)]
    /\ page' = [page EXCEPT ![t] = Routed(p, None, token # None)]
    /\ foreign' = foreign \ {t}
    /\ UNCHANGED <<accounts, token>>

\* A link, or the browser's back button: another page mounts.
Visit(t, p) ==
    /\ p # page[t]
    /\ page' = [page EXCEPT ![t] = Routed(p, user[t], loading[t])]
    /\ busy' = [busy EXCEPT ![t] = FALSE]
    /\ call' = Unmounted(call, t)
    /\ UNCHANGED <<accounts, token, user, loading, foreign>>

SignInCall(t, k, e) ==
    [kind |-> k, tab |-> t, mounted |-> TRUE, token |-> None, email |-> e,
     stage |-> "find", user |-> None]

\* handleSubmit of Login and Signup, behind the spinner and the disabled button.
Submit(t, e) ==
    /\ page[t] \in GuestPages
    /\ ~loading[t]
    /\ ~busy[t]
    /\ \E c \in Slots :
          FreeSlot(c) /\ call' = [call EXCEPT ![c] = SignInCall(t, page[t], e)]
    /\ busy' = [busy EXCEPT ![t] = TRUE]
    /\ UNCHANGED <<accounts, token, page, user, loading, foreign>>

\* Tab t writes k to the storage, whose other readers are not told.
Store(t, k) ==
    /\ token' = k
    /\ foreign' = IF k = token THEN foreign \ {t} ELSE Tabs \ {t}

Done(c) == [call EXCEPT ![c] = None]

\* me() answers at the start of a tab.
MeAnswers(c, t) ==
    /\ call[c].kind = "me"
    /\ user' = [user EXCEPT ![t] = call[c].user]
    /\ loading' = [loading EXCEPT ![t] = FALSE]
    /\ page' = [page EXCEPT ![t] = Routed(page[t], call[c].user, FALSE)]
    /\ IF call[c].user # None THEN UNCHANGED <<token, foreign>> ELSE Store(t, None)
    /\ call' = Done(c)
    /\ UNCHANGED busy

\* login() or signup() succeeds: the token and the user are set, and the page
\* that asked goes to the dashboard, wherever the tab is by then.
SignedIn(c, t) ==
    /\ call[c].kind # "me"
    /\ call[c].user # None
    /\ Store(t, call[c].user)
    /\ user' = [user EXCEPT ![t] = call[c].user]
    /\ page' = [page EXCEPT ![t] = "dashboard"]
    /\ busy' = [busy EXCEPT ![t] = FALSE]
    /\ call' = Unmounted(Done(c), t)
    /\ UNCHANGED loading

\* Mutant of NotSignedIn: no finally around the call.
NotSignedInStuck(c, t) ==
    /\ call[c].kind # "me"
    /\ call[c].user = None
    /\ call' = Done(c)
    /\ UNCHANGED <<token, page, user, loading, busy, foreign>>

\* It fails: the form shows the error and can be sent again.
NotSignedIn(c, t) ==
    /\ call[c].kind # "me"
    /\ call[c].user = None
    /\ busy' = [busy EXCEPT ![t] = @ /\ ~call[c].mounted]
    /\ call' = Done(c)
    /\ UNCHANGED <<token, page, user, loading, foreign>>

Answers(c) ==
    /\ InFlight(c)
    /\ call[c].stage = "answered"
    /\ \/ /\ call[c].tab = None
          /\ call' = Done(c)
          /\ UNCHANGED <<token, tabs, foreign>>
       \/ /\ call[c].tab # None
          /\ \/ MeAnswers(c, call[c].tab)
             \/ SignedIn(c, call[c].tab)
             \/ NotSignedIn(c, call[c].tab)
    /\ UNCHANGED accounts

\* Mutant of Logout: the token stays in the storage.
LogoutHere(t) ==
    /\ page[t] \in {"landing", "dashboard"}
    /\ user[t] # None
    /\ user' = [user EXCEPT ![t] = None]
    /\ page' = [page EXCEPT ![t] = "landing"]
    /\ UNCHANGED <<accounts, token, loading, busy, call, foreign>>

\* handleLogout of Navbar and Sidebar.
Logout(t) ==
    /\ page[t] \in {"landing", "dashboard"}
    /\ user[t] # None
    /\ Store(t, None)
    /\ user' = [user EXCEPT ![t] = None]
    /\ page' = [page EXCEPT ![t] = "landing"]
    /\ UNCHANGED <<accounts, loading, busy, call>>

Next ==
    \/ \E t \in Tabs : \/ \E p \in Pages : Start(t, p) \/ Visit(t, p)
                       \/ \E e \in Emails : Submit(t, e)
                       \/ Logout(t)
    \/ \E c \in Slots : Serve(c) \/ Answers(c)

Spec == Init /\ [][Next]_vars

\* Every HTTP call ends: the server bounds its database calls, the browser
\* gives up on a connection, and then the awaiting code runs.
FairSpec == Spec /\ \A c \in Slots : WF_vars(Serve(c)) /\ WF_vars(Answers(c))

-----------------------------------------------------------------------------
\* Properties.

\* The states of the model, of which no route but those of App is one.
TypeOK ==
    /\ users \in [UserIds -> Emails \cup {None}]
    /\ emailIndex \in BOOLEAN
    /\ token \in UserIds \cup {None}
    /\ page \in [Tabs -> Pages]
    /\ user \in [Tabs -> UserIds \cup {None}]
    /\ loading \in [Tabs -> BOOLEAN]
    /\ busy \in [Tabs -> BOOLEAN]
    /\ call \in [Slots -> Call \cup {None}]
    /\ foreign \subseteq Tabs

\* A tab that has started shows the account whose token its calls carry, or
\* nobody when there is none, unless another tab has signed in or out since:
\* whatever sign-ins of abandoned forms are answered late, and in which order.
ShowsWhoItActsAs ==
    \A t \in Tabs :
       ~loading[t] /\ t \notin foreign
          => user[t] = token

LogsOut(t) == user[t] # None /\ user'[t] = None /\ UNCHANGED call

\* The stored token is removed by a logout, or by a tab whose own me() has
\* failed with it: no late failure of an older token removes a newer one,
\* unless the newer one came from another tab.
NewTokensSurvive ==
    [][token # None /\ token' = None =>
          \E t \in Tabs :
             \/ LogsOut(t)
             \/ \E c \in Slots : /\ InFlight(c) /\ call'[c] = None
                                 /\ call[c].kind = "me" /\ call[c].tab = t
                                 /\ call[c].token = token \/ t \in foreign]_vars

\* With the unique index no address ever has two accounts, although Signup
\* looks first and inserts later.
OneAccountPerEmail ==
    emailIndex => \A e \in Emails : Cardinality(Registered(e)) <= 1

Reloads(t) == \E p \in Pages : Start(t, p)

\* A tab that is not reloaded for ever does not show the spinner for ever: me()
\* fails or succeeds, and isLoading is cleared either way.
SpinnerEnds ==
    \A t \in Tabs : <>[][~Reloads(t)]_vars => []<>(~loading[t])

\* A form that was sent is answered, left, or can be sent again.
SubmitEnds == \A t \in Tabs : []<>(~busy[t])
=============================================================================
