--------------------------- MODULE SessionProofs ---------------------------
(***************************************************************************)
(* Theorems about Session for any number of tabs, accounts and calls.      *)
(***************************************************************************)
EXTENDS Session, TLAPS, FiniteSetTheorems

Waiting(c) == InFlight(c) /\ call[c].kind = "me"

\* While a tab asks who it is, it shows nobody and only its own question is
\* open; forms come later, because the layouts hide them behind the spinner.
SpinnerShowsNobody == \A t \in Tabs : loading[t] => user[t] = None
OneQuestion == \A c, d \in Slots :
    Waiting(c) /\ Waiting(d) /\ call[c].tab = call[d].tab => c = d
FormsAfterStart == \A c \in Slots :
    InFlight(c) /\ ~Waiting(c) /\ call[c].tab # None => ~loading[call[c].tab]

\* me() carries the stored token, unless another tab has replaced it since, and
\* its answer is the owner of the token it carries.
Asks(c) ==
    /\ call[c].tab \in Tabs
    /\ loading[call[c].tab]
    /\ call[c].user \in {None, call[c].token}
    /\ call[c].tab \notin foreign => call[c].token = token
AsksForItself == \A c \in Slots : Waiting(c) => Asks(c)

SessionInv ==
    /\ TypeOK
    /\ SpinnerShowsNobody
    /\ OneQuestion
    /\ FormsAfterStart
    /\ AsksForItself
    /\ ShowsWhoItActsAs

-----------------------------------------------------------------------------
\* Types.

LEMMA InitTypeOK == Init => TypeOK
BY DEF Init, TypeOK, Pages, UserIds

LEMMA RoutedType ==
    ASSUME NEW p \in Pages, NEW u, NEW l
    PROVE  Routed(p, u, l) \in Pages
BY DEF Routed, Pages, GuestPages, Protected

LEMMA CallInFlight ==
    ASSUME TypeOK, NEW c \in Slots, InFlight(c)
    PROVE  /\ call[c] \in Call
           /\ call[c].kind \in {"me"} \cup GuestPages
           /\ call[c].tab \in Tabs \cup {None}
           /\ call[c].mounted \in BOOLEAN
           /\ call[c].token \in UserIds \cup {None}
           /\ call[c].email \in Emails \cup {None}
           /\ call[c].user \in UserIds \cup {None}
BY DEF TypeOK, InFlight, Call

LEMMA CallsAtType ==
    ASSUME NEW cs \in [Slots -> Call \cup {None}], NEW c \in Slots,
           NEW r \in Call \cup {None}
    PROVE  [cs EXCEPT ![c] = r] \in [Slots -> Call \cup {None}]
OBVIOUS

LEMMA AbandonedType ==
    ASSUME TypeOK, NEW t \in Tabs
    PROVE  Abandoned(t) \in [Slots -> Call \cup {None}]
<1>1. ASSUME NEW c \in Slots, InFlight(c)
      PROVE  [call[c] EXCEPT !.tab = None, !.mounted = FALSE] \in Call
  BY <1>1, CallInFlight DEF Call
<1>2. QED
  BY <1>1 DEF Abandoned, TypeOK

LEMMA UnmountedType ==
    ASSUME NEW cs \in [Slots -> Call \cup {None}], NEW t \in Tabs
    PROVE  Unmounted(cs, t) \in [Slots -> Call \cup {None}]
<1>1. ASSUME NEW c \in Slots, cs[c] # None
      PROVE  [cs[c] EXCEPT !.mounted = FALSE] \in Call
  <2>1. cs[c] \in Call
    BY <1>1
  <2>2. QED
    BY <2>1 DEF Call
<1>2. QED
  BY <1>1 DEF Unmounted

LEMMA AnswerType ==
    ASSUME TypeOK, NEW c \in Slots, InFlight(c),
           NEW i \in UserIds \cup {None}, Answer(c, i)
    PROVE  call' \in [Slots -> Call \cup {None}]
<1>1. call[c] \in Call
  BY CallInFlight
<1>2. [call[c] EXCEPT !.stage = "answered", !.user = i, !.email = None] \in Call
  BY <1>1 DEF Call
<1>3. call' = [call EXCEPT ![c] = [call[c] EXCEPT !.stage = "answered",
                                                 !.user = i, !.email = None]]
  BY DEF Answer, TypeOK
<1>4. QED
  BY <1>2, <1>3 DEF TypeOK

LEMMA ServeType ==
    ASSUME TypeOK, NEW c \in Slots, Serve(c)
    PROVE  TypeOK'
<1> USE DEF Serve, tabs
<1>1. InFlight(c)
  OBVIOUS
<1>2. CASE ServeMe(c)
  <2>1. call' \in [Slots -> Call \cup {None}]
    BY <1>1, <1>2, AnswerType, CallInFlight DEF ServeMe
  <2>2. QED
    BY <1>2, <2>1 DEF ServeMe, accounts, TypeOK
<1>3. CASE ServeLogin(c)
  <2>1. call' \in [Slots -> Call \cup {None}]
    BY <1>1, <1>3, AnswerType DEF ServeLogin, Registered
  <2>2. QED
    BY <1>3, <2>1 DEF ServeLogin, accounts, TypeOK
<1>4. CASE SignupFind(c)
  <2>1. [call[c] EXCEPT !.stage = "insert"] \in Call
    BY <1>1, CallInFlight DEF Call
  <2>2. call' \in [Slots -> Call \cup {None}]
    BY <1>4, <2>1 DEF SignupFind, TypeOK
  <2>3. QED
    BY <1>4, <2>2 DEF SignupFind, accounts, TypeOK
<1>5. CASE SignupInsert(c)
  <2>1. PICK i \in UserIds : NewAccount(c, i) /\ (Answer(c, i) \/ Answer(c, None))
    BY <1>5 DEF SignupInsert
  <2>2. call' \in [Slots -> Call \cup {None}]
    BY <1>1, <2>1, AnswerType
  <2>3. users' \in [UserIds -> Emails \cup {None}] /\ emailIndex' = emailIndex
    BY <1>1, <2>1, CallInFlight DEF NewAccount, TypeOK
  <2>4. QED
    BY <2>2, <2>3 DEF TypeOK
<1>6. CASE CallFails(c)
  <2>1. call' \in [Slots -> Call \cup {None}]
    BY <1>1, <1>6, AnswerType DEF CallFails
  <2>2. QED
    BY <1>6, <2>1 DEF CallFails, accounts, TypeOK
<1>7. QED
  BY <1>2, <1>3, <1>4, <1>5, <1>6

LEMMA StartType ==
    ASSUME TypeOK, NEW t \in Tabs, NEW p \in Pages, Start(t, p)
    PROVE  TypeOK'
<1>1. page' \in [Tabs -> Pages]
  BY RoutedType DEF Start, TypeOK
<1>2. call' \in [Slots -> Call \cup {None}]
  <2>1. CASE call' = Abandoned(t)
    BY <2>1, AbandonedType
  <2>2. CASE \E c \in Slots : call' = [Abandoned(t) EXCEPT ![c] = MeCall(t)]
    <3>1. MeCall(t) \in Call
      BY DEF MeCall, Call, TypeOK
    <3>2. QED
      BY <2>2, <3>1, AbandonedType, CallsAtType
  <2>3. QED
    BY <2>1, <2>2 DEF Start
<1>3. QED
  BY <1>1, <1>2 DEF Start, accounts, TypeOK

LEMMA VisitType ==
    ASSUME TypeOK, NEW t \in Tabs, NEW p \in Pages, Visit(t, p)
    PROVE  TypeOK'
<1>1. page' \in [Tabs -> Pages]
  BY RoutedType DEF Visit, TypeOK
<1>2. call' \in [Slots -> Call \cup {None}]
  BY UnmountedType DEF Visit, TypeOK
<1>3. QED
  BY <1>1, <1>2 DEF Visit, accounts, TypeOK

LEMMA SubmitType ==
    ASSUME TypeOK, NEW t \in Tabs, NEW e \in Emails, Submit(t, e)
    PROVE  TypeOK'
<1>1. SignInCall(t, page[t], e) \in Call
  BY DEF Submit, SignInCall, Call
<1>2. call' \in [Slots -> Call \cup {None}]
  BY <1>1 DEF Submit, TypeOK
<1>3. QED
  BY <1>2 DEF Submit, accounts, TypeOK

LEMMA LogoutType ==
    ASSUME TypeOK, NEW t \in Tabs, Logout(t)
    PROVE  TypeOK'
<1>1. page' \in [Tabs -> Pages]
  BY DEF Logout, TypeOK, Pages
<1>2. QED
  BY <1>1 DEF Logout, Store, accounts, TypeOK

LEMMA DoneType ==
    ASSUME TypeOK, NEW c \in Slots
    PROVE  Done(c) \in [Slots -> Call \cup {None}]
BY DEF Done, TypeOK

LEMMA AnswersType ==
    ASSUME TypeOK, NEW c \in Slots, Answers(c)
    PROVE  TypeOK'
<1> DEFINE t == call[c].tab
<1>1. /\ InFlight(c)
      /\ users' = users /\ emailIndex' = emailIndex
      /\ call[c].user \in UserIds \cup {None}
      /\ t \in Tabs \cup {None}
  BY CallInFlight DEF Answers, accounts
<1>2. CASE t = None
  <2>1. call' = Done(c) /\ UNCHANGED <<token, tabs, foreign>>
    BY <1>2 DEF Answers
  <2>2. QED
    BY <1>1, <2>1, DoneType DEF tabs, TypeOK
<1>3. CASE t # None /\ MeAnswers(c, t)
  <2>1. page' \in [Tabs -> Pages]
    BY <1>1, <1>3, RoutedType DEF MeAnswers, TypeOK
  <2>2. call' \in [Slots -> Call \cup {None}]
    BY <1>3, DoneType DEF MeAnswers
  <2>3. token' \in UserIds \cup {None} /\ foreign' \subseteq Tabs
    BY <1>3 DEF MeAnswers, Store, TypeOK
  <2>4. user' \in [Tabs -> UserIds \cup {None}] /\ loading' \in [Tabs -> BOOLEAN]
    BY <1>1, <1>3 DEF MeAnswers, TypeOK
  <2>5. busy' \in [Tabs -> BOOLEAN]
    BY <1>3 DEF MeAnswers, TypeOK
  <2>6. QED
    BY <1>1, <2>1, <2>2, <2>3, <2>4, <2>5 DEF TypeOK
<1>4. CASE t # None /\ SignedIn(c, t)
  <2>1. call' \in [Slots -> Call \cup {None}]
    BY <1>1, <1>3, <1>4, DoneType, UnmountedType DEF SignedIn
  <2>2. token' \in UserIds \cup {None} /\ foreign' \subseteq Tabs
    BY <1>1, <1>4 DEF SignedIn, Store, TypeOK
  <2>3. page' \in [Tabs -> Pages]
    BY <1>4 DEF SignedIn, TypeOK, Pages, Protected
  <2>4. user' \in [Tabs -> UserIds \cup {None}] /\ loading' \in [Tabs -> BOOLEAN]
    BY <1>1, <1>4 DEF SignedIn, TypeOK
  <2>5. busy' \in [Tabs -> BOOLEAN]
    BY <1>4 DEF SignedIn, TypeOK
  <2>6. QED
    BY <1>1, <2>1, <2>2, <2>3, <2>4, <2>5 DEF TypeOK
<1>5. CASE t # None /\ NotSignedIn(c, t)
  <2>1. call' \in [Slots -> Call \cup {None}]
    BY <1>5, DoneType DEF NotSignedIn
  <2>2. busy' \in [Tabs -> BOOLEAN]
    BY <1>5 DEF NotSignedIn, TypeOK
  <2>3. QED
    BY <1>1, <1>5, <2>1, <2>2 DEF NotSignedIn, TypeOK
<1>6. QED
  BY <1>2, <1>3, <1>4, <1>5 DEF Answers

LEMMA NextTypeOK == TypeOK /\ [Next]_vars => TypeOK'
<1> SUFFICES ASSUME TypeOK, [Next]_vars PROVE TypeOK'
  OBVIOUS
<1>1. CASE UNCHANGED vars
  BY <1>1 DEF vars, accounts, tabs, TypeOK
<1>2. CASE Next
  BY <1>2, StartType, VisitType, SubmitType, LogoutType, ServeType, AnswersType
  DEF Next
<1>3. QED
  BY <1>1, <1>2

\* The state of accounts, storage, tabs and calls is well typed, and no tab is
\* ever on a path that App has no route for, whatever answers late.
THEOREM SessionTypeCorrect == Spec => []TypeOK
<1>1. Init => TypeOK
  BY InitTypeOK
<1>2. TypeOK /\ [Next]_vars => TypeOK'
  BY NextTypeOK
<1>3. QED
  BY <1>1, <1>2, PTL DEF Spec

-----------------------------------------------------------------------------
\* One account per address.

AccountInv ==
    emailIndex => \A i, j \in UserIds : users[i] = users[j] /\ users[i] # None => i = j

LEMMA NextAccountInv == TypeOK /\ AccountInv /\ [Next]_vars => AccountInv'
<1> SUFFICES ASSUME TypeOK, AccountInv, [Next]_vars PROVE AccountInv'
  OBVIOUS
<1>1. CASE UNCHANGED accounts
  BY <1>1 DEF accounts, AccountInv
<1>2. ASSUME NEW c \in Slots, SignupInsert(c)
      PROVE  AccountInv'
  <2>1. PICK i \in UserIds : NewAccount(c, i)
    BY <1>2 DEF SignupInsert
  <2>2. emailIndex => \A j \in UserIds : users[j] # call[c].email
    BY <1>2 DEF SignupInsert, EmailRefused, Registered
  <2>3. /\ emailIndex' = emailIndex
        /\ \A j \in UserIds : users'[j] = IF j = i THEN call[c].email ELSE users[j]
    BY <2>1 DEF NewAccount, TypeOK
  <2>4. QED
    BY <2>2, <2>3 DEF AccountInv
<1>3. UNCHANGED accounts \/ \E c \in Slots : SignupInsert(c)
  BY DEF Next, vars, Start, Visit, Submit, Logout, Answers, Serve,
         ServeMe, ServeLogin, SignupFind, CallFails
<1>4. QED
  BY <1>1, <1>2, <1>3

\* With the unique index no address has two accounts, for any number of
\* concurrent signups and although the lookup and the insert are two calls.
THEOREM OneAccountPerEmailHolds == Spec => []OneAccountPerEmail
<1>1. Init => AccountInv
  BY DEF Init, AccountInv
<1>2. AccountInv /\ TypeOK => OneAccountPerEmail
  <2> SUFFICES ASSUME AccountInv, TypeOK, emailIndex, NEW e \in Emails
               PROVE  Cardinality(Registered(e)) <= 1
    BY DEF OneAccountPerEmail
  <2>1. e # None
    BY SessionAssumption
  <2>2. CASE Registered(e) = {}
    BY <2>2, FS_EmptySet
  <2>3. CASE Registered(e) # {}
    <3>1. PICK i : Registered(e) = {i}
      BY <2>1, <2>3 DEF Registered, AccountInv
    <3>2. Cardinality({i}) = 1
      BY FS_Singleton
    <3>3. QED
      BY <3>1, <3>2
  <2>4. QED
    BY <2>2, <2>3
<1>3. QED
  BY <1>1, <1>2, InitTypeOK, NextTypeOK, NextAccountInv, PTL DEF Spec

-----------------------------------------------------------------------------
\* What a tab shows.

\* After a step in which calls are only answered, left or ended.
CallsOnlyEnd == \A d \in Slots :
    InFlight(d)' =>
       /\ InFlight(d)
       /\ call'[d].kind = call[d].kind
       /\ call'[d].tab = call[d].tab
       /\ call'[d].token = call[d].token
       /\ call[d].kind = "me" => call'[d].user \in {None, call[d].user, call[d].token}

LEMMA QuietStep ==
    ASSUME SessionInv, CallsOnlyEnd, TypeOK',
           UNCHANGED <<token, user, loading, foreign>>
    PROVE  SessionInv'
<1>1. \A d \in Slots : Waiting(d)' => /\ Waiting(d)
                                      /\ call'[d].tab = call[d].tab
                                      /\ call'[d].token = call[d].token
                                      /\ call'[d].user \in {None, call[d].user, call[d].token}
  BY DEF CallsOnlyEnd, Waiting
<1>2. SpinnerShowsNobody' /\ ShowsWhoItActsAs'
  BY DEF SessionInv, SpinnerShowsNobody, ShowsWhoItActsAs
<1>3. OneQuestion'
  BY <1>1 DEF SessionInv, OneQuestion
<1>4. FormsAfterStart'
  BY DEF SessionInv, FormsAfterStart, CallsOnlyEnd, Waiting
<1>5. AsksForItself'
  BY <1>1 DEF SessionInv, AsksForItself, Asks
<1>6. QED
  BY <1>2, <1>3, <1>4, <1>5 DEF SessionInv

LEMMA ServeKeeps ==
    ASSUME SessionInv, NEW c \in Slots, Serve(c), TypeOK'
    PROVE  SessionInv'
<1>1. TypeOK /\ InFlight(c)
  BY DEF SessionInv, Serve
<1>2. \A d \in Slots : d # c => call'[d] = call[d]
  BY <1>1 DEF Serve, ServeMe, ServeLogin, SignupFind, SignupInsert, CallFails,
              Answer, TypeOK
<1>3. /\ call'[c].kind = call[c].kind
      /\ call'[c].tab = call[c].tab
      /\ call'[c].token = call[c].token
      /\ call[c].kind = "me" => call'[c].user \in {None, call[c].user, call[c].token}
  <2>1. call[c] \in Call
    BY <1>1, CallInFlight
  <2>2. ASSUME NEW i \in UserIds \cup {None}, Answer(c, i)
        PROVE  /\ call'[c].kind = call[c].kind
               /\ call'[c].tab = call[c].tab
               /\ call'[c].token = call[c].token
               /\ call'[c].user = i
    BY <1>1, <2>1, <2>2 DEF Answer, TypeOK, Call
  <2>3. CASE SignupFind(c)
    BY <1>1, <2>1, <2>3 DEF SignupFind, TypeOK, Call
  <2>4. CASE ServeMe(c)
    BY <1>1, <2>2, <2>4, CallInFlight DEF ServeMe
  <2>5. CASE ServeLogin(c)
    BY <2>2, <2>5 DEF ServeLogin, Registered
  <2>6. CASE SignupInsert(c)
    BY <2>2, <2>6 DEF SignupInsert
  <2>7. CASE CallFails(c)
    BY <2>2, <2>7 DEF CallFails
  <2>8. QED
    BY <2>3, <2>4, <2>5, <2>6, <2>7 DEF Serve
<1>4. CallsOnlyEnd
  BY <1>1, <1>2, <1>3 DEF CallsOnlyEnd, InFlight
<1>5. QED
  BY <1>4, QuietStep DEF Serve, tabs

LEMMA UnmountedOnlyEnds ==
    ASSUME NEW cs \in [Slots -> Call \cup {None}], NEW t, NEW d \in Slots,
           Unmounted(cs, t)[d] # None
    PROVE  /\ cs[d] # None
           /\ Unmounted(cs, t)[d].kind = cs[d].kind
           /\ Unmounted(cs, t)[d].tab = cs[d].tab
           /\ Unmounted(cs, t)[d].token = cs[d].token
           /\ Unmounted(cs, t)[d].user = cs[d].user
<1>1. CASE cs[d] = None
  BY <1>1 DEF Unmounted
<1>2. CASE cs[d] # None
  <2>1. cs[d] \in Call
    BY <1>2
  <2>2. QED
    BY <1>2, <2>1 DEF Unmounted, Call
<1>3. QED
  BY <1>1, <1>2

LEMMA VisitKeeps ==
    ASSUME SessionInv, NEW t \in Tabs, NEW p \in Pages, Visit(t, p), TypeOK'
    PROVE  SessionInv'
<1>1. CallsOnlyEnd
  BY UnmountedOnlyEnds DEF SessionInv, TypeOK, Visit, CallsOnlyEnd, InFlight
<1>2. QED
  BY <1>1, QuietStep DEF Visit

LEMMA DoneSlots ==
    ASSUME TypeOK, NEW c \in Slots, NEW d \in Slots
    PROVE  Done(c)[d] = IF d = c THEN None ELSE call[d]
BY DEF Done, TypeOK

LEMMA SubmitKeeps ==
    ASSUME SessionInv, NEW t \in Tabs, NEW e \in Emails, Submit(t, e), TypeOK'
    PROVE  SessionInv'
<1>1. PICK c \in Slots : call' = [call EXCEPT ![c] = SignInCall(t, page[t], e)]
  BY DEF Submit
<1>2. /\ \A d \in Slots : d # c => call'[d] = call[d]
      /\ call'[c].kind # "me"
      /\ call'[c].tab = t
  BY <1>1 DEF Submit, SignInCall, GuestPages, SessionInv, TypeOK
<1>3. UNCHANGED <<token, user, loading, foreign>> /\ ~loading[t]
  BY DEF Submit
<1>4. \A d \in Slots : Waiting(d)' => d # c /\ Waiting(d) /\ call'[d] = call[d]
  BY <1>2 DEF Waiting, InFlight
<1>5. SpinnerShowsNobody' /\ ShowsWhoItActsAs'
  BY <1>3 DEF SessionInv, SpinnerShowsNobody, ShowsWhoItActsAs
<1>6. OneQuestion'
  BY <1>4 DEF SessionInv, OneQuestion
<1>7. FormsAfterStart'
  BY <1>2, <1>3 DEF SessionInv, FormsAfterStart, Waiting, InFlight
<1>8. AsksForItself'
  BY <1>3, <1>4 DEF SessionInv, AsksForItself, Asks
<1>9. QED
  BY <1>5, <1>6, <1>7, <1>8 DEF SessionInv

LEMMA AbandonedSlots ==
    ASSUME TypeOK, NEW t \in Tabs, NEW d \in Slots, Abandoned(t)[d] # None
    PROVE  /\ InFlight(d)
           /\ Abandoned(t)[d].kind = call[d].kind
           /\ \/ call[d].tab # t /\ Abandoned(t)[d] = call[d]
              \/ call[d].kind = "signup" /\ Abandoned(t)[d].tab = None
<1>1. InFlight(d)
  BY DEF Abandoned, InFlight
<1>2. call[d] \in Call
  BY <1>1, CallInFlight
<1>3. QED
  BY <1>1, <1>2 DEF Abandoned, Call

LEMMA StartKeeps ==
    ASSUME SessionInv, NEW t \in Tabs, NEW p \in Pages, Start(t, p), TypeOK'
    PROVE  SessionInv'
<1>1. /\ TypeOK
      /\ t # None
      /\ user'[t] = None /\ loading'[t] = (token # None)
      /\ \A u \in Tabs : u # t => user'[u] = user[u] /\ loading'[u] = loading[u]
      /\ token' = token /\ foreign' = foreign \ {t}
  BY SessionAssumption DEF SessionInv, TypeOK, Start
<1>2. ASSUME NEW d \in Slots, Waiting(d)'
      PROVE  \/ /\ Waiting(d) /\ call[d].tab # t
                /\ call'[d] = call[d]
             \/ /\ token # None /\ call'[d] = MeCall(t)
                /\ \A u \in Slots : u # d => call'[u] = Abandoned(t)[u]
  <2>1. CASE call' = Abandoned(t)
    BY <1>1, <1>2, <2>1, AbandonedSlots DEF Waiting, InFlight
  <2>2. CASE token # None /\ \E c \in Slots : call' = [Abandoned(t) EXCEPT ![c] = MeCall(t)]
    <3>1. PICK c \in Slots : call' = [Abandoned(t) EXCEPT ![c] = MeCall(t)]
      BY <2>2
    <3>2. \A u \in Slots : call'[u] = IF u = c THEN MeCall(t) ELSE Abandoned(t)[u]
      BY <3>1 DEF Abandoned
    <3>3. QED
      BY <1>1, <1>2, <2>2, <3>2, AbandonedSlots DEF Waiting, InFlight
  <2>3. QED
    BY <2>1, <2>2 DEF Start
<1>3. ASSUME NEW d \in Slots, InFlight(d)', ~Waiting(d)', call'[d].tab # None
      PROVE  InFlight(d) /\ ~Waiting(d) /\ call'[d] = call[d] /\ call[d].tab # t
  <2>1. call'[d] = Abandoned(t)[d]
    <3>1. CASE call' = Abandoned(t)
      BY <3>1
    <3>2. CASE \E c \in Slots : call' = [Abandoned(t) EXCEPT ![c] = MeCall(t)]
      <4>1. PICK c \in Slots : call' = [Abandoned(t) EXCEPT ![c] = MeCall(t)]
        BY <3>2
      <4>2. \A u \in Slots : call'[u] = IF u = c THEN MeCall(t) ELSE Abandoned(t)[u]
        BY <4>1 DEF Abandoned
      <4>3. QED
        BY <1>3, <4>2 DEF Waiting, MeCall
    <3>3. QED
      BY <3>1, <3>2 DEF Start
  <2>2. QED
    BY <1>1, <1>3, <2>1, AbandonedSlots DEF Waiting, InFlight
<1>4. SpinnerShowsNobody'
  BY <1>1 DEF SessionInv, SpinnerShowsNobody
<1>5. ShowsWhoItActsAs'
  BY <1>1 DEF SessionInv, ShowsWhoItActsAs
<1>6. OneQuestion'
  <2> SUFFICES ASSUME NEW c \in Slots, NEW d \in Slots, Waiting(c)', Waiting(d)',
                      call'[c].tab = call'[d].tab, c # d
               PROVE  FALSE
    BY DEF OneQuestion
  <2>1. CASE Waiting(c) /\ Waiting(d) /\ call'[c] = call[c] /\ call'[d] = call[d]
    BY <2>1 DEF SessionInv, OneQuestion
  <2>2. CASE call'[c] = MeCall(t) /\ call'[d] = Abandoned(t)[d]
    BY <1>1, <2>2, AbandonedSlots DEF MeCall, Waiting, InFlight
  <2>3. CASE call'[d] = MeCall(t) /\ call'[c] = Abandoned(t)[c]
    BY <1>1, <2>3, AbandonedSlots DEF MeCall, Waiting, InFlight
  <2>4. QED
    BY <1>2, <2>1, <2>2, <2>3
<1>7. FormsAfterStart'
  BY <1>1, <1>3, CallInFlight DEF SessionInv, FormsAfterStart
<1>8. AsksForItself'
  <2> SUFFICES ASSUME NEW d \in Slots, Waiting(d)' PROVE Asks(d)'
    BY DEF AsksForItself
  <2>1. CASE Waiting(d) /\ call[d].tab # t /\ call'[d] = call[d]
    BY <1>1, <2>1 DEF SessionInv, AsksForItself, Asks
  <2>2. CASE token # None /\ call'[d] = MeCall(t)
    <3>1. call'[d].tab = t /\ call'[d].token = token /\ call'[d].user = None
      BY <2>2 DEF MeCall
    <3>2. loading'[t] /\ token' = token
      BY <1>1, <2>2
    <3>3. QED
      BY <3>1, <3>2 DEF Asks
  <2>3. QED
    BY <1>2, <2>1, <2>2
<1>9. QED
  BY <1>4, <1>5, <1>6, <1>7, <1>8 DEF SessionInv

LEMMA LogoutKeeps ==
    ASSUME SessionInv, NEW t \in Tabs, Logout(t), TypeOK'
    PROVE  SessionInv'
<1>1. /\ user'[t] = None /\ token' = None /\ ~loading[t]
      /\ \A u \in Tabs : u # t => user'[u] = user[u]
      /\ loading' = loading /\ call' = call
      /\ foreign' = IF token = None THEN foreign \ {t} ELSE Tabs \ {t}
  BY DEF SessionInv, TypeOK, SpinnerShowsNobody, Logout, Store
<1>2. SpinnerShowsNobody'
  BY <1>1 DEF SessionInv, SpinnerShowsNobody
<1>3. OneQuestion'
  BY <1>1 DEF SessionInv, OneQuestion, Waiting, InFlight
<1>4. FormsAfterStart'
  BY <1>1 DEF SessionInv, FormsAfterStart, Waiting, InFlight
<1>5. AsksForItself'
  <2>1. \A c \in Slots : Waiting(c) => call[c].tab # t
    BY <1>1 DEF SessionInv, AsksForItself, Asks
  <2>2. QED
    BY <1>1, <2>1 DEF SessionInv, AsksForItself, Asks, Waiting, InFlight
<1>6. ShowsWhoItActsAs'
  BY <1>1 DEF SessionInv, ShowsWhoItActsAs
<1>7. QED
  BY <1>2, <1>3, <1>4, <1>5, <1>6 DEF SessionInv

LEMMA MeAnswersKeeps ==
    ASSUME SessionInv, NEW c \in Slots, InFlight(c), NEW t \in Tabs,
           t = call[c].tab, MeAnswers(c, t), TypeOK'
    PROVE  SessionInv'
<1>1. /\ user'[t] = call[c].user /\ ~loading'[t]
      /\ \A u \in Tabs : u # t => user'[u] = user[u] /\ loading'[u] = loading[u]
      /\ \A d \in Slots : call'[d] = IF d = c THEN None ELSE call[d]
  BY DoneSlots DEF SessionInv, TypeOK, MeAnswers
<1>2. Waiting(c) /\ Asks(c)
  BY DEF MeAnswers, Waiting, SessionInv, AsksForItself
<1>3. \A d \in Slots : Waiting(d)' => d # c /\ Waiting(d) /\ call'[d] = call[d]
  BY <1>1 DEF Waiting, InFlight
<1>4. \A d \in Slots : d # c /\ Waiting(d) => call[d].tab # t
  BY <1>2 DEF SessionInv, OneQuestion
<1>5. \/ call[c].user # None /\ token' = token /\ foreign' = foreign
      \/ /\ call[c].user = None /\ token' = None
         /\ foreign' = IF token = None THEN foreign \ {t} ELSE Tabs \ {t}
  BY DEF MeAnswers, Store
<1>6. \A u \in Tabs : u # t /\ u \notin foreign' => u \notin foreign /\ token' = token
  BY <1>5
<1>7. t \notin foreign' => user'[t] = token'
  BY <1>1, <1>2, <1>5 DEF Asks
<1>8. SpinnerShowsNobody'
  BY <1>1 DEF SessionInv, SpinnerShowsNobody
<1>9. OneQuestion'
  BY <1>3 DEF SessionInv, OneQuestion
<1>10. FormsAfterStart'
  <2> SUFFICES ASSUME NEW d \in Slots, InFlight(d)', ~Waiting(d)', call'[d].tab # None
               PROVE  ~loading'[call'[d].tab]
    BY DEF FormsAfterStart
  <2>1. InFlight(d) /\ ~Waiting(d) /\ call'[d] = call[d]
    BY <1>1 DEF InFlight, Waiting
  <2>2. ~loading[call[d].tab] /\ call[d].tab \in Tabs
    BY <2>1, CallInFlight DEF SessionInv, FormsAfterStart
  <2>3. QED
    BY <1>1, <2>1, <2>2
<1>11. AsksForItself'
  <2> SUFFICES ASSUME NEW d \in Slots, Waiting(d)' PROVE Asks(d)'
    BY DEF AsksForItself
  <2>1. Waiting(d) /\ call'[d] = call[d] /\ call[d].tab # t /\ Asks(d)
    BY <1>3, <1>4 DEF SessionInv, AsksForItself
  <2>2. QED
    BY <1>1, <1>6, <2>1 DEF Asks
<1>12. ShowsWhoItActsAs'
  BY <1>1, <1>6, <1>7 DEF SessionInv, ShowsWhoItActsAs
<1>13. QED
  BY <1>8, <1>9, <1>10, <1>11, <1>12 DEF SessionInv

LEMMA SignedInKeeps ==
    ASSUME SessionInv, NEW c \in Slots, InFlight(c), NEW t \in Tabs,
           t = call[c].tab, t # None, SignedIn(c, t), TypeOK'
    PROVE  SessionInv'
<1>1. /\ user'[t] = token' /\ loading' = loading
      /\ \A u \in Tabs : u # t => user'[u] = user[u]
      /\ foreign' = IF token' = token THEN foreign \ {t} ELSE Tabs \ {t}
  BY DEF SessionInv, TypeOK, SignedIn, Store
<1>2. ~loading[t]
  BY DEF SignedIn, SessionInv, FormsAfterStart, Waiting
<1>3. CallsOnlyEnd
  <2> SUFFICES ASSUME NEW d \in Slots, InFlight(d)'
               PROVE  /\ InFlight(d)
                      /\ call'[d].kind = call[d].kind
                      /\ call'[d].tab = call[d].tab
                      /\ call'[d].token = call[d].token
                      /\ call'[d].user = call[d].user
    BY DEF CallsOnlyEnd
  <2>1. Done(c) \in [Slots -> Call \cup {None}]
    BY DoneType DEF SessionInv
  <2>2. call' = Unmounted(Done(c), t)
    BY DEF SignedIn
  <2>3. /\ Done(c)[d] # None
        /\ call'[d].kind = Done(c)[d].kind
        /\ call'[d].tab = Done(c)[d].tab
        /\ call'[d].token = Done(c)[d].token
        /\ call'[d].user = Done(c)[d].user
    BY <2>1, <2>2, UnmountedOnlyEnds DEF InFlight
  <2>4. QED
    BY <2>3, DoneSlots DEF SessionInv, InFlight
<1>4. \A u \in Tabs : u # t /\ u \notin foreign' => u \notin foreign /\ token' = token
  BY <1>1
<1>5. SpinnerShowsNobody'
  BY <1>1, <1>2 DEF SessionInv, SpinnerShowsNobody
<1>6. \A d \in Slots : Waiting(d)' =>
         /\ Waiting(d) /\ Asks(d) /\ call[d].tab # t
         /\ call'[d].tab = call[d].tab
         /\ call'[d].token = call[d].token
         /\ call'[d].user \in {None, call[d].user, call[d].token}
  BY <1>2, <1>3 DEF CallsOnlyEnd, Waiting, SessionInv, AsksForItself, Asks
<1>7. OneQuestion'
  BY <1>6 DEF SessionInv, OneQuestion
<1>8. FormsAfterStart'
  BY <1>1, <1>3 DEF SessionInv, FormsAfterStart, CallsOnlyEnd, Waiting
<1>9. AsksForItself'
  BY <1>1, <1>4, <1>6 DEF AsksForItself, Asks
<1>10. ShowsWhoItActsAs'
  BY <1>1, <1>4 DEF SessionInv, ShowsWhoItActsAs
<1>11. QED
  BY <1>5, <1>7, <1>8, <1>9, <1>10 DEF SessionInv

LEMMA AnswersKeeps ==
    ASSUME SessionInv, NEW c \in Slots, Answers(c), TypeOK'
    PROVE  SessionInv'
<1> DEFINE t == call[c].tab
<1>1. InFlight(c) /\ TypeOK /\ t \in Tabs \cup {None}
  BY CallInFlight DEF Answers, SessionInv
<1>2. CASE call' = Done(c) /\ UNCHANGED <<token, user, loading, foreign>>
  <2>1. CallsOnlyEnd
    BY <1>1, <1>2, DoneSlots DEF CallsOnlyEnd, InFlight
  <2>2. QED
    BY <1>2, <2>1, QuietStep
<1>3. CASE t # None /\ MeAnswers(c, t)
  BY <1>1, <1>3, MeAnswersKeeps
<1>4. CASE t # None /\ SignedIn(c, t)
  BY <1>1, <1>4, SignedInKeeps
<1>5. QED
  BY <1>2, <1>3, <1>4 DEF Answers, NotSignedIn, tabs

LEMMA NextSessionInv == SessionInv /\ [Next]_vars => SessionInv'
<1> SUFFICES ASSUME SessionInv, [Next]_vars PROVE SessionInv'
  OBVIOUS
<1>1. TypeOK'
  BY NextTypeOK DEF SessionInv
<1>2. CASE UNCHANGED vars
  <2>1. CallsOnlyEnd
    BY <1>2 DEF vars, CallsOnlyEnd, InFlight
  <2>2. QED
    BY <1>1, <1>2, <2>1, QuietStep DEF vars, tabs
<1>3. CASE Next
  BY <1>1, <1>3, StartKeeps, VisitKeeps, SubmitKeeps, LogoutKeeps, ServeKeeps,
     AnswersKeeps DEF Next
<1>4. QED
  BY <1>2, <1>3

LEMMA InitSessionInv == Init => SessionInv
BY InitTypeOK DEF Init, SessionInv, SpinnerShowsNobody, OneQuestion,
   FormsAfterStart, AsksForItself, Waiting, InFlight, ShowsWhoItActsAs

\* A tab that has started shows the account it acts as, unless another tab has
\* signed in or out since: for any number of tabs and of calls, in any order.
THEOREM ShowsWhoItActsAsHolds == Spec => []ShowsWhoItActsAs
<1>1. SessionInv => ShowsWhoItActsAs
  BY DEF SessionInv
<1>2. QED
  BY <1>1, InitSessionInv, NextSessionInv, PTL DEF Spec

\* Who may take the stored token away.
RemovedByItsOwner ==
    token # None /\ token' = None =>
       \E t \in Tabs :
          \/ LogsOut(t)
          \/ \E c \in Slots : /\ InFlight(c) /\ call'[c] = None
                              /\ call[c].kind = "me" /\ call[c].tab = t
                              /\ call[c].token = token \/ t \in foreign

LEMMA StepRemoves == SessionInv /\ [Next]_vars => RemovedByItsOwner
<1> SUFFICES ASSUME SessionInv, [Next]_vars, token # None, token' = None
             PROVE  RemovedByItsOwner
  BY DEF RemovedByItsOwner
<1>1. CASE \E t \in Tabs : Logout(t)
  BY <1>1 DEF Logout, LogsOut, RemovedByItsOwner, SessionInv, TypeOK
<1>2. ASSUME NEW c \in Slots, InFlight(c), call[c].tab # None,
             MeAnswers(c, call[c].tab)
      PROVE  RemovedByItsOwner
  <2>1. Waiting(c) /\ Asks(c)
    BY <1>2 DEF MeAnswers, Waiting, SessionInv, AsksForItself
  <2>2. call'[c] = None
    BY <1>2, DoneSlots DEF MeAnswers, SessionInv
  <2>3. QED
    BY <2>1, <2>2 DEF Waiting, Asks, RemovedByItsOwner
<1>3. \/ \E t \in Tabs : Logout(t)
      \/ \E c \in Slots : InFlight(c) /\ call[c].tab # None /\ MeAnswers(c, call[c].tab)
  BY DEF Next, vars, Start, Visit, Submit, Serve, Answers, SignedIn, NotSignedIn, Store
<1>4. QED
  BY <1>1, <1>2, <1>3

\* The stored token goes by a logout, or by the failure of the me() that carried
\* it: a late failure with an older token never removes a newer one of the tab.
THEOREM NewTokensSurviveHolds == Spec => NewTokensSurvive
<1>1. Init /\ [][Next]_vars => [][SessionInv /\ [Next]_vars]_vars
  BY InitSessionInv, NextSessionInv, PTL
<1>2. QED
  BY <1>1, StepRemoves, PTL DEF Spec, NewTokensSurvive, RemovedByItsOwner
=============================================================================
