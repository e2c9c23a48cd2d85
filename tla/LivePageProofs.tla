--------------------------- MODULE LivePageProofs ---------------------------
(***************************************************************************)
(* Theorems about LivePage for any polls, votes, attempts and frames.      *)
(***************************************************************************)
EXTENDS LivePage, FiniteSetTheorems, SequenceTheorems, TLAPS

HookSet ==
    [results : Results \cup {None}, status : Status, attempts : 0 .. MaxAttempts,
     timer : Polls \cup {None}, ws : Sockets \cup {None}]

SockSet == [Sockets -> Connection \cup {None}]

\* The connection that the refs name is the only one, and it, or else the
\* timer, is for poll q; the status tells which of the two, and whether the
\* hook has given up.
Follows(h, cs, q) ==
    /\ \A s \in Sockets : cs[s] # None <=> s = h.ws
    /\ q = None => h.ws = None /\ h.timer = None
    /\ \A s \in Sockets : s = h.ws =>
          /\ cs[s].poll = q /\ q # None /\ h.timer = None
          /\ cs[s].open <=> h.status = "connected"
          /\ h.status # "disconnected"
    /\ q # None /\ h.ws = None =>
          \/ h.timer = q /\ h.status = "reconnecting"
          \/ /\ h.timer = None /\ h.status = "disconnected"
             /\ h.attempts = MaxAttempts

\* `sent` is about the last event on the way, or about what is shown.
Drained(h, cs, q, n) ==
    \A s \in Sockets : cs[s] # None /\ cs[s].sent =>
       IF cs[s].pipe = <<>>
       THEN ~cs[s].upset => h.results = [poll |-> q, total |-> n[q]]
       ELSE cs[s].pipe[Len(cs[s].pipe)] = n[cs[s].poll]

NewSocket(p) ==
    [poll |-> p, open |-> FALSE, joined |-> FALSE, sent |-> FALSE,
     upset |-> FALSE, pipe |-> <<>>]

LEMMA SocketOne == 1 \in Sockets /\ Sockets \subseteq Nat
  BY LivePageAssumption DEF LivePageAssumption, Sockets

LEMMA NewSocketType ==
    ASSUME NEW p \in Polls
    PROVE  NewSocket(p) \in Connection /\ NewSocket(p) # None
<1>1. <<>> \in Seq(Counts)
  OBVIOUS
<1>2. NewSocket(p) \in Connection
  BY <1>1 DEF NewSocket, Connection
<1>3. QED
  BY <1>2, NoneAssumption DEF NoneAssumption

LEMMA FirstSocket ==
    ASSUME NEW cs, \A s \in Sockets : cs[s] = None
    PROVE  Min(Sockets \ Live(cs)) = 1
<1>1. Sockets \ Live(cs) = Sockets
  BY DEF Live
<1>2. \A y \in Sockets : 1 <= y
  BY LivePageAssumption DEF LivePageAssumption, Sockets
<1>3. \A x \in Sockets : (\A y \in Sockets : x <= y) => x = 1
  BY <1>2, SocketOne
<1>4. QED
  BY <1>1, <1>2, <1>3, SocketOne DEF Min

\* connect, when there is no other connection and no timer.
LEMMA ConnectFollows ==
    ASSUME NEW h \in HookSet, NEW cs \in SockSet, NEW p \in Polls, NEW n,
           \A s \in Sockets : cs[s] = None, h.timer = None
    PROVE  LET c == Connect(h, cs, p)
           IN /\ c.hook \in HookSet /\ c.hook.results = h.results
              /\ c.sock \in SockSet
              /\ Follows(c.hook, c.sock, p) /\ Drained(c.hook, c.sock, p, n)
<1> DEFINE c == Connect(h, cs, p)
           st == IF h.attempts > 0 THEN "reconnecting" ELSE "connecting"
<1>1. /\ c.hook = [h EXCEPT !.ws = 1, !.status = st]
      /\ c.sock = [cs EXCEPT ![1] = NewSocket(p)]
  BY FirstSocket DEF Connect, NewSocket
<1>2. /\ c.hook \in HookSet /\ c.hook.results = h.results
      /\ c.hook.ws = 1 /\ c.hook.timer = None
      /\ c.hook.status \in {"connecting", "reconnecting"}
  BY <1>1, SocketOne DEF HookSet, Status
<1>3. /\ c.sock \in SockSet /\ c.sock[1] = NewSocket(p)
      /\ \A s \in Sockets : s # 1 => c.sock[s] = None
  BY <1>1, SocketOne, NewSocketType DEF SockSet
<1>4. /\ NewSocket(p).poll = p /\ ~NewSocket(p).open /\ ~NewSocket(p).sent
      /\ NewSocket(p) # None /\ p # None /\ None \notin Sockets
  BY NewSocketType, NoneAssumption DEF NewSocket, NoneAssumption
<1> HIDE DEF c
<1>5. Follows(c.hook, c.sock, p)
  BY <1>2, <1>3, <1>4, SocketOne DEF Follows
<1>6. Drained(c.hook, c.sock, p, n)
  BY <1>3, <1>4 DEF Drained
<1>7. QED
  BY <1>2, <1>3, <1>5, <1>6 DEF c

\* The cleanup leaves nothing behind.
LEMMA CleanupClears ==
    ASSUME NEW h \in HookSet, NEW cs \in SockSet, NEW q, Follows(h, cs, q)
    PROVE  LET c == Cleanup(h, cs)
           IN /\ c.hook \in HookSet /\ c.hook.results = h.results
              /\ c.hook.timer = None /\ c.hook.ws = None
              /\ c.sock \in SockSet /\ \A s \in Sockets : c.sock[s] = None
<1> DEFINE c == Cleanup(h, cs)
<1>1. c.hook = [h EXCEPT !.ws = None, !.timer = None]
  BY DEF Cleanup
<1>2. c.sock = [s \in Sockets |-> IF s = h.ws THEN None ELSE cs[s]]
  BY DEF Cleanup
<1>3. /\ c.hook \in HookSet /\ c.hook.results = h.results
      /\ c.hook.timer = None /\ c.hook.ws = None
  BY <1>1 DEF HookSet
<1>4. \A s \in Sockets : c.sock[s] = None
  BY <1>2 DEF Follows
<1>5. c.sock \in SockSet
  BY <1>2, <1>4 DEF SockSet
<1>6. QED
  BY <1>3, <1>4, <1>5

\* Without a poll there is nothing to follow.
LEMMA NothingFollows ==
    ASSUME NEW h, NEW cs, NEW n, h.ws = None, h.timer = None,
           \A s \in Sockets : cs[s] = None
    PROVE  Follows(h, cs, None) /\ Drained(h, cs, None, n)
  BY NoneAssumption DEF Follows, Drained, NoneAssumption

\* The connect effect, when the poll of the page becomes p.
LEMMA RerunFollows ==
    ASSUME NEW h \in HookSet, NEW cs \in SockSet, NEW q \in Polls \cup {None},
           NEW p \in Polls \cup {None}, NEW n,
           Follows(h, cs, q), Drained(h, cs, q, n)
    PROVE  LET b == Rerun(h, cs, q, p)
           IN /\ b.hook \in HookSet /\ b.hook.results = h.results
              /\ b.sock \in SockSet
              /\ Follows(b.hook, b.sock, p) /\ Drained(b.hook, b.sock, p, n)
<1>1. CASE q = p
  BY <1>1 DEF Rerun
<1>2. CASE q # p
  <2>1. PICK c : c = Cleanup(h, cs)
    OBVIOUS
  <2>2. /\ c.hook \in HookSet /\ c.hook.results = h.results
        /\ c.hook.timer = None /\ c.hook.ws = None
        /\ c.sock \in SockSet /\ \A s \in Sockets : c.sock[s] = None
    BY <2>1, CleanupClears
  <2>3. Rerun(h, cs, q, p) = IF p = None THEN c ELSE Connect(c.hook, c.sock, p)
    BY <1>2, <2>1 DEF Rerun
  <2>4. CASE p = None
    <3>1. Follows(c.hook, c.sock, None) /\ Drained(c.hook, c.sock, None, n)
      BY <2>2, NothingFollows
    <3>2. QED
      BY <2>2, <2>3, <2>4, <3>1
  <2>5. CASE p \in Polls
    <3>1. Rerun(h, cs, q, p) = Connect(c.hook, c.sock, p)
      BY <2>3, <2>5, NoneAssumption DEF NoneAssumption
    <3>2. QED
      BY <2>2, <2>5, <3>1, ConnectFollows
  <2>6. QED
    BY <2>4, <2>5
<1>3. QED
  BY <1>1, <1>2

\* Show, for counts of the page's poll or of the connection's.
LEMMA ShowFollows ==
    ASSUME NEW h \in HookSet, NEW cs \in SockSet, NEW r \in Results,
           NEW q \in Polls, Follows(h, cs, q)
    PROVE  LET b == Show(h, cs, r)
           IN /\ b.hook \in HookSet /\ b.hook.results = r
              /\ b.sock \in SockSet /\ Follows(b.hook, b.sock, q)
              /\ \A s \in Sockets : cs[s] # None =>
                    /\ b.sock[s].sent = cs[s].sent /\ b.sock[s].pipe = cs[s].pipe
                    /\ b.sock[s].open = cs[s].open /\ b.sock[s].poll = cs[s].poll
                    /\ b.sock[s].upset \/ b.sock[s] = cs[s]
              /\ \A s \in Sockets : cs[s] = None <=> b.sock[s] = None
<1> DEFINE b == Show(h, cs, r)
           Falls(s) == /\ cs[s] # None /\ h.results # None
                       /\ h.results.poll = r.poll /\ h.results.total > r.total
<1>1. /\ b.hook = [h EXCEPT !.results = r]
      /\ b.sock = [s \in Sockets |->
                     IF Falls(s) THEN [cs[s] EXCEPT !.upset = TRUE] ELSE cs[s]]
  BY DEF Show
<1>2. /\ b.hook \in HookSet /\ b.hook.results = r
      /\ b.hook.status = h.status /\ b.hook.attempts = h.attempts
      /\ b.hook.timer = h.timer /\ b.hook.ws = h.ws
  BY <1>1 DEF HookSet
<1>3. ASSUME NEW s \in Sockets, cs[s] # None
      PROVE  /\ b.sock[s] \in Connection /\ b.sock[s] # None
             /\ b.sock[s].sent = cs[s].sent /\ b.sock[s].pipe = cs[s].pipe
             /\ b.sock[s].open = cs[s].open /\ b.sock[s].poll = cs[s].poll
             /\ b.sock[s].upset \/ b.sock[s] = cs[s]
  <2>1. cs[s] \in Connection
    BY <1>3 DEF SockSet
  <2>2. b.sock[s] = [cs[s] EXCEPT !.upset = TRUE] \/ b.sock[s] = cs[s]
    BY <1>1
  <2>3. [cs[s] EXCEPT !.upset = TRUE] \in Connection
    BY <2>1 DEF Connection
  <2>4. b.sock[s] \in Connection /\ b.sock[s] # None
    BY <2>1, <2>2, <2>3, NoneAssumption DEF NoneAssumption
  <2>5. QED
    BY <2>1, <2>2, <2>4 DEF Connection
<1>4. \A s \in Sockets : cs[s] = None => b.sock[s] = None
  BY <1>1
<1>5. b.sock \in SockSet
  BY <1>1, <1>3, <1>4 DEF SockSet
<1> HIDE DEF b
<1>6. Follows(b.hook, b.sock, q)
  <2>1. q # None
    BY NoneAssumption DEF NoneAssumption
  <2>2. \A s \in Sockets : b.sock[s] # None <=> s = b.hook.ws
    BY <1>2, <1>3, <1>4 DEF Follows
  <2>3. ASSUME NEW s \in Sockets, s = b.hook.ws
        PROVE  /\ b.sock[s].poll = q /\ b.hook.timer = None
               /\ b.sock[s].open <=> b.hook.status = "connected"
               /\ b.hook.status # "disconnected"
    <3>1. cs[s] # None /\ s = h.ws
      BY <1>2, <2>3 DEF Follows
    <3>2. QED
      BY <1>2, <1>3, <3>1 DEF Follows
  <2>4. QED
    BY <1>2, <2>1, <2>2, <2>3 DEF Follows
<1>7. QED
  BY <1>2, <1>3, <1>4, <1>5, <1>6 DEF b

\* Counts of the page's poll that are not ahead of the server's: they are the
\* current ones, or they are older than what was shown.
LEMMA ShowDrained ==
    ASSUME NEW h \in HookSet, NEW cs \in SockSet, NEW r \in Results,
           NEW n \in [Polls -> Counts], NEW q \in Polls,
           Follows(h, cs, q), Drained(h, cs, q, n),
           r.poll = q, r.total <= n[q]
    PROVE  Drained(Show(h, cs, r).hook, Show(h, cs, r).sock, q, n)
<1>1. PICK b : b = Show(h, cs, r)
  OBVIOUS
<1>2. /\ b.hook.results = r
      /\ \A s \in Sockets : cs[s] # None =>
            b.sock[s].sent = cs[s].sent /\ b.sock[s].pipe = cs[s].pipe
              /\ b.sock[s].poll = cs[s].poll
              /\ (b.sock[s].upset \/ b.sock[s] = cs[s])
      /\ \A s \in Sockets : cs[s] = None <=> b.sock[s] = None
  BY <1>1, ShowFollows
<1> SUFFICES ASSUME NEW s \in Sockets, b.sock[s] # None, b.sock[s].sent,
                    b.sock[s].pipe = <<>>, ~b.sock[s].upset
             PROVE  r = [poll |-> q, total |-> n[q]]
  BY <1>1, <1>2 DEF Drained
<1>3. cs[s] # None /\ cs[s].sent /\ cs[s].pipe = <<>> /\ ~cs[s].upset
  BY <1>2
<1>4. h.results = [poll |-> q, total |-> n[q]]
  BY <1>3 DEF Drained
<1>5. [poll |-> q, total |-> n[q]] \in Results
  BY DEF Results
<1>6. h.results # None
  BY <1>4, <1>5, NoneAssumption DEF NoneAssumption
<1>7. ~(n[q] > r.total)
  <2>1. b.sock[s] = IF cs[s] # None /\ h.results # None
                          /\ h.results.poll = r.poll /\ h.results.total > r.total
                    THEN [cs[s] EXCEPT !.upset = TRUE] ELSE cs[s]
    BY <1>1 DEF Show
  <2>2. cs[s] \in Connection
    BY <1>3 DEF SockSet
  <2>3. [cs[s] EXCEPT !.upset = TRUE].upset
    BY <2>2 DEF Connection
  <2>4. ~(h.results.total > r.total)
    BY <1>3, <1>4, <1>6, <2>1, <2>3
  <2>5. QED
    BY <1>4, <2>4
<1>8. Counts \subseteq Int
  BY LivePageAssumption DEF LivePageAssumption, Counts
<1>9. r.total = n[q]
  BY <1>7, <1>8 DEF Results
<1>10. QED
  BY <1>9 DEF Results

LEMMA LastOfTail ==
    ASSUME NEW S, NEW q \in Seq(S), q # <<>>
    PROVE  IF Tail(q) = <<>> THEN q[Len(q)] = Head(q)
                             ELSE Tail(q)[Len(Tail(q))] = q[Len(q)]
<1>1. /\ Len(q) \in Nat /\ Len(q) # 0 /\ Len(Tail(q)) = Len(q) - 1
      /\ Tail(q) \in Seq(S) /\ (Tail(q) = <<>> <=> Len(Tail(q)) = 0)
  <2>1. Len(q) \in Nat /\ Len(q) # 0 /\ Len(Tail(q)) = Len(q) - 1
    OBVIOUS
  <2>2. Tail(q) \in Seq(S)
    OBVIOUS
  <2>3. Tail(q) = <<>> <=> Len(Tail(q)) = 0
    BY <2>2, EmptySeq
  <2>4. QED
    BY <2>1, <2>2, <2>3
<1>2. CASE Len(q) = 1
  BY <1>1, <1>2
<1>3. CASE Len(q) # 1
  <2>1. Len(q) - 1 \in 1 .. Len(Tail(q))
    BY <1>1, <1>3
  <2>2. Tail(q)[Len(q) - 1] = q[Len(q)]
    BY <1>1, <2>1
  <2>3. Tail(q) # <<>>
    BY <1>1, <1>3
  <2>4. QED
    BY <1>1, <2>2, <2>3
<1>4. QED
  BY <1>2, <1>3

LEMMA PipeChange ==
    ASSUME NEW c \in Connection, NEW e \in Seq(Counts)
    PROVE  LET d == [c EXCEPT !.pipe = e]
           IN /\ d \in Connection /\ d.pipe = e
              /\ d.sent = c.sent /\ d.open = c.open /\ d.poll = c.poll
  BY DEF Connection

\* One event is taken from the front of what is on the way, and shown.
LEMMA ReceivedDrained ==
    ASSUME NEW h \in HookSet, NEW cs \in SockSet, NEW n \in [Polls -> Counts],
           NEW q \in Polls, Follows(h, cs, q), Drained(h, cs, q, n),
           NEW s \in Sockets, cs[s] # None, cs[s].pipe # <<>>,
           NEW r, r = [poll |-> cs[s].poll, total |-> Head(cs[s].pipe)],
           NEW g, g = [h EXCEPT !.results = r],
           NEW ds,
           ds = [[cs EXCEPT ![s].upset = FALSE] EXCEPT ![s].pipe = Tail(@)]
    PROVE  /\ r \in Results /\ g \in HookSet /\ g.results = r
           /\ ds \in SockSet
           /\ Follows(g, ds, q) /\ Drained(g, ds, q, n)
<1>1. /\ cs[s] \in Connection /\ cs[s].pipe \in Seq(Counts) /\ cs[s].poll = q
      /\ s = h.ws
  BY DEF SockSet, Connection, Follows
<1>2. Head(cs[s].pipe) \in Counts /\ Tail(cs[s].pipe) \in Seq(Counts)
  BY <1>1
<1>3. r \in Results
  BY <1>1, <1>2 DEF Results
<1>4. /\ g \in HookSet /\ g.results = r
      /\ g.status = h.status /\ g.attempts = h.attempts
      /\ g.timer = h.timer /\ g.ws = h.ws
  BY <1>3 DEF HookSet
<1>5. PICK c \in Connection : c = [cs[s] EXCEPT !.upset = FALSE]
  BY <1>1 DEF Connection
<1>6. /\ ds[s] \in Connection /\ ds[s].pipe = Tail(cs[s].pipe)
      /\ ds[s].sent = cs[s].sent /\ ds[s].open = cs[s].open
      /\ ds[s].poll = cs[s].poll
      /\ \A t \in Sockets : t # s => ds[t] = cs[t]
  <2>1. /\ ds[s] = [c EXCEPT !.pipe = Tail(@)]
        /\ \A t \in Sockets : t # s => ds[t] = cs[t]
    BY <1>5 DEF SockSet
  <2>2. /\ c.pipe = cs[s].pipe /\ c.sent = cs[s].sent
        /\ c.open = cs[s].open /\ c.poll = cs[s].poll
    BY <1>1, <1>5 DEF Connection
  <2>3. ds[s] = [c EXCEPT !.pipe = Tail(cs[s].pipe)]
    BY <2>1, <2>2
  <2>4. PICK e \in Seq(Counts) : e = Tail(cs[s].pipe)
    BY <1>2
  <2>5. /\ ds[s] \in Connection /\ ds[s].pipe = e
        /\ ds[s].sent = c.sent /\ ds[s].open = c.open /\ ds[s].poll = c.poll
    <3>1. PICK d : d = [c EXCEPT !.pipe = e]
      OBVIOUS
    <3>2. /\ d \in Connection /\ d.pipe = e
          /\ d.sent = c.sent /\ d.open = c.open /\ d.poll = c.poll
      BY <3>1, PipeChange
    <3>3. ds[s] = d
      BY <2>3, <2>4, <3>1
    <3>4. QED
      BY <3>2, <3>3
  <2>6. QED
    BY <2>1, <2>2, <2>4, <2>5
<1>7. ds \in SockSet /\ ds[s] # None
  BY <1>6, NoneAssumption DEF SockSet, NoneAssumption
<1>8. Follows(g, ds, q)
  BY <1>4, <1>6, <1>7 DEF Follows
<1>9. \A t \in Sockets : ds[t] # None => t = s
  BY <1>1, <1>6 DEF Follows
<1>10. Drained(g, ds, q, n)
  <2> SUFFICES ASSUME ds[s].sent
               PROVE  IF ds[s].pipe = <<>>
                      THEN ~ds[s].upset =>
                             g.results = [poll |-> q, total |-> n[q]]
                      ELSE ds[s].pipe[Len(ds[s].pipe)] = n[ds[s].poll]
    BY <1>9 DEF Drained
  <2>1. cs[s].pipe[Len(cs[s].pipe)] = n[q]
    BY <1>1, <1>6 DEF Drained
  <2>2. CASE Tail(cs[s].pipe) = <<>>
    <3>1. Head(cs[s].pipe) = n[q]
      BY <1>1, <2>1, <2>2, LastOfTail
    <3>2. QED
      BY <1>1, <1>4, <1>6, <2>2, <3>1
  <2>3. CASE Tail(cs[s].pipe) # <<>>
    <3>1. Tail(cs[s].pipe)[Len(Tail(cs[s].pipe))] = cs[s].pipe[Len(cs[s].pipe)]
      BY <1>1, <2>3, LastOfTail
    <3>2. ds[s].pipe # <<>> /\ ds[s].poll = q
      BY <1>1, <1>6, <2>3
    <3>3. ds[s].pipe[Len(ds[s].pipe)] = n[q]
      BY <1>6, <2>1, <3>1
    <3>4. QED
      BY <3>2, <3>3
  <2>4. QED
    BY <2>2, <2>3
<1>11. QED
  BY <1>3, <1>4, <1>7, <1>8, <1>10

-----------------------------------------------------------------------------
PageSet ==
    [kind : {"public", "results", "manage", "left"}, url : Polls,
     poll : Polls \cup {None}, closed : BOOLEAN, initial : Results \cup {None},
     loading : BOOLEAN, failed : BOOLEAN, voting : BOOLEAN, hasVoted : BOOLEAN]

ServerTypes ==
    /\ total \in [Polls -> Counts] /\ closed \subseteq Polls /\ voted \subseteq Polls
    /\ \A p \in Polls : total[p] <= MaxVotes[p]
    /\ unsent \in [Polls -> SUBSET Nat]
    /\ \A p \in Polls : unsent[p] \subseteq 1 .. total[p]

PageTypes ==
    /\ page \in PageSet
    /\ load \in [LoadSlots -> LoadCall \cup {None}]
    /\ vote \in VoteCall \cup {None}
    /\ closing \in CloseCall \cup {None}

HookInv ==
    /\ hook \in HookSet /\ sock \in SockSet
    /\ Follows(hook, sock, page.poll)
    /\ Drained(hook, sock, page.poll, total)

\* What the calls in flight are about.
LoadInv ==
    \A i \in LoadSlots : load[i] # None =>
       /\ Mounted /\ (page.kind # "manage" => load[i].poll = page.url)
       /\ load[i].results = "found" => load[i].total <= total[load[i].poll]

VoteInv ==
    vote # None =>
       /\ page.kind = "public" /\ vote.poll = page.poll
       /\ vote.stage \in {"stored", "ok", "already_voted"} => vote.poll \in voted
       /\ vote.stage = "ok" => vote.total <= total[vote.poll]

CloseInv == closing # None => page.kind = "manage"

\* Only a manage page comes to show another poll than that of its address, and
\* nobody votes there.
ShownInv ==
    /\ page.kind # "manage" => page.poll \in {None, page.url}
    /\ ~Mounted => page.poll = None
    /\ page.kind = "manage" => ~page.hasVoted
    /\ page.hasVoted => page.poll \in voted

PageInv ==
    /\ ServerTypes /\ PageTypes /\ HookInv
    /\ LoadInv /\ VoteInv /\ CloseInv /\ ShownInv

LEMMA CountFacts ==
    /\ Counts \subseteq Nat
    /\ \A p \in Polls : \A n \in Nat : n <= MaxVotes[p] => n \in Counts
    /\ 0 \in Counts
  BY LivePageAssumption DEF LivePageAssumption, Counts

LEMMA CountsAreNumbers == Counts \subseteq Nat
  BY CountFacts

LEMMA CallTypes ==
    ASSUME PageTypes
    PROVE  /\ \A i \in LoadSlots : load[i] # None =>
                 load[i] \in LoadCall /\ load[i].poll \in Polls
                   /\ load[i].total \in Nat /\ load[i].total \in Counts
           /\ vote # None =>
                 vote \in VoteCall /\ vote.poll \in Polls
                   /\ vote.total \in Nat /\ vote.total \in Counts
           /\ closing # None => closing \in CloseCall /\ closing.poll \in Polls
<1>1. ASSUME NEW i \in LoadSlots, load[i] # None
      PROVE  load[i] \in LoadCall
  BY <1>1 DEF PageTypes
<1>2. \A x \in LoadCall : x.poll \in Polls /\ x.total \in Counts
  BY DEF LoadCall
<1>3. \A x \in VoteCall : x.poll \in Polls /\ x.total \in Counts
  BY DEF VoteCall
<1>4. vote # None => vote \in VoteCall
  BY DEF PageTypes
<1>5. closing # None => closing \in CloseCall /\ closing.poll \in Polls
  BY DEF PageTypes, CloseCall
<1>6. QED
  BY <1>1, <1>2, <1>3, <1>4, <1>5, CountsAreNumbers

LEMMA AttemptFacts == MaxAttempts \in Nat
  BY LivePageAssumption DEF LivePageAssumption

LEMMA InitPageInv == Init => PageInv
<1> SUFFICES ASSUME Init PROVE PageInv
  OBVIOUS
<1>1. ServerTypes
  BY CountFacts, LivePageAssumption DEF Init, ServerTypes, LivePageAssumption
<1>2. (CHOOSE p \in Polls : TRUE) \in Polls
  BY LivePageAssumption DEF LivePageAssumption
<1>3. /\ page \in PageSet /\ page.kind = "left" /\ page.poll = None
      /\ page.initial = None /\ ~page.hasVoted
  BY <1>2 DEF Init, NoPage, FreshPage, PageSet
<1>4. PageTypes
  BY <1>3 DEF Init, PageTypes
<1>5. hook \in HookSet /\ sock \in SockSet
  BY LivePageAssumption
  DEF Init, FreshHook, HookSet, SockSet, Status, LivePageAssumption
<1>6. Follows(hook, sock, page.poll) /\ Drained(hook, sock, page.poll, total)
  BY <1>3, NoneAssumption
  DEF Init, FreshHook, Follows, Drained, NoneAssumption
<1>7. LoadInv /\ VoteInv /\ CloseInv /\ ShownInv
  BY <1>3 DEF Init, LoadInv, VoteInv, CloseInv, ShownInv, Mounted
<1>8. QED
  BY <1>1, <1>4, <1>5, <1>6, <1>7 DEF PageInv, HookInv

-----------------------------------------------------------------------------
\* Steps of the connections and of the reconnect timer.

\* Such a step leaves everything but the hook and the connections alone.
LEMMA NetworkStep ==
    ASSUME PageInv, UNCHANGED <<server, page, load, vote, closing>>, HookInv'
    PROVE  PageInv'
  BY DEF PageInv, ServerTypes, PageTypes, LoadInv, VoteInv, CloseInv, ShownInv,
         Mounted, server

\* The page has a poll whenever it has a connection.
LEMMA SocketFacts ==
    ASSUME PageInv, NEW s \in Sockets, sock[s] # None
    PROVE  /\ sock[s] \in Connection /\ s = hook.ws
           /\ page.poll \in Polls /\ sock[s].poll = page.poll
           /\ hook.timer = None /\ (sock[s].open <=> hook.status = "connected")
           /\ \A t \in Sockets : sock[t] # None => t = s
  BY DEF PageInv, PageTypes, PageSet, HookInv, SockSet, Follows

LEMMA SockOpensInv ==
    ASSUME PageInv, NEW s \in Sockets, SockOpens(s)
    PROVE  PageInv'
<1>1. /\ sock[s] # None /\ UNCHANGED <<server, page, load, vote, closing>>
      /\ hook' = [hook EXCEPT !.attempts = 0, !.status = "connected"]
      /\ sock' = [sock EXCEPT ![s].open = TRUE]
  BY DEF SockOpens
<1>2. /\ hook \in HookSet /\ sock \in SockSet
      /\ Follows(hook, sock, page.poll) /\ Drained(hook, sock, page.poll, total)
  BY DEF PageInv, HookInv
<1>3. /\ sock[s] \in Connection /\ s = hook.ws
      /\ page.poll \in Polls /\ sock[s].poll = page.poll /\ hook.timer = None
  BY <1>1, SocketFacts
<1>4. /\ hook' \in HookSet /\ hook'.status = "connected"
      /\ hook'.results = hook.results /\ hook'.ws = hook.ws
      /\ hook'.timer = None
  <2>1. 0 \in 0 .. MaxAttempts /\ "connected" \in Status
    BY AttemptFacts DEF Status
  <2>2. hook \in HookSet
    BY <1>2
  <2>3. hook' \in HookSet
    BY <1>1, <2>1, <2>2 DEF HookSet
  <2>4. /\ hook'.status = "connected" /\ hook'.results = hook.results
        /\ hook'.ws = hook.ws /\ hook'.timer = hook.timer
    BY <1>1, <2>2 DEF HookSet
  <2>5. QED
    BY <1>3, <2>3, <2>4
<1>5. /\ sock'[s] \in Connection /\ sock'[s].open /\ sock'[s].poll = sock[s].poll
      /\ sock'[s].sent = sock[s].sent /\ sock'[s].pipe = sock[s].pipe
      /\ sock'[s].upset = sock[s].upset
      /\ \A t \in Sockets : t # s => sock'[t] = sock[t]
  BY <1>1, <1>2, <1>3 DEF SockSet, Connection
<1>6. sock' \in SockSet /\ sock'[s] # None
  BY <1>1, <1>2, <1>5, NoneAssumption DEF SockSet, NoneAssumption
<1>7. Follows(hook', sock', page.poll)
  BY <1>1, <1>2, <1>3, <1>4, <1>5, <1>6, NoneAssumption
  DEF Follows, NoneAssumption
<1>8. Drained(hook', sock', page.poll, total)
  BY <1>1, <1>2, <1>4, <1>5, <1>6 DEF Drained
<1>9. HookInv'
  BY <1>1, <1>4, <1>6, <1>7, <1>8 DEF HookInv, server
<1>10. QED
  BY <1>1, <1>9, NetworkStep

LEMMA JoinsInv ==
    ASSUME PageInv, NEW s \in Sockets, Joins(s)
    PROVE  PageInv'
<1>1. /\ sock[s] # None /\ UNCHANGED <<server, page, hook, load, vote, closing>>
      /\ sock' = [sock EXCEPT ![s].joined = TRUE]
  BY DEF Joins
<1>2. /\ hook \in HookSet /\ sock \in SockSet
      /\ Follows(hook, sock, page.poll) /\ Drained(hook, sock, page.poll, total)
  BY DEF PageInv, HookInv
<1>3. sock[s] \in Connection
  BY <1>1, SocketFacts
<1>4. /\ sock'[s] \in Connection /\ sock'[s].poll = sock[s].poll
      /\ sock'[s].sent = sock[s].sent /\ sock'[s].pipe = sock[s].pipe
      /\ sock'[s].upset = sock[s].upset /\ sock'[s].open = sock[s].open
      /\ \A t \in Sockets : t # s => sock'[t] = sock[t]
  BY <1>1, <1>2, <1>3 DEF SockSet, Connection
<1>5. sock' \in SockSet /\ sock'[s] # None
  BY <1>1, <1>2, <1>4, NoneAssumption DEF SockSet, NoneAssumption
<1>6. Follows(hook, sock', page.poll)
  BY <1>1, <1>2, <1>4, <1>5 DEF Follows
<1>7. Drained(hook, sock', page.poll, total)
  BY <1>1, <1>2, <1>4, <1>5 DEF Drained
<1>8. HookInv'
  BY <1>1, <1>2, <1>5, <1>6, <1>7 DEF HookInv, server
<1>9. QED
  BY <1>1, <1>8, NetworkStep

\* Losing the connection starts the timer, unless it was the last attempt.
LEMMA SockFailsInv ==
    ASSUME PageInv, NEW s \in Sockets, SockFails(s)
    PROVE  PageInv'
<1>1. /\ sock[s] # None /\ UNCHANGED <<server, page, load, vote, closing>>
      /\ sock' = [sock EXCEPT ![s] = None]
  BY DEF SockFails
<1>2. hook \in HookSet /\ sock \in SockSet
  BY DEF PageInv, HookInv
<1>3. /\ page.poll \in Polls /\ sock[s].poll = page.poll /\ hook.timer = None
      /\ \A t \in Sockets : sock[t] # None => t = s
  BY <1>1, SocketFacts
<1>4. hook.attempts \in 0 .. MaxAttempts
  BY <1>2 DEF HookSet
<1>5. /\ hook' \in HookSet /\ hook'.results = hook.results /\ hook'.ws = None
      /\ \/ hook'.timer = page.poll /\ hook'.status = "reconnecting"
         \/ /\ hook'.timer = None /\ hook'.status = "disconnected"
            /\ hook'.attempts = MaxAttempts
  <2>1. CASE hook.attempts < MaxAttempts
    <3>1. hook' = [hook EXCEPT !.attempts = @ + 1, !.status = "reconnecting",
                               !.timer = sock[s].poll, !.ws = None]
      BY <1>4, <2>1, AttemptFacts DEF SockFails
    <3>2. hook.attempts + 1 \in 0 .. MaxAttempts
      BY <1>4, <2>1, AttemptFacts
    <3>3. hook' \in HookSet
      BY <1>2, <1>3, <3>1, <3>2 DEF HookSet, Status
    <3>4. QED
      BY <1>2, <1>3, <3>1, <3>3 DEF HookSet
  <2>2. CASE hook.attempts = MaxAttempts
    <3>1. hook' = [hook EXCEPT !.status = "disconnected", !.ws = None]
      BY <1>4, <2>2, AttemptFacts DEF SockFails
    <3>2. hook' \in HookSet
      BY <1>2, <3>1 DEF HookSet, Status
    <3>3. QED
      BY <1>2, <1>3, <2>2, <3>1, <3>2 DEF HookSet
  <2>3. QED
    BY <1>4, <2>1, <2>2, AttemptFacts
<1>6. sock' \in SockSet /\ \A t \in Sockets : sock'[t] = None
  BY <1>1, <1>2, <1>3 DEF SockSet
<1>7. Follows(hook', sock', page.poll) /\ Drained(hook', sock', page.poll, total)
  BY <1>3, <1>5, <1>6, NoneAssumption DEF Follows, Drained, NoneAssumption
<1>8. HookInv'
  BY <1>1, <1>5, <1>6, <1>7 DEF HookInv, server
<1>9. QED
  BY <1>1, <1>8, NetworkStep

\* The poll of the timer's closure is still the poll of the page.
LEMMA TimerFiresInv ==
    ASSUME PageInv, TimerFires
    PROVE  PageInv'
<1>1. /\ hook.timer # None /\ UNCHANGED <<server, page, load, vote, closing>>
      /\ hook' = Connect([hook EXCEPT !.timer = None], sock, hook.timer).hook
      /\ sock' = Connect([hook EXCEPT !.timer = None], sock, hook.timer).sock
  BY DEF TimerFires, Becomes
<1>2. /\ hook \in HookSet /\ sock \in SockSet
      /\ Follows(hook, sock, page.poll)
  BY DEF PageInv, HookInv
<1>3. /\ hook.timer = page.poll /\ page.poll \in Polls
      /\ \A s \in Sockets : sock[s] = None
  <2>1. page.poll # None
    BY <1>1, <1>2 DEF Follows
  <2>2. hook.ws = None
    BY <1>1, <1>2 DEF Follows, HookSet
  <2>3. QED
    BY <1>1, <1>2, <2>1, <2>2, NoneAssumption
    DEF Follows, PageInv, PageTypes, PageSet, NoneAssumption
<1>4. PICK h \in HookSet : h = [hook EXCEPT !.timer = None]
  BY <1>2 DEF HookSet
<1>5. h.timer = None /\ h.results = hook.results
  BY <1>2, <1>4 DEF HookSet
<1>6. /\ hook' \in HookSet /\ hook'.results = h.results /\ sock' \in SockSet
      /\ Follows(hook', sock', page.poll)
      /\ Drained(hook', sock', page.poll, total)
  BY <1>1, <1>2, <1>3, <1>4, <1>5, ConnectFollows
<1>7. HookInv'
  BY <1>1, <1>6 DEF HookInv, server
<1>8. QED
  BY <1>1, <1>7, NetworkStep

LEMMA DeliverInv ==
    ASSUME PageInv, NEW s \in Sockets, Deliver(s)
    PROVE  PageInv'
<1>1. sock[s] # None /\ UNCHANGED <<server, page, load, vote, closing>>
  BY DEF Deliver
<1>2. /\ hook \in HookSet /\ sock \in SockSet /\ total \in [Polls -> Counts]
      /\ Follows(hook, sock, page.poll) /\ Drained(hook, sock, page.poll, total)
  BY DEF PageInv, HookInv, ServerTypes
<1>3. /\ sock[s] \in Connection /\ sock[s].pipe \in Seq(Counts)
      /\ page.poll \in Polls /\ sock[s].poll = page.poll
  BY <1>1, SocketFacts DEF Connection
<1>4. CASE /\ sock[s].pipe # <<>>
           /\ hook' = Received(s).hook
           /\ sock' = [Received(s).sock EXCEPT ![s].pipe = Tail(@)]
  <2>1. PICK r : r = [poll |-> sock[s].poll, total |-> Head(sock[s].pipe)]
    OBVIOUS
  <2>2. /\ r \in Results /\ hook' \in HookSet /\ hook'.results = r
        /\ sock' \in SockSet
        /\ Follows(hook', sock', page.poll)
        /\ Drained(hook', sock', page.poll, total)
    <3>1. /\ hook' = [hook EXCEPT !.results = r]
          /\ sock' = [[sock EXCEPT ![s].upset = FALSE] EXCEPT ![s].pipe = Tail(@)]
      BY <1>4, <2>1 DEF Received
    <3>2. QED
      BY <1>1, <1>2, <1>3, <1>4, <2>1, <3>1, ReceivedDrained, SMTT(60)
  <2>3. HookInv'
    BY <1>1, <2>2 DEF HookInv, server
  <2>4. QED
    BY <1>1, <2>3, NetworkStep
<1>5. ASSUME NEW k \in 2 .. MaxBatch, Len(sock[s].pipe) >= k,
             sock' = [sock EXCEPT ![s].pipe = SubSeq(@, k + 1, Len(@)),
                                  ![s].upset = TRUE],
             UNCHANGED hook
      PROVE  PageInv'
  <2>1. PICK q \in Seq(Counts) : q = sock[s].pipe
    BY <1>3
  <2>2. PICK e : e = SubSeq(q, k + 1, Len(q))
    OBVIOUS
  <2>3. /\ e \in Seq(Counts) /\ Len(q) \in Nat
        /\ e # <<>> => e[Len(e)] = q[Len(q)] /\ q # <<>>
    <3>1. k \in Nat /\ Len(q) \in Nat /\ k <= Len(q) /\ k >= 2
      BY <1>5, <2>1
    <3>2. e \in Seq(Counts) /\ Len(e) = Len(q) - k
      BY <2>2, <3>1
    <3>3. ASSUME e # <<>>
          PROVE  e[Len(e)] = q[Len(q)]
      <4>1. Len(e) # 0
        BY <3>2, <3>3, EmptySeq
      <4>2. Len(e) \in 1 .. Len(q) - k
        BY <3>1, <3>2, <4>1
      <4>3. \A i \in 1 .. Len(q) - (k + 1) + 1 : e[i] = q[(k + 1) + i - 1]
        BY <2>2, <3>1, SubSeqProperties
      <4>4. /\ Len(e) \in 1 .. Len(q) - (k + 1) + 1
            /\ (k + 1) + Len(e) - 1 = Len(q)
        BY <3>1, <3>2, <4>2
      <4>5. e[Len(e)] = q[(k + 1) + Len(e) - 1]
        BY <4>3, <4>4
      <4>6. QED
        BY <4>4, <4>5
    <3>4. QED
      BY <3>1, <3>2, <3>3
  <2>4. /\ sock'[s] \in Connection /\ sock'[s].poll = sock[s].poll
        /\ sock'[s].sent = sock[s].sent /\ sock'[s].pipe = e
        /\ sock'[s].upset /\ sock'[s].open = sock[s].open
        /\ \A t \in Sockets : t # s => sock'[t] = sock[t]
    BY <1>2, <1>3, <1>5, <2>1, <2>2, <2>3 DEF SockSet, Connection
  <2>5. sock' \in SockSet /\ sock'[s] # None
    BY <1>2, <1>5, <2>4, NoneAssumption DEF SockSet, NoneAssumption
  <2>6. Follows(hook', sock', page.poll)
    BY <1>1, <1>2, <1>5, <2>4, <2>5 DEF Follows
  <2>7. Drained(hook', sock', page.poll, total)
    <3>1. \A t \in Sockets : sock'[t] # None => t = s
      BY <1>1, <2>4, SocketFacts
    <3>2. ASSUME sock'[s].sent, e # <<>>
          PROVE  e[Len(e)] = total[sock[s].poll]
      BY <1>1, <1>2, <2>1, <2>3, <2>4, <3>2 DEF Drained
    <3>3. QED
      BY <2>4, <3>1, <3>2 DEF Drained
  <2>8. HookInv'
    BY <1>1, <1>2, <1>5, <2>5, <2>6, <2>7 DEF HookInv, server
  <2>9. QED
    BY <1>1, <2>8, NetworkStep
<1>6. QED
  BY <1>4, <1>5 DEF Deliver

-----------------------------------------------------------------------------
\* Steps of the server.  The totals and the votes of this browser only grow.
LEMMA GrowingKeeps ==
    ASSUME PageInv, ServerTypes', UNCHANGED <<page, load, closing>>,
           voted \subseteq voted', \A p \in Polls : total[p] <= total'[p]
    PROVE  LoadInv' /\ CloseInv' /\ ShownInv' /\ (UNCHANGED vote => VoteInv')
<1>1. \A p \in Polls : total[p] \in Int /\ total'[p] \in Int
  <2>1. total \in [Polls -> Counts] /\ total' \in [Polls -> Counts]
    BY DEF PageInv, ServerTypes
  <2>2. \A p \in Polls : total[p] \in Counts /\ total'[p] \in Counts
    BY <2>1
  <2>3. \A n \in Counts : n \in Int
    BY CountsAreNumbers
  <2>4. QED
    BY <2>2, <2>3
<1>2. LoadInv'
  <2> SUFFICES ASSUME NEW i \in LoadSlots, load[i] # None,
                      load[i].results = "found"
               PROVE  load[i].total <= total'[load[i].poll]
    BY DEF PageInv, LoadInv, Mounted
  <2>1. load[i].poll \in Polls /\ load[i].total \in Int
    BY CallTypes DEF PageInv
  <2>2. load[i].total <= total[load[i].poll]
    BY DEF PageInv, LoadInv
  <2>3. QED
    BY <1>1, <2>1, <2>2
<1>3. CloseInv' /\ ShownInv'
  BY DEF PageInv, CloseInv, ShownInv, Mounted
<1>4. ASSUME UNCHANGED vote
      PROVE  VoteInv'
  <2> SUFFICES ASSUME vote # None, vote.stage = "ok"
               PROVE  vote.total <= total'[vote.poll]
    BY <1>4 DEF PageInv, VoteInv
  <2>1. vote.poll \in Polls /\ vote.total \in Int
    BY CallTypes DEF PageInv
  <2>2. vote.total <= total[vote.poll]
    BY DEF PageInv, VoteInv
  <2>3. QED
    BY <1>1, <2>1, <2>2
<1>5. QED
  BY <1>2, <1>3, <1>4

LEMMA CountGrows ==
    ASSUME PageInv, NEW p \in Polls, Count(p), UNCHANGED closed,
           voted' \in SUBSET Polls
    PROVE  /\ ServerTypes'
           /\ \A q \in Polls : total[q] <= total'[q]
           /\ \A q \in Polls : q # p => total'[q] = total[q]
<1>1. /\ total \in [Polls -> Counts] /\ Counts \subseteq Nat
      /\ closed \subseteq Polls /\ unsent \in [Polls -> SUBSET Nat]
      /\ \A q \in Polls : unsent[q] \subseteq 1 .. total[q]
      /\ \A q \in Polls : total[q] <= MaxVotes[q] /\ MaxVotes[q] \in Nat
  BY CountFacts, LivePageAssumption DEF PageInv, ServerTypes, LivePageAssumption
<1>2. /\ total[p] < MaxVotes[p] /\ total' = [total EXCEPT ![p] = @ + 1]
      /\ unsent' = [unsent EXCEPT ![p] = @ \cup {total[p] + 1}]
  BY DEF Count
<1>3. total[p] \in Nat /\ total[p] + 1 <= MaxVotes[p]
  <2>1. total[p] \in Nat /\ MaxVotes[p] \in Nat
    BY <1>1
  <2>2. QED
    BY <1>2, <2>1
<1>4. total[p] + 1 \in Counts
  BY <1>3, CountFacts
<1>5. /\ total' \in [Polls -> Counts] /\ total'[p] = total[p] + 1
      /\ \A q \in Polls : q # p => total'[q] = total[q]
  BY <1>1, <1>2, <1>4
<1>6. /\ unsent' \in [Polls -> SUBSET Nat]
      /\ unsent'[p] = unsent[p] \cup {total[p] + 1}
      /\ \A q \in Polls : q # p => unsent'[q] = unsent[q]
  BY <1>1, <1>2, <1>3
<1>7. \A q \in Polls : unsent'[q] \subseteq 1 .. total'[q]
  BY <1>1, <1>3, <1>5, <1>6
<1>8. \A q \in Polls : total'[q] <= MaxVotes[q]
  <2>1. ASSUME NEW q \in Polls
        PROVE  total'[q] <= MaxVotes[q]
    <3>1. CASE q = p
      BY <1>3, <1>5, <3>1
    <3>2. CASE q # p
      BY <1>1, <1>5, <3>2
    <3>3. QED
      BY <3>1, <3>2
  <2>2. QED
    BY <2>1
<1>9. \A q \in Polls : total[q] <= total'[q]
  <2>1. \A q \in Polls : total[q] \in Nat
    BY <1>1
  <2>2. QED
    BY <1>5, <2>1
<1>10. QED
  BY <1>1, <1>5, <1>6, <1>7, <1>8, <1>9 DEF ServerTypes

\* A vote makes what was sent to the connections of its poll out of date.
LEMMA OutdatedHook ==
    ASSUME PageInv, NEW p \in Polls, sock' = Outdated(p),
           UNCHANGED <<page, hook>>,
           \A q \in Polls : q # p => total'[q] = total[q]
    PROVE  HookInv'
<1>1. /\ hook \in HookSet /\ sock \in SockSet
      /\ Follows(hook, sock, page.poll) /\ Drained(hook, sock, page.poll, total)
  BY DEF PageInv, HookInv
<1>2. ASSUME NEW s \in Sockets, sock[s] # None
      PROVE  /\ sock'[s] \in Connection /\ sock'[s] # None
             /\ sock'[s].poll = sock[s].poll /\ sock'[s].open = sock[s].open
             /\ sock[s].poll = p => ~sock'[s].sent
             /\ sock[s].poll # p => sock'[s] = sock[s]
  <2>1. sock[s] \in Connection
    BY <1>2, SocketFacts
  <2>2. sock'[s] = IF sock[s].poll = p THEN [sock[s] EXCEPT !.sent = FALSE]
                   ELSE sock[s]
    BY <1>2 DEF Outdated
  <2>3. [sock[s] EXCEPT !.sent = FALSE] \in Connection
    BY <2>1 DEF Connection
  <2>4. sock'[s] \in Connection /\ sock'[s] # None
    BY <2>1, <2>2, <2>3, NoneAssumption DEF NoneAssumption
  <2>5. QED
    BY <2>1, <2>2, <2>4 DEF Connection
<1>3. \A s \in Sockets : sock[s] = None => sock'[s] = None
  BY DEF Outdated
<1>4. sock' \in SockSet
  <2>1. sock' = [s \in Sockets |-> sock'[s]]
    BY DEF Outdated
  <2>2. QED
    BY <1>2, <1>3, <2>1 DEF SockSet
<1>5. Follows(hook, sock', page.poll)
  BY <1>1, <1>2, <1>3 DEF Follows
<1>6. Drained(hook, sock', page.poll, total')
  <2> SUFFICES ASSUME NEW s \in Sockets, sock'[s] # None, sock'[s].sent
               PROVE  IF sock'[s].pipe = <<>>
                      THEN ~sock'[s].upset =>
                             hook.results = [poll |-> page.poll,
                                             total |-> total'[page.poll]]
                      ELSE sock'[s].pipe[Len(sock'[s].pipe)]
                             = total'[sock'[s].poll]
    BY DEF Drained
  <2>1. sock[s] # None /\ sock[s].poll # p /\ sock'[s] = sock[s]
    BY <1>2, <1>3
  <2>2. page.poll \in Polls /\ sock[s].poll = page.poll
    BY <2>1, SocketFacts
  <2>3. total'[page.poll] = total[page.poll]
    BY <2>1, <2>2
  <2>4. QED
    BY <1>1, <2>1, <2>2, <2>3 DEF Drained
<1>7. QED
  BY <1>1, <1>4, <1>5, <1>6 DEF HookInv

LEMMA OthersVoteInv ==
    ASSUME PageInv, NEW p \in Polls, OthersVote(p)
    PROVE  PageInv'
<1>1. /\ Count(p) /\ sock' = Outdated(p)
      /\ UNCHANGED <<closed, voted, page, hook, load, vote, closing>>
  BY DEF OthersVote
<1>2. /\ ServerTypes' /\ \A q \in Polls : total[q] <= total'[q]
      /\ \A q \in Polls : q # p => total'[q] = total[q]
  BY <1>1, CountGrows DEF PageInv, ServerTypes
<1>3. HookInv'
  BY <1>1, <1>2, OutdatedHook
<1>4. LoadInv' /\ CloseInv' /\ ShownInv' /\ VoteInv'
  BY <1>1, <1>2, GrowingKeeps
<1>5. PageTypes'
  BY <1>1 DEF PageInv, PageTypes
<1>6. QED
  BY <1>2, <1>3, <1>4, <1>5 DEF PageInv

LEMMA VoteElsewhereInv ==
    ASSUME PageInv, NEW p \in Polls, VoteElsewhere(p)
    PROVE  PageInv'
<1>1. /\ Count(p) /\ sock' = Outdated(p) /\ voted' = voted \cup {p}
      /\ UNCHANGED <<closed, page, hook, load, vote, closing>>
  BY DEF VoteElsewhere
<1>2. voted' \in SUBSET Polls /\ voted \subseteq voted'
  BY <1>1 DEF PageInv, ServerTypes
<1>3. /\ ServerTypes' /\ \A q \in Polls : total[q] <= total'[q]
      /\ \A q \in Polls : q # p => total'[q] = total[q]
  BY <1>1, <1>2, CountGrows
<1>4. HookInv'
  BY <1>1, <1>3, OutdatedHook
<1>5. LoadInv' /\ CloseInv' /\ ShownInv' /\ VoteInv'
  BY <1>1, <1>2, <1>3, GrowingKeeps
<1>6. PageTypes'
  BY <1>1 DEF PageInv, PageTypes
<1>7. QED
  BY <1>3, <1>4, <1>5, <1>6 DEF PageInv

LEMMA CloseElsewhereInv ==
    ASSUME PageInv, NEW p \in Polls, CloseElsewhere(p)
    PROVE  PageInv'
<1>1. UNCHANGED <<total, voted, unsent, page, hook, sock, load, vote, closing>>
  BY DEF CloseElsewhere, browser
<1>2. ServerTypes'
  BY DEF CloseElsewhere, PageInv, ServerTypes
<1>3. PageTypes' /\ HookInv'
  BY <1>1 DEF PageInv, PageTypes, HookInv
<1>4. LoadInv' /\ VoteInv' /\ CloseInv' /\ ShownInv'
  BY <1>1 DEF PageInv, LoadInv, VoteInv, CloseInv, ShownInv, Mounted
<1>5. QED
  BY <1>2, <1>3, <1>4 DEF PageInv

\* An event is appended to what is on the way; `sent` says whether it is current.
LEMMA PublishInv ==
    ASSUME PageInv, NEW p \in Polls, Publish(p)
    PROVE  PageInv'
<1>1. /\ hook \in HookSet /\ sock \in SockSet
      /\ Follows(hook, sock, page.poll) /\ Drained(hook, sock, page.poll, total)
      /\ unsent \in [Polls -> SUBSET Nat] /\ total \in [Polls -> Counts]
      /\ \A q \in Polls : unsent[q] \subseteq 1 .. total[q]
      /\ \A q \in Polls : total[q] <= MaxVotes[q]
  BY DEF PageInv, HookInv, ServerTypes
<1>2. PICK v \in unsent[p] :
         /\ unsent' = [unsent EXCEPT ![p] = @ \ {v}]
         /\ \/ UNCHANGED sock
            \/ \E w \in v .. total[p] :
                  sock' = [s \in Sockets |->
                      IF sock[s] # None /\ sock[s].joined /\ sock[s].poll = p
                      THEN [sock[s] EXCEPT !.pipe = Append(@, w),
                                           !.sent = (w = total[p])]
                      ELSE sock[s]]
         /\ UNCHANGED <<total, closed, voted, page, hook, load, vote, closing>>
  BY DEF Publish
<1>3. ServerTypes'
  <2>1. unsent' \in [Polls -> SUBSET Nat]
    BY <1>1, <1>2
  <2>2. \A q \in Polls : unsent'[q] \subseteq unsent[q]
    BY <1>1, <1>2
  <2>3. QED
    BY <1>1, <1>2, <2>1, <2>2 DEF PageInv, ServerTypes
<1>4. PageTypes' /\ LoadInv' /\ VoteInv' /\ CloseInv' /\ ShownInv'
  BY <1>2
  DEF PageInv, PageTypes, LoadInv, VoteInv, CloseInv, ShownInv, Mounted
<1>5. CASE UNCHANGED sock
  BY <1>2, <1>3, <1>4, <1>5 DEF PageInv, HookInv
<1>6. ASSUME NEW w \in v .. total[p],
             sock' = [s \in Sockets |->
                 IF sock[s] # None /\ sock[s].joined /\ sock[s].poll = p
                 THEN [sock[s] EXCEPT !.pipe = Append(@, w), !.sent = (w = total[p])]
                 ELSE sock[s]]
      PROVE  PageInv'
  <2>1. w \in Counts
    <3>1. total[p] \in Nat /\ v \in Nat
      BY <1>1, CountsAreNumbers
    <3>2. w \in Nat /\ w <= MaxVotes[p]
      <4>1. MaxVotes[p] \in Nat
        BY LivePageAssumption DEF LivePageAssumption
      <4>2. QED
        BY <1>1, <3>1, <4>1
    <3>3. QED
      BY <3>2, CountFacts
  <2>2. ASSUME NEW s \in Sockets, sock[s] # None, sock'[s] # sock[s]
        PROVE  /\ sock'[s] \in Connection /\ sock'[s] # None
               /\ sock'[s].poll = sock[s].poll /\ sock'[s].open = sock[s].open
               /\ sock'[s].pipe # <<>> /\ sock[s].poll = p
               /\ sock'[s].sent =>
                    sock'[s].pipe[Len(sock'[s].pipe)] = total[sock'[s].poll]
    <3>1. /\ sock[s] \in Connection /\ sock[s].poll = p
          /\ sock'[s] = [sock[s] EXCEPT !.pipe = Append(@, w),
                                        !.sent = (w = total[p])]
      BY <1>6, <2>2, SocketFacts
    <3>2. PICK q \in Seq(Counts) : q = sock[s].pipe
      BY <3>1 DEF Connection
    <3>3. PICK e : e = Append(q, w)
      OBVIOUS
    <3>4. e \in Seq(Counts) /\ e # <<>> /\ e[Len(e)] = w
      BY <2>1, <3>3
    <3>5. /\ sock'[s] \in Connection /\ sock'[s].pipe = e
          /\ sock'[s].sent = (w = total[p])
          /\ sock'[s].poll = sock[s].poll /\ sock'[s].open = sock[s].open
      BY <3>1, <3>2, <3>3, <3>4 DEF Connection
    <3>6. QED
      BY <3>1, <3>4, <3>5, NoneAssumption DEF NoneAssumption
  <2>3. \A s \in Sockets : sock[s] = None => sock'[s] = None
    BY <1>6
  <2>4. sock' \in SockSet
    <3>1. sock' = [s \in Sockets |-> sock'[s]]
      BY <1>6
    <3>2. \A s \in Sockets : sock'[s] \in Connection \cup {None}
      BY <1>1, <2>2, <2>3 DEF SockSet
    <3>3. QED
      BY <3>1, <3>2 DEF SockSet
  <2>5. Follows(hook, sock', page.poll)
    BY <1>1, <2>2, <2>3 DEF Follows
  <2>6. Drained(hook, sock', page.poll, total)
    BY <1>1, <2>2, <2>3 DEF Drained
  <2>7. HookInv'
    BY <1>1, <1>2, <2>4, <2>5, <2>6 DEF HookInv
  <2>8. QED
    BY <1>3, <1>4, <2>7 DEF PageInv
<1>7. QED
  BY <1>2, <1>5, <1>6

LEMMA ServeResultsInv ==
    ASSUME PageInv, NEW i \in LoadSlots, ServeResults(i)
    PROVE  PageInv'
<1>1. load[i] # None /\ UNCHANGED <<server, browser, vote, closing>>
  BY DEF ServeResults
<1>2. load[i] \in LoadCall /\ load[i].poll \in Polls
  BY <1>1, CallTypes DEF PageInv
<1>3. total \in [Polls -> Counts] /\ load \in [LoadSlots -> LoadCall \cup {None}]
  BY DEF PageInv, ServerTypes, PageTypes
<1>4. total[load[i].poll] \in Counts
  BY <1>2, <1>3
<1>5. PICK c : load' = [load EXCEPT ![i] = c] /\ c \in LoadCall
                 /\ c.poll = load[i].poll
                 /\ (c.results = "found" => c.total = total[load[i].poll])
  <2>1. CASE load' = [load EXCEPT ![i].results = "null"]
    <3>1. PICK c : c = [load[i] EXCEPT !.results = "null"]
      OBVIOUS
    <3>2. /\ c \in LoadCall /\ c.poll = load[i].poll /\ c.results = "null"
          /\ load' = [load EXCEPT ![i] = c]
      BY <1>2, <1>3, <2>1, <3>1 DEF LoadCall
    <3>3. QED
      BY <3>2
  <2>2. CASE load' = [load EXCEPT ![i].results = "found",
                                  ![i].total = total[load[i].poll]]
    <3>1. PICK c : c = [load[i] EXCEPT !.results = "found",
                                       !.total = total[load[i].poll]]
      OBVIOUS
    <3>2. /\ c \in LoadCall /\ c.poll = load[i].poll
          /\ c.total = total[load[i].poll]
      BY <1>2, <1>4, <3>1 DEF LoadCall
    <3>3. load' = [load EXCEPT ![i] = c]
      BY <1>3, <2>2, <3>1
    <3>4. QED
      BY <3>2, <3>3
  <2>3. QED
    BY <2>1, <2>2 DEF ServeResults
<1>6. /\ load' \in [LoadSlots -> LoadCall \cup {None}] /\ load'[i] = c
      /\ \A j \in LoadSlots : j # i => load'[j] = load[j]
  BY <1>3, <1>5
<1>7. ServerTypes' /\ PageTypes' /\ HookInv' /\ VoteInv' /\ CloseInv' /\ ShownInv'
  BY <1>1, <1>6
  DEF PageInv, ServerTypes, PageTypes, HookInv, VoteInv, CloseInv, ShownInv,
      Mounted, server, browser
<1>8. LoadInv'
  <2> SUFFICES ASSUME NEW j \in LoadSlots, load'[j] # None
               PROVE  /\ Mounted
                      /\ page.kind # "manage" => load'[j].poll = page.url
                      /\ load'[j].results = "found" =>
                            load'[j].total <= total[load'[j].poll]
    BY <1>1 DEF LoadInv, Mounted, server, browser
  <2>1. CASE j # i
    BY <1>6, <2>1 DEF PageInv, LoadInv
  <2>2. CASE j = i
    <3>1. total[load[i].poll] <= total[load[i].poll]
      <4>1. \A n \in Counts : n <= n
        BY CountsAreNumbers
      <4>2. QED
        BY <1>4, <4>1
    <3>2. QED
      BY <1>1, <1>5, <1>6, <2>2, <3>1 DEF PageInv, LoadInv
  <2>3. QED
    BY <2>1, <2>2
<1>9. QED
  BY <1>7, <1>8 DEF PageInv

\* A reply keeps what the vote is about.
LEMMA ReplyFacts ==
    ASSUME PageInv, vote # None,
           NEW a \in {"sent", "stored"} \cup VoteAnswered, NEW n \in Counts,
           Reply(a, n)
    PROVE  /\ vote' \in VoteCall /\ vote' # None
           /\ vote'.poll = vote.poll /\ vote'.stage = a /\ vote'.total = n
<1>1. vote \in VoteCall
  BY CallTypes DEF PageInv
<1>2. vote' = [vote EXCEPT !.stage = a, !.total = n]
  BY DEF Reply
<1>3. /\ vote' \in VoteCall
      /\ vote'.poll = vote.poll /\ vote'.stage = a /\ vote'.total = n
  BY <1>1, <1>2 DEF VoteCall
<1>4. QED
  BY <1>3, NoneAssumption DEF NoneAssumption

\* The vote is stored before the answer that says so.
LEMMA ServeVoteInv ==
    ASSUME PageInv, ServeVote
    PROVE  PageInv'
<1>1. vote # None /\ UNCHANGED <<page, hook, load, closing>>
  BY DEF ServeVote
<1>2. vote.poll \in Polls /\ voted \subseteq Polls
  BY <1>1, CallTypes DEF PageInv, ServerTypes
<1>3. ASSUME NEW a \in {"failed", "poll_closed", "already_voted"}, Reply(a, 0),
             a = "already_voted" => vote.poll \in voted,
             UNCHANGED <<server, sock>>
      PROVE  PageInv'
  <2>1. /\ vote' \in VoteCall /\ vote'.poll = vote.poll
        /\ vote'.stage = a
    BY <1>1, <1>3, ReplyFacts, CountFacts DEF VoteAnswered
  <2>2. VoteInv'
    BY <1>1, <1>3, <2>1 DEF PageInv, VoteInv, server
  <2>3. PageTypes'
    BY <1>1, <2>1 DEF PageInv, PageTypes
  <2>4. ServerTypes' /\ HookInv' /\ LoadInv' /\ CloseInv' /\ ShownInv'
    BY <1>1, <1>3
    DEF PageInv, ServerTypes, HookInv, LoadInv, CloseInv, ShownInv, Mounted,
        server
  <2>5. QED
    BY <2>2, <2>3, <2>4 DEF PageInv
<1>4. ASSUME Count(vote.poll), voted' = voted \cup {vote.poll},
             sock' = Outdated(vote.poll), Reply("stored", 0), UNCHANGED closed
      PROVE  PageInv'
  <2>1. PICK p \in Polls : p = vote.poll
    BY <1>2
  <2>2. voted' \in SUBSET Polls /\ voted \subseteq voted' /\ p \in voted'
    BY <1>2, <1>4, <2>1
  <2>3. /\ ServerTypes' /\ \A q \in Polls : total[q] <= total'[q]
        /\ \A q \in Polls : q # p => total'[q] = total[q]
    BY <1>4, <2>1, <2>2, CountGrows
  <2>4. HookInv'
    BY <1>1, <1>4, <2>1, <2>3, OutdatedHook
  <2>5. LoadInv' /\ CloseInv' /\ ShownInv'
    BY <1>1, <2>2, <2>3, GrowingKeeps
  <2>6. /\ vote' \in VoteCall /\ vote'.poll = p
        /\ vote'.stage = "stored"
    BY <1>1, <1>4, <2>1, ReplyFacts, CountFacts
  <2>7. VoteInv'
    BY <1>1, <2>1, <2>2, <2>6 DEF PageInv, VoteInv
  <2>8. PageTypes'
    BY <1>1, <2>6 DEF PageInv, PageTypes
  <2>9. QED
    BY <2>3, <2>4, <2>5, <2>7, <2>8 DEF PageInv
<1>5. QED
  BY <1>3, <1>4 DEF ServeVote

LEMMA ServeVoteResultsInv ==
    ASSUME PageInv, ServeVoteResults
    PROVE  PageInv'
<1>1. /\ vote # None /\ vote.stage = "stored"
      /\ UNCHANGED <<server, browser, load, closing>>
  BY DEF ServeVoteResults
<1>2. total[vote.poll] \in Counts
  BY <1>1, CallTypes DEF PageInv, ServerTypes
<1>3. PICK a \in {"ok", "failed"}, n \in Counts :
         Reply(a, n) /\ (a = "ok" => n = total[vote.poll])
  BY <1>2, CountFacts DEF ServeVoteResults
<1>4. /\ vote' \in VoteCall /\ vote'.poll = vote.poll
      /\ vote'.stage = a /\ vote'.total = n
  BY <1>1, <1>3, ReplyFacts DEF VoteAnswered
<1>5. VoteInv'
  <2>1. \A x \in Counts : x <= x
    BY CountsAreNumbers
  <2>2. vote.poll \in voted
    BY <1>1 DEF PageInv, VoteInv
  <2>3. QED
    BY <1>1, <1>2, <1>3, <1>4, <2>1, <2>2
    DEF PageInv, VoteInv, server, browser
<1>6. PageTypes'
  BY <1>1, <1>4 DEF PageInv, PageTypes, browser
<1>7. ServerTypes' /\ HookInv' /\ LoadInv' /\ CloseInv' /\ ShownInv'
  BY <1>1
  DEF PageInv, ServerTypes, HookInv, LoadInv, CloseInv, ShownInv, Mounted,
      server, browser
<1>8. QED
  BY <1>5, <1>6, <1>7 DEF PageInv

-----------------------------------------------------------------------------
\* Steps of the page.
LEMMA FreshFacts ==
    ASSUME NEW k \in {"public", "results", "manage", "left"}, NEW p \in Polls
    PROVE  /\ FreshPage(k, p) \in PageSet /\ FreshPage(k, p).kind = k
           /\ FreshPage(k, p).url = p /\ FreshPage(k, p).poll = None
           /\ FreshPage(k, p).initial = None /\ ~FreshPage(k, p).hasVoted
           /\ FreshHook \in HookSet
<1>1. FreshHook \in HookSet
  BY AttemptFacts DEF FreshHook, HookSet, Status
<1>2. QED
  BY <1>1 DEF FreshPage, PageSet

LEMMA FreshFollows ==
    ASSUME NEW cs, \A s \in Sockets : cs[s] = None, NEW n
    PROVE  Follows(FreshHook, cs, None) /\ Drained(FreshHook, cs, None, n)
<1>1. FreshHook.ws = None /\ FreshHook.timer = None
  BY DEF FreshHook
<1>2. QED
  BY <1>1, NothingFollows

LEMMA OpenInv ==
    ASSUME PageInv, NEW k \in {"public", "results", "manage"}, NEW p \in Polls,
           Open(k, p)
    PROVE  PageInv'
<1>1. /\ ~Mounted /\ page' = FreshPage(k, p) /\ hook' = FreshHook
      /\ load' = [load EXCEPT ![1] = Loading(p)]
      /\ UNCHANGED <<server, sock, vote, closing>>
  BY DEF Open
<1>2. /\ page.poll = None /\ page.kind = "left"
      /\ \A i \in LoadSlots : load[i] = None
      /\ load \in [LoadSlots -> LoadCall \cup {None}]
  BY <1>1 DEF PageInv, ShownInv, LoadInv, PageTypes, Mounted
<1>3. \A s \in Sockets : sock[s] = None
  BY <1>2, NoneAssumption DEF PageInv, HookInv, Follows, NoneAssumption
<1>4. /\ page' \in PageSet /\ page'.kind = k /\ page'.url = p
      /\ page'.poll = None /\ page'.initial = None /\ ~page'.hasVoted
      /\ hook' \in HookSet
  BY <1>1, FreshFacts
<1>5. HookInv'
  BY <1>1, <1>3, <1>4, FreshFollows DEF PageInv, HookInv, server
<1>6. Loading(p) \in LoadCall /\ Loading(p).poll = p
        /\ Loading(p).results = "waiting"
  BY CountFacts DEF Loading, LoadCall
<1>7. /\ load' \in [LoadSlots -> LoadCall \cup {None}]
      /\ \A i \in LoadSlots : load'[i] # None =>
            load'[i].poll = p /\ load'[i].results = "waiting"
  BY <1>1, <1>2, <1>6
<1>8. ServerTypes' /\ PageTypes'
  BY <1>1, <1>4, <1>7 DEF PageInv, ServerTypes, PageTypes, server
<1>9. LoadInv'
  BY <1>4, <1>7 DEF LoadInv, Mounted
<1>10. VoteInv' /\ CloseInv'
  BY <1>1, <1>2 DEF PageInv, VoteInv, CloseInv
<1>11. ShownInv'
  BY <1>4 DEF ShownInv, Mounted
<1>12. QED
  BY <1>5, <1>8, <1>9, <1>10, <1>11 DEF PageInv

LEMMA MoveInv ==
    ASSUME PageInv, NEW p \in Polls, Move(p)
    PROVE  PageInv'
<1>1. /\ page.kind = "manage" /\ page' = [page EXCEPT !.url = p]
      /\ UNCHANGED <<server, hook, sock, vote, closing>>
  BY DEF Move
<1>2. PICK i \in LoadSlots :
         load[i] = None /\ load' = [load EXCEPT ![i] = Loading(p)]
  BY DEF Move
<1>3. page \in PageSet /\ load \in [LoadSlots -> LoadCall \cup {None}]
  BY DEF PageInv, PageTypes
<1>4. /\ page' \in PageSet /\ page'.kind = page.kind /\ page'.poll = page.poll
      /\ page'.initial = page.initial /\ page'.hasVoted = page.hasVoted
  BY <1>1, <1>3 DEF PageSet
<1>5. Loading(p) \in LoadCall /\ Loading(p).results = "waiting"
  BY CountFacts DEF Loading, LoadCall
<1>6. /\ load' \in [LoadSlots -> LoadCall \cup {None}]
      /\ \A j \in LoadSlots : load'[j] = load[j]
                                \/ load'[j].results = "waiting"
  BY <1>2, <1>3, <1>5
<1>7. ServerTypes' /\ PageTypes' /\ HookInv'
  BY <1>1, <1>4, <1>6 DEF PageInv, ServerTypes, PageTypes, HookInv, server
<1>8. LoadInv'
  BY <1>1, <1>4, <1>6 DEF PageInv, LoadInv, Mounted, server
<1>9. VoteInv' /\ CloseInv'
  BY <1>1, <1>4 DEF PageInv, VoteInv, CloseInv, server
<1>10. ShownInv'
  BY <1>1, <1>4 DEF PageInv, ShownInv, Mounted, server
<1>11. QED
  BY <1>7, <1>8, <1>9, <1>10 DEF PageInv

LEMMA LeaveInv ==
    ASSUME PageInv, Leave
    PROVE  PageInv'
<1>1. /\ page' = NoPage /\ hook' = FreshHook /\ sock' = Cleanup(hook, sock).sock
      /\ load' = [i \in LoadSlots |-> None] /\ UNCHANGED server
      /\ vote' = None /\ closing' = None
  BY DEF Leave
<1>2. sock' \in SockSet /\ \A s \in Sockets : sock'[s] = None
  BY <1>1, CleanupClears DEF PageInv, HookInv
<1>3. PICK p \in Polls : NoPage = [FreshPage("left", p) EXCEPT !.loading = FALSE]
  <2>1. (CHOOSE p \in Polls : TRUE) \in Polls
    BY LivePageAssumption DEF LivePageAssumption
  <2>2. QED
    BY <2>1 DEF NoPage
<1>4. /\ page' \in PageSet /\ page'.kind = "left" /\ page'.poll = None
      /\ page'.initial = None /\ ~page'.hasVoted /\ hook' \in HookSet
  <2>1. PICK f \in PageSet :
           /\ f = FreshPage("left", p) /\ f.kind = "left" /\ f.poll = None
           /\ f.initial = None /\ ~f.hasVoted
    BY FreshFacts
  <2>2. page' = [f EXCEPT !.loading = FALSE]
    BY <1>1, <1>3, <2>1
  <2>3. /\ page' \in PageSet /\ page'.kind = f.kind /\ page'.poll = f.poll
        /\ page'.initial = f.initial /\ page'.hasVoted = f.hasVoted
    BY <2>2 DEF PageSet
  <2>4. hook' \in HookSet
    BY <1>1, FreshFacts
  <2>5. QED
    BY <2>1, <2>3, <2>4
<1>5. ServerTypes' /\ PageTypes'
  BY <1>1, <1>4 DEF PageInv, ServerTypes, PageTypes, server
<1>6. HookInv'
  BY <1>1, <1>2, <1>4, FreshFollows DEF HookInv
<1>7. LoadInv' /\ VoteInv' /\ CloseInv' /\ ShownInv'
  BY <1>1, <1>4 DEF LoadInv, VoteInv, CloseInv, ShownInv, Mounted
<1>8. QED
  BY <1>5, <1>6, <1>7 DEF PageInv

LEMMA VoteStepInv ==
    ASSUME PageInv, Vote
    PROVE  PageInv'
<1>1. /\ page.kind = "public" /\ PublicScreen = "form"
      /\ page' = [page EXCEPT !.voting = TRUE]
      /\ vote' = [poll |-> page.poll, stage |-> "sent", total |-> 0]
      /\ UNCHANGED <<server, hook, sock, load, closing>>
  BY DEF Vote
<1>2. page.poll \in Polls
  <2>1. page.poll # None
    BY <1>1 DEF PublicScreen
  <2>2. QED
    BY <2>1 DEF PageInv, PageTypes, PageSet
<1>3. /\ page' \in PageSet /\ page'.kind = page.kind /\ page'.poll = page.poll
      /\ page'.initial = page.initial /\ page'.hasVoted = page.hasVoted
      /\ page'.url = page.url
  BY <1>1 DEF PageInv, PageTypes, PageSet
<1>4. vote' \in VoteCall /\ vote'.poll = page.poll /\ vote'.stage = "sent"
  BY <1>1, <1>2, CountFacts DEF VoteCall
<1>5. ServerTypes' /\ PageTypes' /\ HookInv'
  BY <1>1, <1>3, <1>4 DEF PageInv, ServerTypes, PageTypes, HookInv, server
<1>6. LoadInv' /\ ShownInv'
  BY <1>1, <1>3 DEF PageInv, LoadInv, ShownInv, Mounted, server
<1>7. VoteInv' /\ CloseInv'
  BY <1>1, <1>3, <1>4 DEF PageInv, VoteInv, CloseInv
<1>8. QED
  BY <1>5, <1>6, <1>7 DEF PageInv

\* A page that does not jump between polls loads only the poll of its address.
LEMMA SamePoll ==
    ASSUME PageInv, page.kind # "manage",
           NEW i \in LoadSlots, load[i] # None
    PROVE  /\ load[i].poll = page.url
           /\ page.poll # None => page.poll = load[i].poll
  BY DEF PageInv, LoadInv, ShownInv

\* What arrives with a load: the connection moves to its poll before the counts
\* that were read are shown.
LEMMA LoadedInv ==
    ASSUME PageInv, NEW i \in LoadSlots, load[i] # None, Loaded(i),
           load' = [load EXCEPT ![i] = None], UNCHANGED <<server, vote, closing>>
    PROVE  PageInv'
<1>1. /\ hook \in HookSet /\ sock \in SockSet /\ total \in [Polls -> Counts]
      /\ Follows(hook, sock, page.poll) /\ Drained(hook, sock, page.poll, total)
      /\ page \in PageSet /\ page.poll \in Polls \cup {None}
      /\ load \in [LoadSlots -> LoadCall \cup {None}]
  BY DEF PageInv, ServerTypes, PageTypes, HookInv, PageSet
<1>2. PICK p \in Polls : p = load[i].poll
  BY CallTypes DEF PageInv
<1>3. PICK r : r = IF load[i].results = "null" THEN None
                   ELSE [poll |-> p, total |-> load[i].total]
  OBVIOUS
<1>4. r # None => r \in Results /\ r.poll = p /\ r.total <= total[p]
  <2>1. load[i] \in LoadCall /\ load[i].total \in Counts
    BY CallTypes DEF PageInv
  <2>2. load[i].results \in {"null", "found"}
    BY <2>1 DEF Loaded, LoadCall
  <2>3. load[i].results = "found" => load[i].total <= total[p]
    BY <1>2 DEF PageInv, LoadInv
  <2>4. [poll |-> p, total |-> load[i].total] \in Results
    BY <2>1 DEF Results
  <2>5. QED
    BY <1>3, <2>2, <2>3, <2>4
<1>5. PICK b : b = Rerun(hook, sock, page.poll, p)
  OBVIOUS
<1>6. /\ b.hook \in HookSet /\ b.hook.results = hook.results
      /\ b.sock \in SockSet
      /\ Follows(b.hook, b.sock, p) /\ Drained(b.hook, b.sock, p, total)
  BY <1>1, <1>5, RerunFollows
<1>7. /\ page' = [page EXCEPT !.poll = p, !.initial = r, !.loading = FALSE,
                              !.closed = p \in closed]
      /\ hook' = ShowInitial(b.hook, b.sock, r).hook
      /\ sock' = ShowInitial(b.hook, b.sock, r).sock
  BY <1>2, <1>3, <1>5 DEF Loaded, Becomes
<1>8. /\ page' \in PageSet /\ page'.poll = p /\ page'.initial = r
      /\ page'.kind = page.kind /\ page'.url = page.url
      /\ page'.hasVoted = page.hasVoted
  <2>1. CASE p \in closed
    <3>1. page' = [page EXCEPT !.poll = p, !.initial = r, !.loading = FALSE,
                               !.closed = TRUE]
      BY <1>7, <2>1
    <3>2. QED
      BY <1>1, <1>4, <3>1 DEF PageSet
  <2>2. CASE p \notin closed
    <3>1. page' = [page EXCEPT !.poll = p, !.initial = r, !.loading = FALSE,
                               !.closed = FALSE]
      <4>1. (p \in closed) = FALSE
        BY <2>2
      <4>2. QED
        BY <1>7, <4>1
    <3>2. QED
      BY <1>1, <1>4, <3>1 DEF PageSet
  <2>3. QED
    BY <2>1, <2>2
<1>9. /\ hook' \in HookSet /\ sock' \in SockSet
      /\ Follows(hook', sock', p) /\ Drained(hook', sock', p, total)
      /\ r # None => hook'.results = r
  <2>1. CASE r = None
    BY <1>6, <1>7, <2>1 DEF ShowInitial
  <2>2. CASE r # None
    BY <1>1, <1>4, <1>6, <1>7, <2>2, ShowFollows, ShowDrained DEF ShowInitial
  <2>3. QED
    BY <2>1, <2>2
<1>10. /\ load' \in [LoadSlots -> LoadCall \cup {None}]
       /\ \A j \in LoadSlots : load'[j] # None => load'[j] = load[j]
  BY <1>1
<1>11. Mounted /\ voted \subseteq Polls
  BY DEF PageInv, LoadInv, ServerTypes
<1>12. ServerTypes' /\ PageTypes'
  BY <1>8, <1>10 DEF PageInv, ServerTypes, PageTypes, server
<1>13. HookInv'
  BY <1>8, <1>9 DEF HookInv, server
<1>14. LoadInv'
  BY <1>8, <1>10, <1>11 DEF PageInv, LoadInv, Mounted, server
<1>15. page.kind # "manage" => p = page.url /\ (page.poll # None => page.poll = p)
  BY <1>2, SamePoll
<1>16. VoteInv'
  <2>1. vote # None => vote.poll # None
    BY CallTypes, NoneAssumption DEF PageInv, NoneAssumption
  <2>2. QED
    BY <1>8, <1>15, <2>1 DEF PageInv, VoteInv, server
<1>17. CloseInv' /\ ShownInv'
  <2>1. page.hasVoted => page.kind # "manage" /\ page.poll \in voted
    BY DEF PageInv, ShownInv
  <2>2. page.hasVoted => p \in voted
    BY <1>11, <1>15, <2>1, NoneAssumption DEF NoneAssumption
  <2>3. QED
    BY <1>8, <1>11, <1>15, <2>1, <2>2
    DEF PageInv, CloseInv, ShownInv, Mounted, server
<1>18. QED
  BY <1>12, <1>13, <1>14, <1>16, <1>17 DEF PageInv

LEMMA LoadAnswersInv ==
    ASSUME PageInv, NEW i \in LoadSlots, LoadAnswers(i)
    PROVE  PageInv'
<1>1. /\ load[i] # None /\ load' = [load EXCEPT ![i] = None]
      /\ UNCHANGED <<server, vote, closing>>
  BY DEF LoadAnswers
<1>2. CASE Loaded(i)
  BY <1>1, <1>2, LoadedInv
<1>3. CASE LoadFailed
  <2>1. UNCHANGED <<hook, sock>>
    BY <1>3 DEF LoadFailed
  <2>2. page \in PageSet /\ load \in [LoadSlots -> LoadCall \cup {None}]
    BY DEF PageInv, PageTypes
  <2>3. /\ page' \in PageSet /\ page'.poll = page.poll /\ page'.url = page.url
        /\ page'.initial = page.initial /\ page'.kind = page.kind
        /\ page'.hasVoted = page.hasVoted
    BY <1>3, <2>2 DEF LoadFailed, PageSet
  <2>4. /\ load' \in [LoadSlots -> LoadCall \cup {None}]
        /\ \A j \in LoadSlots : load'[j] # None => load'[j] = load[j]
    BY <1>1, <2>2
  <2>5. ServerTypes' /\ PageTypes' /\ HookInv'
    BY <1>1, <2>1, <2>3, <2>4
    DEF PageInv, ServerTypes, PageTypes, HookInv, server
  <2>6. LoadInv' /\ VoteInv' /\ CloseInv' /\ ShownInv'
    BY <1>1, <2>1, <2>3, <2>4
    DEF PageInv, LoadInv, VoteInv, CloseInv, ShownInv, Mounted, server
  <2>7. QED
    BY <2>5, <2>6 DEF PageInv
<1>4. QED
  BY <1>2, <1>3 DEF LoadAnswers

LEMMA VoteAnswersInv ==
    ASSUME PageInv, VoteAnswers
    PROVE  PageInv'
<1>1. vote # None /\ vote' = None /\ UNCHANGED <<server, load, closing>>
  BY DEF VoteAnswers
<1>2. VoteInv'
  BY <1>1 DEF VoteInv
<1>3. /\ hook \in HookSet /\ sock \in SockSet /\ total \in [Polls -> Counts]
      /\ Follows(hook, sock, page.poll) /\ Drained(hook, sock, page.poll, total)
      /\ page \in PageSet
  BY DEF PageInv, ServerTypes, PageTypes, HookInv
<1>4. /\ page.kind = "public" /\ vote.poll = page.poll
      /\ vote.poll \in Polls /\ vote.total \in Counts
  BY <1>1, CallTypes DEF PageInv, VoteInv
<1>5. CASE VoteShown
  <2>1. PICK r : r = [poll |-> vote.poll, total |-> vote.total]
    OBVIOUS
  <2>2. r \in Results /\ r # None /\ r.poll = page.poll /\ page.poll \in Polls
    BY <1>4, <1>5, <2>1, NoneAssumption DEF Results, NoneAssumption
  <2>3. r.total <= total[page.poll] /\ page.poll \in voted
    BY <1>1, <1>4, <1>5, <2>1 DEF VoteShown, PageInv, VoteInv
  <2>4. /\ page' = [page EXCEPT !.initial = r, !.hasVoted = TRUE, !.voting = FALSE]
        /\ hook' = Show(hook, sock, r).hook /\ sock' = Show(hook, sock, r).sock
    BY <1>5, <2>1, <2>2 DEF VoteShown, Becomes, ShowInitial
  <2>5. /\ page' \in PageSet /\ page'.poll = page.poll /\ page'.url = page.url
        /\ page'.initial = r /\ page'.kind = page.kind /\ page'.hasVoted
    BY <1>3, <2>2, <2>4 DEF PageSet
  <2>6. /\ hook' \in HookSet /\ hook'.results = r /\ sock' \in SockSet
        /\ Follows(hook', sock', page.poll)
        /\ Drained(hook', sock', page.poll, total)
    BY <1>3, <2>2, <2>3, <2>4, ShowFollows, ShowDrained
  <2>7. HookInv'
    BY <1>1, <2>5, <2>6 DEF HookInv, server
  <2>8. ServerTypes' /\ PageTypes' /\ LoadInv' /\ CloseInv'
    BY <1>1, <2>5
    DEF PageInv, ServerTypes, PageTypes, LoadInv, CloseInv, Mounted, server
  <2>9. ShownInv'
    BY <1>1, <1>4, <2>3, <2>5 DEF PageInv, ShownInv, Mounted, server
  <2>10. QED
    BY <1>2, <2>7, <2>8, <2>9 DEF PageInv
<1>6. CASE VoteRefused
  <2>1. UNCHANGED <<hook, sock>>
    BY <1>6 DEF VoteRefused
  <2>2. /\ page' \in PageSet /\ page'.poll = page.poll /\ page'.url = page.url
        /\ page'.initial = page.initial /\ page'.kind = page.kind
        /\ page'.hasVoted => page.hasVoted \/ vote.stage = "already_voted"
    BY <1>3, <1>6 DEF VoteRefused, PageSet
  <2>3. vote.stage = "already_voted" => page.poll \in voted
    BY <1>1, <1>4, <1>6 DEF PageInv, VoteInv
  <2>4. ServerTypes' /\ PageTypes' /\ HookInv' /\ LoadInv' /\ CloseInv'
    BY <1>1, <2>1, <2>2
    DEF PageInv, ServerTypes, PageTypes, HookInv, LoadInv, CloseInv, Mounted,
        server
  <2>5. ShownInv'
    BY <1>1, <1>4, <1>6, <2>1, <2>2, <2>3
    DEF PageInv, ShownInv, Mounted, server
  <2>6. QED
    BY <1>2, <2>4, <2>5 DEF PageInv
<1>7. QED
  BY <1>5, <1>6 DEF VoteAnswers

LEMMA CloseStepInv ==
    ASSUME PageInv, Close
    PROVE  PageInv'
<1>1. /\ page.kind = "manage" /\ page.poll # None
      /\ closing' = [poll |-> page.poll, stage |-> "sent"]
      /\ UNCHANGED <<server, browser, load, vote>>
  BY DEF Close
<1>2. closing' \in CloseCall
  BY <1>1 DEF PageInv, PageTypes, PageSet, CloseCall
<1>3. QED
  BY <1>1, <1>2
  DEF PageInv, ServerTypes, PageTypes, HookInv, LoadInv, VoteInv, CloseInv,
      ShownInv, Mounted, server, browser

LEMMA ServeCloseInv ==
    ASSUME PageInv, ServeClose
    PROVE  PageInv'
<1>1. /\ closing # None /\ closed' \subseteq closed \cup {closing.poll}
      /\ UNCHANGED <<total, voted, unsent, browser, load, vote>>
  BY DEF ServeClose
<1>2. PICK a \in {"ok", "null", "failed"} : closing' = [closing EXCEPT !.stage = a]
  BY DEF ServeClose
<1>3. closing \in CloseCall /\ closing.poll \in Polls
  BY <1>1, CallTypes DEF PageInv
<1>4. closing' \in CloseCall
  BY <1>2, <1>3 DEF CloseCall
<1>5. ServerTypes' /\ PageTypes'
  BY <1>1, <1>3, <1>4 DEF PageInv, ServerTypes, PageTypes, browser
<1>6. HookInv' /\ LoadInv' /\ VoteInv' /\ CloseInv' /\ ShownInv'
  BY <1>1
  DEF PageInv, HookInv, LoadInv, VoteInv, CloseInv, ShownInv, Mounted, browser
<1>7. QED
  BY <1>5, <1>6 DEF PageInv

\* The answer decides which poll the page shows and follows.
LEMMA CloseAnswersInv ==
    ASSUME PageInv, CloseAnswers
    PROVE  PageInv'
<1>1. closing # None /\ closing' = None /\ UNCHANGED <<server, load, vote>>
  BY DEF CloseAnswers
<1>2. page.kind = "manage" /\ closing.poll \in Polls /\ vote = None
  BY <1>1, CallTypes DEF PageInv, VoteInv, CloseInv
<1>3. CASE CloseShown
  <2>1. PICK p \in Polls \cup {None} :
           /\ page' = [page EXCEPT !.poll = p, !.closed = p # None]
           /\ hook' = Rerun(hook, sock, page.poll, p).hook
           /\ sock' = Rerun(hook, sock, page.poll, p).sock
    BY <1>2, <1>3 DEF CloseShown, Becomes
  <2>2. page \in PageSet /\ page.poll \in Polls \cup {None}
    BY DEF PageInv, PageTypes, PageSet
  <2>3. PICK c \in BOOLEAN : c = (p # None)
    OBVIOUS
  <2>4. /\ page' \in PageSet /\ page'.poll = p /\ page'.kind = page.kind
        /\ page'.url = page.url /\ page'.hasVoted = page.hasVoted
    <3>1. page' = [page EXCEPT !.poll = p, !.closed = c]
      BY <2>1, <2>3
    <3>2. QED
      BY <2>2, <3>1 DEF PageSet
  <2>5. HookInv'
    BY <1>1, <2>1, <2>2, <2>4, RerunFollows DEF PageInv, HookInv, server
  <2>6. ServerTypes' /\ PageTypes'
    BY <1>1, <2>4 DEF PageInv, ServerTypes, PageTypes, server
  <2>7. LoadInv' /\ VoteInv' /\ CloseInv' /\ ShownInv'
    BY <1>1, <1>2, <2>4
    DEF PageInv, LoadInv, VoteInv, CloseInv, ShownInv, Mounted, server
  <2>8. QED
    BY <2>5, <2>6, <2>7 DEF PageInv
<1>4. CASE UNCHANGED browser
  BY <1>1, <1>4
  DEF PageInv, ServerTypes, PageTypes, HookInv, LoadInv, VoteInv, CloseInv,
      ShownInv, Mounted, server, browser
<1>5. QED
  BY <1>3, <1>4 DEF CloseAnswers

LEMMA NextPageInv == PageInv /\ [Next]_vars => PageInv'
<1> SUFFICES ASSUME PageInv, [Next]_vars PROVE PageInv'
  OBVIOUS
<1>1. CASE \E k \in {"public", "results", "manage"}, p \in Polls : Open(k, p)
  BY <1>1, OpenInv
<1>2. CASE \E p \in Polls :
              \/ Move(p) \/ Publish(p)
              \/ OthersVote(p) \/ VoteElsewhere(p) \/ CloseElsewhere(p)
  BY <1>2, MoveInv, PublishInv, OthersVoteInv, VoteElsewhereInv,
     CloseElsewhereInv
<1>3. CASE \E i \in LoadSlots : ServeResults(i) \/ LoadAnswers(i)
  BY <1>3, ServeResultsInv, LoadAnswersInv
<1>4. CASE Leave \/ Vote \/ ServeVote \/ ServeVoteResults \/ VoteAnswers
  BY <1>4, LeaveInv, VoteStepInv, ServeVoteInv, ServeVoteResultsInv,
     VoteAnswersInv
<1>5. CASE \E s \in Sockets :
              SockOpens(s) \/ Joins(s) \/ SockFails(s) \/ Deliver(s)
  BY <1>5, SockOpensInv, JoinsInv, SockFailsInv, DeliverInv
<1>6. CASE TimerFires
  BY <1>6, TimerFiresInv
<1>7. CASE Close \/ ServeClose \/ CloseAnswers
  BY <1>7, CloseStepInv, ServeCloseInv, CloseAnswersInv
<1>8. CASE UNCHANGED vars
  BY <1>8
  DEF PageInv, ServerTypes, PageTypes, HookInv, LoadInv, VoteInv, CloseInv,
      ShownInv, Mounted, vars, server, browser
<1>9. QED
  BY <1>1, <1>2, <1>3, <1>4, <1>5, <1>6, <1>7, <1>8 DEF Next

LEMMA PageInvHolds == Spec => []PageInv
  BY InitPageInv, NextPageInv, PTL DEF Spec

-----------------------------------------------------------------------------
\* The states of a page, its calls and its connection, for any constants: the
\* hook never counts more attempts than the limit.
THEOREM LivePageTypeOK == Spec => []TypeOK
<1>1. PageInv => TypeOK
  BY DEF PageInv, ServerTypes, PageTypes, HookInv, PageSet, HookSet, SockSet,
         TypeOK
<1>2. QED
  BY <1>1, PageInvHolds, PTL

\* Whatever is opened, moved, left, lost and retried, a page has at most one
\* connection or reconnect timer, for the poll it shows.
THEOREM PageFollowsItsPoll == Spec => []FollowsItsPoll
<1>1. ASSUME PageInv PROVE FollowsItsPoll
  <2>1. /\ Follows(hook, sock, page.poll) /\ hook \in HookSet
        /\ None \notin Sockets /\ hook.ws \in Sockets \cup {None}
    BY <1>1, NoneAssumption DEF PageInv, HookInv, HookSet, NoneAssumption
  <2>2. Live(sock) = IF hook.ws = None THEN {} ELSE {hook.ws}
    BY <2>1 DEF Live, Follows
  <2>3. Cardinality({}) = 0 /\ Cardinality({hook.ws}) = 1
    BY FS_EmptySet, FS_Singleton
  <2>4. CASE page.poll = None
    BY <2>1, <2>2, <2>4 DEF Follows, FollowsItsPoll
  <2>5. CASE page.poll # None /\ hook.ws = None
    BY <2>1, <2>2, <2>3, <2>5 DEF Follows, FollowsItsPoll
  <2>6. CASE page.poll # None /\ hook.ws # None
    BY <2>1, <2>2, <2>3, <2>6 DEF Follows, FollowsItsPoll
  <2>7. QED
    BY <2>4, <2>5, <2>6
<1>2. QED
  BY <1>1, PageInvHolds, PTL

\* The indicator tells the truth about the connection.
THEOREM LiveIsOpen == Spec => []LiveMeansOpen
<1>1. ASSUME PageInv PROVE LiveMeansOpen
  <2>1. /\ Follows(hook, sock, page.poll) /\ hook.status \in Status
        /\ hook.ws \in Sockets \cup {None} /\ None \notin Sockets
    BY <1>1, NoneAssumption DEF PageInv, HookInv, HookSet, NoneAssumption
  <2>2. Indicator = "Live" <=> page.poll # None /\ hook.status = "connected"
    BY <2>1 DEF Indicator, Status
  <2>3. ASSUME page.poll # None, hook.status = "connected"
        PROVE  \E s \in Live(sock) : sock[s].open
    <3>1. hook.ws \in Sockets
      BY <2>1, <2>3 DEF Follows
    <3>2. QED
      BY <2>1, <2>3, <3>1 DEF Follows, Live
  <2>4. ASSUME NEW s \in Live(sock), sock[s].open
        PROVE  page.poll # None /\ hook.status = "connected"
    BY <2>1, <2>4 DEF Follows, Live
  <2>5. QED
    BY <2>2, <2>3, <2>4 DEF LiveMeansOpen
<1>2. QED
  BY <1>1, PageInvHolds, PTL

\* Once the current count has arrived the page shows it, whatever order answers
\* and events came in, but for the two cases that `upset` records.
THEOREM DrainedShowsCurrent == Spec => []DrainedIsCurrent
<1>1. ASSUME PageInv PROVE DrainedIsCurrent
  <2> SUFFICES ASSUME NEW s \in Live(sock), sock[s].sent, sock[s].pipe = <<>>,
                      ~sock[s].upset
               PROVE  Shown = [poll |-> page.poll, total |-> total[page.poll]]
    BY DEF DrainedIsCurrent
  <2>1. s \in Sockets /\ sock[s] # None
    BY DEF Live
  <2>2. hook.results = [poll |-> page.poll, total |-> total[page.poll]]
    BY <1>1, <2>1 DEF PageInv, HookInv, Drained
  <2>3. page.poll \in Polls
    BY <1>1, <2>1, SocketFacts
  <2>4. [poll |-> page.poll, total |-> total[page.poll]] \in Results
    BY <1>1, <2>3 DEF PageInv, ServerTypes, Results
  <2>5. QED
    BY <2>2, <2>4, NoneAssumption DEF Shown, NoneAssumption
<1>2. QED
  BY <1>1, PageInvHolds, PTL

\* What decides whose counts a page shows.
ShownOf == <<page.poll, page.initial, hook.results>>

LEMMA SameShown ==
    ASSUME UNCHANGED ShownOf
    PROVE  Mixed' = Mixed
  BY DEF ShownOf, Mixed, Shown

\* Connecting again shows nothing else.
LEMMA ConnectResults ==
    ASSUME NEW h \in HookSet, NEW cs, NEW p
    PROVE  Connect(h, cs, p).hook.results = h.results
  BY DEF Connect, HookSet

\* Steps that leave the page and its calls alone: what a connection delivers is
\* about the poll of the page.
LEMMA NetworkMixes ==
    ASSUME PageInv,
           \/ TimerFires
           \/ \E s \in Sockets : SockOpens(s) \/ Joins(s) \/ SockFails(s) \/ Deliver(s)
    PROVE  MixesOnlySo
<1>1. hook \in HookSet /\ UNCHANGED page
  BY DEF PageInv, HookInv, TimerFires, SockOpens, Joins, SockFails, Deliver
<1>2. CASE TimerFires
  <2>1. PICK h \in HookSet : h = [hook EXCEPT !.timer = None]
    BY <1>1 DEF HookSet
  <2>2. hook' = Connect(h, sock, hook.timer).hook /\ h.results = hook.results
    BY <1>1, <1>2, <2>1 DEF TimerFires, Becomes, HookSet
  <2>3. UNCHANGED ShownOf
    BY <1>1, <2>2, ConnectResults DEF ShownOf
  <2>4. QED
    BY <2>3, SameShown DEF MixesOnlySo
<1>3. ASSUME NEW s \in Sockets, SockOpens(s) \/ Joins(s) \/ SockFails(s)
      PROVE  MixesOnlySo
  <2>1. hook'.results = hook.results
    BY <1>1, <1>3 DEF SockOpens, Joins, SockFails, HookSet
  <2>2. QED
    BY <1>1, <2>1, SameShown DEF ShownOf, MixesOnlySo
<1>4. ASSUME NEW s \in Sockets, Deliver(s)
      PROVE  MixesOnlySo
  <2>1. CASE UNCHANGED hook
    BY <1>1, <2>1, SameShown DEF ShownOf, MixesOnlySo
  <2>2. CASE hook' = Received(s).hook /\ sock[s].pipe # <<>>
    <3>1. /\ sock[s] \in Connection /\ sock[s].pipe \in Seq(Counts)
          /\ page.poll \in Polls /\ sock[s].poll = page.poll
      BY <1>4, SocketFacts DEF Deliver, Connection
    <3>2. PICK r : r = [poll |-> sock[s].poll, total |-> Head(sock[s].pipe)]
      OBVIOUS
    <3>3. r \in Results /\ r # None /\ r.poll = page.poll
      BY <2>2, <3>1, <3>2, NoneAssumption DEF Results, NoneAssumption
    <3>4. hook'.results = r
      BY <1>1, <2>2, <3>2 DEF Received, HookSet
    <3>5. QED
      BY <1>1, <3>3, <3>4 DEF MixesOnlySo, Mixed, Shown
  <2>3. QED
    BY <1>4, <2>1, <2>2 DEF Deliver
<1>5. QED
  BY <1>2, <1>3, <1>4

\* Loaded results are those of the loaded poll.
LEMMA LoadMixes ==
    ASSUME PageInv, NEW i \in LoadSlots, LoadAnswers(i)
    PROVE  MixesOnlySo
<1>1. /\ load[i] # None /\ load'[i] = None
      /\ load[i].poll \in Polls /\ load[i] \in LoadCall
      /\ page \in PageSet /\ hook \in HookSet /\ sock \in SockSet
      /\ Follows(hook, sock, page.poll) /\ Drained(hook, sock, page.poll, total)
      /\ page.poll \in Polls \cup {None}
  BY CallTypes
  DEF LoadAnswers, PageInv, PageTypes, HookInv, PageSet
<1>2. CASE LoadFailed
  <2>1. UNCHANGED ShownOf
    BY <1>1, <1>2 DEF LoadFailed, ShownOf, PageSet
  <2>2. QED
    BY <2>1, SameShown DEF MixesOnlySo
<1>3. CASE Loaded(i)
  <2>1. PICK p \in Polls : p = load[i].poll
    BY <1>1
  <2>2. PICK r : r = IF load[i].results = "null" THEN None
                    ELSE [poll |-> p, total |-> load[i].total]
    OBVIOUS
  <2>3. PICK b : b = Rerun(hook, sock, page.poll, p)
    OBVIOUS
  <2>4. /\ b.hook \in HookSet /\ b.hook.results = hook.results
        /\ b.sock \in SockSet /\ Follows(b.hook, b.sock, p)
    BY <1>1, <2>3, RerunFollows
  <2>5. /\ page' = [page EXCEPT !.poll = p, !.initial = r, !.loading = FALSE,
                                !.closed = p \in closed]
        /\ hook' = ShowInitial(b.hook, b.sock, r).hook
    BY <1>3, <2>1, <2>2, <2>3 DEF Loaded, Becomes
  <2>6. page'.poll = p /\ page'.initial = r
    BY <1>1, <2>5 DEF PageSet
  <2>7. CASE load[i].results # "null"
    <3>1. r \in Results /\ r # None /\ r.poll = p
      BY <1>1, <2>1, <2>2, <2>7, NoneAssumption
      DEF LoadCall, Results, NoneAssumption
    <3>2. hook'.results = r
      BY <2>4, <2>5, <3>1, ShowFollows DEF ShowInitial
    <3>3. QED
      BY <2>6, <3>1, <3>2 DEF MixesOnlySo, Mixed, Shown
  <2>8. CASE load[i].results = "null" /\ p = page.poll
    <3>1. hook'.results = hook.results /\ page'.initial = None
      BY <2>2, <2>4, <2>5, <2>6, <2>8 DEF ShowInitial
    <3>2. QED
      BY <2>6, <2>8, <3>1 DEF MixesOnlySo, Mixed, Shown
  <2>9. CASE load[i].results = "null" /\ p # page.poll
    BY <1>1, <2>1, <2>9 DEF MixesOnlySo, NullLoad
  <2>10. QED
    BY <2>7, <2>8, <2>9
<1>4. QED
  BY <1>2, <1>3 DEF LoadAnswers

\* The results that answer a vote are those of the poll voted on, which is still
\* the poll of the page.
LEMMA VoteMixes ==
    ASSUME PageInv, VoteAnswers
    PROVE  MixesOnlySo
<1>1. /\ vote # None /\ page \in PageSet /\ hook \in HookSet /\ sock \in SockSet
      /\ vote.poll = page.poll /\ vote.poll \in Polls /\ vote.total \in Counts
      /\ Follows(hook, sock, page.poll)
  BY CallTypes DEF VoteAnswers, PageInv, PageTypes, HookInv, VoteInv
<1>2. CASE VoteRefused
  <2>1. UNCHANGED ShownOf
    BY <1>1, <1>2 DEF VoteRefused, ShownOf, PageSet
  <2>2. QED
    BY <2>1, SameShown DEF MixesOnlySo
<1>3. CASE VoteShown
  <2>1. PICK r : r = [poll |-> vote.poll, total |-> vote.total]
    OBVIOUS
  <2>2. r \in Results /\ r # None /\ r.poll = page.poll
    BY <1>1, <2>1, NoneAssumption DEF Results, NoneAssumption
  <2>3. hook' = Show(hook, sock, r).hook /\ page'.poll = page.poll
    BY <1>1, <1>3, <2>1, <2>2 DEF VoteShown, Becomes, ShowInitial, PageSet
  <2>4. hook'.results = r
    BY <1>1, <2>2, <2>3, ShowFollows
  <2>5. QED
    BY <2>2, <2>3, <2>4 DEF MixesOnlySo, Mixed, Shown
<1>4. QED
  BY <1>2, <1>3 DEF VoteAnswers

\* The answer of a close brings a poll and no results.
LEMMA CloseMixes ==
    ASSUME PageInv, CloseAnswers
    PROVE  MixesOnlySo
<1>1. /\ closing # None /\ closing' = None
      /\ page \in PageSet /\ hook \in HookSet /\ sock \in SockSet
      /\ closing.poll \in Polls /\ page.poll \in Polls \cup {None}
      /\ Follows(hook, sock, page.poll) /\ Drained(hook, sock, page.poll, total)
  BY CallTypes DEF CloseAnswers, PageInv, PageTypes, HookInv, PageSet
<1>2. CASE UNCHANGED browser
  BY <1>2, SameShown DEF browser, ShownOf, MixesOnlySo
<1>3. CASE CloseShown
  <2>1. PICK p \in Polls \cup {None} :
           /\ p \in {closing.poll, None}
           /\ page' = [page EXCEPT !.poll = p, !.closed = p # None]
           /\ hook' = Rerun(hook, sock, page.poll, p).hook
    BY <1>1, <1>3 DEF CloseShown, Becomes
  <2>2. /\ page'.poll = p /\ page'.initial = page.initial
        /\ hook'.results = hook.results
    BY <1>1, <2>1, RerunFollows DEF PageSet
  <2>3. CASE p = None
    BY <2>2, <2>3 DEF MixesOnlySo, Mixed
  <2>4. CASE p = page.poll
    BY <2>2, <2>4, SameShown DEF ShownOf, MixesOnlySo
  <2>5. CASE closing.poll # page.poll
    BY <1>1, <2>5 DEF MixesOnlySo, LateClose
  <2>6. QED
    BY <2>1, <2>3, <2>4, <2>5
<1>4. QED
  BY <1>2, <1>3 DEF CloseAnswers

\* Steps of the server, of other visitors and of the user change nothing shown,
\* or leave the page without a poll.
LEMMA OtherStepsMix ==
    ASSUME PageInv,
           \/ \E k \in {"public", "results", "manage"}, p \in Polls : Open(k, p)
           \/ \E p \in Polls :
                 \/ Move(p) \/ Publish(p)
                 \/ OthersVote(p) \/ VoteElsewhere(p) \/ CloseElsewhere(p)
           \/ \E i \in LoadSlots : ServeResults(i)
           \/ Leave \/ Vote \/ ServeVote \/ ServeVoteResults \/ Close \/ ServeClose
    PROVE  MixesOnlySo
<1>1. page \in PageSet
  BY DEF PageInv, PageTypes
<1>2. CASE \/ \E k \in {"public", "results", "manage"}, p \in Polls : Open(k, p)
           \/ Leave
  <2>1. page'.poll = None
    <3>1. \A k, p : FreshPage(k, p).poll = None
      BY DEF FreshPage
    <3>2. NoPage.poll = None
      BY DEF NoPage, FreshPage
    <3>3. QED
      BY <1>2, <3>1, <3>2 DEF Open, Leave
  <2>2. QED
    BY <2>1 DEF MixesOnlySo, Mixed
<1>3. CASE (\E p \in Polls : Move(p)) \/ Vote
  <2>1. UNCHANGED ShownOf
    BY <1>1, <1>3 DEF Move, Vote, ShownOf, PageSet
  <2>2. QED
    BY <2>1, SameShown DEF MixesOnlySo
<1>4. CASE \/ \E p \in Polls : \/ Publish(p) \/ OthersVote(p)
                              \/ VoteElsewhere(p) \/ CloseElsewhere(p)
           \/ \E i \in LoadSlots : ServeResults(i)
           \/ ServeVote \/ ServeVoteResults \/ Close \/ ServeClose
  <2>1. UNCHANGED <<page, hook>>
    BY <1>4
    DEF Publish, OthersVote, VoteElsewhere, CloseElsewhere, ServeResults,
        ServeVote, ServeVoteResults, Close, ServeClose, browser
  <2>2. QED
    BY <2>1, SameShown DEF ShownOf, MixesOnlySo
<1>5. QED
  BY <1>2, <1>3, <1>4

\* Whatever loads, votes, events, jumps and closes are answered in which order,
\* counts of another poll come with a load that has none of its own or with a
\* close that is answered after the page has moved on.
THEOREM ResultsAreOfThisPoll == Spec => ResultsOfThisPoll
<1>1. PageInv /\ [Next]_vars => [MixesOnlySo]_vars
  <2> SUFFICES ASSUME PageInv, Next PROVE MixesOnlySo
    OBVIOUS
  <2>1. CASE \/ \E i \in LoadSlots : LoadAnswers(i)
             \/ VoteAnswers \/ CloseAnswers
    BY <2>1, LoadMixes, VoteMixes, CloseMixes
  <2>2. CASE \/ TimerFires
             \/ \E s \in Sockets : SockOpens(s) \/ Joins(s) \/ SockFails(s) \/ Deliver(s)
    BY <2>2, NetworkMixes
  <2>3. CASE \/ \E k \in {"public", "results", "manage"}, p \in Polls : Open(k, p)
             \/ \E p \in Polls :
                   \/ Move(p) \/ Publish(p)
                   \/ OthersVote(p) \/ VoteElsewhere(p) \/ CloseElsewhere(p)
             \/ \E i \in LoadSlots : ServeResults(i)
             \/ Leave \/ Vote \/ ServeVote \/ ServeVoteResults \/ Close \/ ServeClose
    BY <2>3, OtherStepsMix
  <2>4. QED
    BY <2>1, <2>2, <2>3 DEF Next
<1>2. QED
  BY <1>1, PageInvHolds, PTL DEF Spec, ResultsOfThisPoll

\* "Vote submitted" is never shown for a vote that the server did not store.
THEOREM VotedIsStored == Spec => []VotedMeansStored
<1>1. PageInv => VotedMeansStored
  BY DEF PageInv, ShownInv, VotedMeansStored
<1>2. QED
  BY <1>1, PageInvHolds, PTL
=============================================================================
