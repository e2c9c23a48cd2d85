----------------------------- MODULE VoteLedger -----------------------------
(***************************************************************************)
(* What the backend promises about votes, without handlers or faults.  A   *)
(* poll opens, closes and disappears once; a vote is admitted only while   *)
(* its poll is open, is recorded later if at all, and then stays until the *)
(* deletion of the whole poll has been asked for.                          *)
(***************************************************************************)
CONSTANTS Polls, Ballots   \* a ballot has an id, a poll, an option and a token

VARIABLES
    phase,      \* the life of each poll
    doomed,     \* polls whose deletion their creator has asked for
    pending,    \* ballots admitted and not yet recorded or turned away
    recorded    \* ballots in the ledger

vars == <<phase, doomed, pending, recorded>>

OfPoll(S, p) == {b \in S : b.poll = p}

Init ==
    /\ phase \in [Polls -> {"none", "open", "closed"}]
    /\ doomed = {}
    /\ pending = {}
    /\ recorded = {}

Turns(p, from, to) ==
    /\ phase[p] \in from
    /\ phase' = [phase EXCEPT ![p] = to]
    /\ UNCHANGED <<doomed, pending, recorded>>

Open(p) == Turns(p, {"none"}, "open")

Close(p) == Turns(p, {"open"}, "closed")

Remove(p) == p \in doomed /\ Turns(p, {"open", "closed"}, "gone")

Doom(p) ==
    /\ phase[p] \in {"open", "closed"}
    /\ doomed' = doomed \cup {p}
    /\ UNCHANGED <<phase, pending, recorded>>

Admit(b) ==
    /\ phase[b.poll] = "open"
    /\ b \notin recorded
    /\ pending' = pending \cup {b}
    /\ UNCHANGED <<phase, doomed, recorded>>

\* One ballot per voter token and poll at any time.
Record(b) ==
    /\ b \in pending
    /\ \A c \in recorded : ~(c.poll = b.poll /\ c.token = b.token)
    /\ pending' = pending \ {b}
    /\ recorded' = recorded \cup {b}
    /\ UNCHANGED <<phase, doomed>>

TurnAway(S) ==
    /\ pending' = pending \ S
    /\ UNCHANGED <<phase, doomed, recorded>>

Discard(S, p) ==
    /\ p \in doomed
    /\ S \subseteq OfPoll(recorded, p)
    /\ recorded' = recorded \ S
    /\ UNCHANGED <<phase, doomed, pending>>

Next ==
    \/ \E p \in Polls : Open(p) \/ Close(p) \/ Doom(p) \/ Remove(p)
    \/ \E p \in Polls : \E S \in SUBSET OfPoll(recorded, p) : Discard(S, p)
    \/ \E b \in Ballots : Admit(b) \/ Record(b)
    \/ \E S \in SUBSET pending : TurnAway(S)

Spec == Init /\ [][Next]_vars
=============================================================================
