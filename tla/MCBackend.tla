----------------------------- MODULE MCBackend -----------------------------
(***************************************************************************)
(* Small instances of Backend for TLC.                                     *)
(***************************************************************************)
EXTENDS Backend, TLC

CONSTANTS p1, p2, a, b, x, t1, t2, alice, bob, draft, final, r1, r2, r3, r4, p3, p4, none

Symmetry == Permutations(Requests)

\* alice's active poll p1 on options a and b; x is an option of no poll.
AlicesPoll == [creator |-> alice, title |-> draft,
               options |-> {a, b}, status |-> "active"]
OnlyP1 == [p \in Polls |-> IF p = p1 THEN AlicesPoll ELSE NoPoll]

Vote(p, o, t) == [kind |-> "vote", poll |-> p, option |-> o, token |-> t]
Results(p) == [kind |-> "results", poll |-> p]
Closes(p, u) == [kind |-> "close", poll |-> p, user |-> u]
Deletes(p, u) == [kind |-> "delete", poll |-> p, user |-> u]
Renames(p, u, t) == [kind |-> "update", poll |-> p, user |-> u, title |-> t]
Creates(u, opts) == [kind |-> "create", user |-> u, title |-> draft,
                     options |-> opts]

P1Votes == {Vote(p1, o, t) : o \in {a, b}, t \in {t1, t2}}

\* Races on a poll and the whole life of polls, by the creator and somebody else.
AllCalls == P1Votes \cup
    {Vote(p1, x, t1), Vote(p2, a, t1), Results(p1),
     Creates(bob, {a, b}), Creates(bob, {a}),
     Renames(p1, alice, final), Renames(p1, alice, none),
     Renames(p1, bob, final),
     Closes(p1, alice), Deletes(p1, alice), Deletes(p1, bob)}

\* What faults can disturb: votes against each other, a close and a delete.
FaultCalls ==
    {Vote(p1, a, t1), Vote(p1, a, t2), Closes(p1, alice), Deletes(p1, alice),
     Results(p1)}
=============================================================================
