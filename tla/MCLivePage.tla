---------------------------- MODULE MCLivePage ----------------------------
(***************************************************************************)
(* Small instances of LivePage for TLC.                                    *)
(***************************************************************************)
EXTENDS LivePage

CONSTANTS p, q

\* Guests look at p, the creator opens q and may jump to p.
AllPages == {<<"public", p>>, <<"results", p>>, <<"manage", q>>}

\* Two votes on p, so that two events can meet in one frame.
VotesOnP == [x \in Polls |-> IF x = p THEN 2 ELSE 0]
=============================================================================
