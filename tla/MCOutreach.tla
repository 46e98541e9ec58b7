----------------------------- MODULE MCOutreach -----------------------------
(* Instance of Outreach for TLC: one lead that falls silent three times.  The  *)
(* third sweep meets no lost answer and no lead on hold; with two sweeps all   *)
(* of them meet.                                                               *)
EXTENDS Outreach

CalmThirdSweep ==
  silences'.sweeps = MaxSweeps => ~lead'.held /\ \A e \in Episodes : wire'[e].lost = 0

MCOutreachSpec == OutreachInit /\ [][OutreachNext /\ CalmThirdSweep]_outreachVars

=============================================================================
