----------------------------- MODULE MCAttempt -----------------------------
(* Instances of Attempt for TLC.                                           *)
EXTENDS Attempt, MCContent

(* Both kinds of content are at hand, without and with a way back.         *)
ASSUME WaysBack == NoWayBack(Forward) /\ NoWayBack(Reordered) /\ ~NoWayBack(LeadsBack)

=============================================================================
