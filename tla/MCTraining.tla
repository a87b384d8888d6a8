----------------------------- MODULE MCTraining -----------------------------
(* Instances of Training for TLC.                                          *)
EXTENDS Training, MCContent

Symmetric == Permutations(SessionId) \cup Permutations(Handler)

=============================================================================
