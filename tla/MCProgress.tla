----------------------------- MODULE MCProgress -----------------------------
(* Instances of Progress for TLC.                                          *)
EXTENDS Progress, MCContent

CONSTANTS g1, g2

(* a -> b -> c -> t for who answers right, b -> a -> c -> t, after an edit,*)
(* for who is taken in: attempts of one to three answers with all signs of *)
(* the score.  One signal is on every step, the other on one that moves.   *)
Rewarding == [start |-> a, dialog |-> {a, b, c},
              next |-> a :> To(b, t, t) @@ b :> To(c, t, t) @@ c :> To(t, t, t)]

Entangling == [start |-> b, dialog |-> {a, b, c},
               next |-> b :> To(t, t, a) @@ a :> To(t, t, c) @@ c :> To(t, t, t)]

Edited == c1 :> <<Rewarding, Entangling>>

MarkedEdited == c1 :> <<a :> {g1} @@ b :> {g1} @@ c :> {g1, g2},
                        a :> {g1, g2} @@ b :> {g1} @@ c :> {g1}>>

Sessions == Permutations(SessionId)

=============================================================================
