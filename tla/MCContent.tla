----------------------------- MODULE MCContent -----------------------------
(* Scenarios for the instances: the smallest the validator accepts (three  *)
(* dialog steps), two versions of them, and one with an option that leads  *)
(* back.                                                                   *)
EXTENDS TLC

CONSTANTS a, b, c, t, c1

To(x, y, z) == [safe |-> x, risky |-> y, critical |-> z]

(* a -> b -> c -> t, with shortcuts.                                       *)
Forward == [start |-> a, dialog |-> {a, b, c},
            next |-> a :> To(b, c, t) @@ b :> To(c, t, t) @@ c :> To(t, t, t)]

(* The same steps after an edit that starts at b.                          *)
Reordered == [start |-> b, dialog |-> {a, b, c},
              next |-> b :> To(a, c, t) @@ a :> To(c, t, t) @@ c :> To(t, t, t)]

(* The risky option of c leads back to a.  Every step is reachable from a  *)
(* and reaches t, which is what validateGraph asks for.                    *)
LeadsBack == [start |-> a, dialog |-> {a, b, c},
              next |-> a :> To(b, c, t) @@ b :> To(c, t, t) @@ c :> To(t, a, t)]

OneVersion  == c1 :> <<Forward>>
TwoVersions == c1 :> <<Forward, Reordered>>
WithCycle   == c1 :> <<LeadsBack>>

=============================================================================
