----------------------------- MODULE MCVisitors -----------------------------
(* The instance of Visitors for TLC: a scenario with one dialog step.      *)
EXTENDS Visitors, TLC

CONSTANTS a, t, c1

OneStep == c1 :> <<[start |-> a, dialog |-> {a},
                    next |-> a :> [safe |-> t, risky |-> t, critical |-> t]]>>

Symmetric == Permutations(Request) \cup Permutations(Token) \cup Permutations(Guest)
               \cup Permutations(SessionId) \cup Permutations(Browser)
               \cup Permutations(User)

=============================================================================
