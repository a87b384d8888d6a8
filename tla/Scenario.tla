------------------------------ MODULE Scenario ------------------------------
(***************************************************************************)
(* Published scenarios and the branching engine that walks them            *)
(* (domain/scenario.go, domain/branching.go).                              *)
(*                                                                         *)
(* A scenario version that reached the database went through               *)
(* ValidateScenario and through the constraints of the options table, so   *)
(* every dialog step offers exactly one option per outcome and the option  *)
(* codes of a step are distinct: an option is identified here with its     *)
(* outcome.  Texts, sides and difficulty play no part in the walk.         *)
(***************************************************************************)
EXTENDS Integers

CONSTANTS
  Step,         \* step codes
  None          \* SQL NULL, and "not set" in Go values

ASSUME NoneIsNoStep == None \notin Step

Outcome == {"safe", "risky", "critical"}

(* The weight of an outcome, and so of every option that has it.           *)
Weights == [safe |-> 10, risky |-> 0, critical |-> -10]

(* One scenario version: its start step, its dialog steps (the others are  *)
(* terminal) and where each option of a dialog step leads.                 *)
IsScenario(sc) ==
  /\ DOMAIN sc = {"start", "dialog", "next"}
  /\ sc.dialog \subseteq Step
  /\ sc.start \in sc.dialog
  /\ sc.next \in [sc.dialog -> [Outcome -> Step]]

IsTerminal(sc, step) == step \notin sc.dialog

ResolveNext(sc, step, option) == sc.next[step][option]

(* Broken variant: numbers the step by the answers given before it.        *)
PositionFromZero(answersCount) == answersCount

(* The number of the step being answered, from the answers so far.         *)
PathPosition(answersCount) == answersCount + 1

=============================================================================
