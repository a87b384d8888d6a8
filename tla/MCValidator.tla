---------------------------- MODULE MCValidator ----------------------------
(* Instances of Validator for TLC: files with one or two dialog steps, all *)
(* link structures over their codes, and files with one rule broken.       *)
EXTENDS Validator, TLC

CONSTANTS a, b, t, lost, g1

OptionOf(code, outcome, next) ==
  [code |-> code, outcome |-> outcome, score |-> Weights[outcome],
   text |-> TRUE, feedback |-> TRUE, next |-> next]

Grid(x, y, z) ==
  <<OptionOf(a, "safe", x), OptionOf(b, "risky", y), OptionOf(t, "critical", z)>>

StepOf(code, type, options) ==
  [code |-> code, type |-> type, message |-> TRUE, signals |-> {g1}, options |-> options]

FileOf(start, steps) == [header |-> TRUE, start |-> start, steps |-> steps]

Grids(Targets) == {Grid(x, y, z) : x, y, z \in Targets}

(* Two dialog steps and a terminal one, which may have options too; links  *)
(* lead anywhere, and nowhere.                                             *)
Linked ==
  {FileOf(start, <<StepOf(a, "dialog", f), StepOf(b, "dialog", Grid(x, x, y)),
                   StepOf(t, "terminal", e)>>)
     : start \in {a, t}, f \in Grids({a, b, t, lost}),
       x \in {a, b, t}, y \in {b, None}, e \in {<<>>, <<OptionOf(a, "safe", b)>>}}

(* Steps whose codes repeat or are empty, of any type.                     *)
Coded ==
  {FileOf(start, <<StepOf(a, "dialog", Grid(x, y, t)), StepOf(y, type, Grid(x, a, t)),
                   StepOf(x, "terminal", <<>>)>>)
     : start \in {a, b, None}, x, y \in {a, b, t, None}, type \in {"dialog", "terminal", "other"}}

Sample ==
  FileOf(a, <<StepOf(a, "dialog", Grid(b, t, t)), StepOf(b, "dialog", Grid(t, t, t)),
              StepOf(t, "terminal", <<>>)>>)

(* The sample, with one thing changed.                                     *)
Edited ==
  LET Set(i, field, value) ==
        [Sample EXCEPT !.steps[i] = [@ EXCEPT ![field] = value]]
      SetOption(j, field, value) ==
        [Sample EXCEPT !.steps[2].options[j] = [@ EXCEPT ![field] = value]]
  IN  {Sample, [Sample EXCEPT !.header = FALSE], [Sample EXCEPT !.steps = Tail(@)],
       [Sample EXCEPT !.steps = SubSeq(@, 1, 2)], [Sample EXCEPT !.steps = SubSeq(@, 3, 3)],
       [Sample EXCEPT !.steps = Append(@, StepOf(lost, "terminal", <<>>))],
       [Sample EXCEPT !.steps = Append(@, StepOf(lost, "dialog", Grid(t, t, t)))]}
        \cup {Set(i, "message", FALSE) : i \in 1..3}
        \cup {Set(i, "signals", s) : i \in 1..3, s \in {{}, {g1, None}}}
        \cup {Set(2, "options", o) : o \in {<<>>, Tail(Grid(t, t, t)),
                                            Grid(t, t, t) \o Tail(Grid(t, t, t))}}
        \cup {SetOption(1, "outcome", o) : o \in {"risky", "other"}}
        \cup {SetOption(1, "score", n) : n \in {0, 5}}
        \cup {SetOption(2, field, FALSE) : field \in {"text", "feedback"}}
        \cup {SetOption(3, "code", a)}

AllFiles == Linked \cup Coded \cup Edited

=============================================================================
