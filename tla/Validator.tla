----------------------------- MODULE Validator -----------------------------
(***************************************************************************)
(* The validator of scenario files (domain/validation.go), on the scenario *)
(* that toDomain of service/content.go builds from a file.  The rules that *)
(* look at one step or option are sets of issues; validateGraph, whose two *)
(* searches keep a queue and a set of visited codes, is a state machine    *)
(* with one step per iteration.                                            *)
(*                                                                         *)
(* Texts are kept as far as the rules tell them apart: filled in or not.   *)
(***************************************************************************)
EXTENDS Scenario, FiniteSets, Sequences, Functions

CONSTANTS
  Known,        \* codes of risk_signals.json
  MinDialogSteps, MaxDialogSteps,
  Inputs        \* the files to validate

(* Codes of steps, also of steps that no file has; None is the empty one.  *)
Codes == Step \cup {None}

(* A file as it comes: header is TRUE when code, title, role and difficulty*)
(* are well formed; message, text and feedback when the texts are not empty*)
OptionRow == [code: Codes, outcome: Outcome \cup {"other"}, score: Int,
              text: BOOLEAN, feedback: BOOLEAN, next: Codes]

StepRow == [code: Codes, type: {"dialog", "terminal", "other"}, message: BOOLEAN,
            signals: SUBSET (Known \cup {None}), options: Seq(OptionRow)]

File == [header: BOOLEAN, start: Codes, steps: Seq(StepRow)]

ASSUME LimitsAssumption == MinDialogSteps \in Nat /\ MaxDialogSteps \in Nat

ASSUME InputsAssumption == Inputs \subseteq File

VARIABLES
  file,         \* the scenario being validated
  pc,           \* where ValidateScenario is
  index,        \* the step validateGraph looks at
  queue,        \* of the search that is running
  links,        \* the options of the visited step that reachableFrom has yet to follow
  visited,
  reachable,    \* the result of reachableFrom
  issues        \* the issues found: a rule, and the step it was broken at

vars == <<file, pc, index, queue, links, visited, reachable, issues>>

Steps == DOMAIN file.steps

IsDialog(i) == file.steps[i].type = "dialog"

IsEnd(i) == file.steps[i].type = "terminal"

IsStart(i) == file.steps[i].code = file.start

OptionsOf(i) == Range(file.steps[i].options)

With(rule, at) == {[rule |-> rule, at |-> i] : i \in at}

Is(rule, broken) == IF broken THEN With(rule, {0}) ELSE {}

-----------------------------------------------------------------------------
(* Rules about one place.                                                  *)

MetaIssues ==
  LET dialogs == Cardinality({i \in Steps : IsDialog(i)})
  IN  UNION {Is("header", ~file.header),
             Is("dialogs", dialogs < MinDialogSteps \/ dialogs > MaxDialogSteps),
             Is("terminals", {i \in Steps : IsEnd(i)} = {}),
             Is("starts", Cardinality({i \in Steps : IsStart(i)}) # 1)}

Sound(o) == /\ o.outcome \in Outcome /\ o.score = Weights[o.outcome]
            /\ o.text /\ o.feedback

(* validateOptions: as many options as outcomes, one per outcome.          *)
OptionsAreWrong(i) ==
  LET options == file.steps[i].options
      Of(outcome) == {j \in DOMAIN options : options[j].outcome = outcome}
  IN  \/ Len(options) # Cardinality(Outcome)
      \/ \E o \in Range(options) : ~Sound(o)
      \/ \E outcome \in Outcome : Cardinality(Of(outcome)) # 1

StepIssues ==
  UNION {
    With("code", {i \in Steps : \/ file.steps[i].code = None
                                \/ \E j \in 1..i - 1 :
                                     file.steps[j].code = file.steps[i].code}),
    With("type", {i \in Steps : ~IsDialog(i) /\ ~IsEnd(i)}),
    With("message", {i \in Steps : ~file.steps[i].message}),
    With("signals", {i \in Steps : \/ file.steps[i].signals = {}
                                   \/ ~(file.steps[i].signals \subseteq Known)}),
    With("options", {i \in Steps : IsDialog(i) /\ OptionsAreWrong(i)})}

(* The map from codes to steps: the last one of equal codes stays.         *)
HasStep(code) == \E i \in Steps : file.steps[i].code = code

StepAt(code) ==
  CHOOSE i \in Steps : /\ file.steps[i].code = code
                       /\ \A j \in Steps : file.steps[j].code = code => j <= i

EndAt(code) == HasStep(code) /\ IsEnd(StepAt(code))

(* Broken variant: only an empty link is an issue.                         *)
LinksUnchecked ==
  With("link", {i \in Steps : \E o \in OptionsOf(i) : o.next = None})

LinkIssues ==
  With("link", {i \in Steps : \E o \in OptionsOf(i) : o.next = None \/ ~HasStep(o.next)})

-----------------------------------------------------------------------------
(* validateGraph.                                                          *)

NextCodes(code) ==
  IF HasStep(code)
    THEN [j \in DOMAIN file.steps[StepAt(code)].options |->
            file.steps[StepAt(code)].options[j].next]
    ELSE <<>>

Init ==
  /\ file \in Inputs
  /\ pc = "rules"
  /\ index = 1
  /\ queue = <<>> /\ links = <<>> /\ visited = {} /\ reachable = {}
  /\ issues = {}

(* All rules but those of the graph; without a start step it ends there.   *)
Rules ==
  /\ pc = "rules"
  /\ issues' = MetaIssues \cup StepIssues \cup LinkIssues
  /\ IF HasStep(file.start)
       THEN pc' = "reach" /\ queue' = <<file.start>>
       ELSE pc' = "done" /\ UNCHANGED queue
  /\ UNCHANGED <<file, index, links, visited, reachable>>

(* reachableFrom takes a code off its queue, a visited one for nothing ... *)
ReachAgain ==
  /\ pc = "reach" /\ links = <<>> /\ queue # <<>>
  /\ Head(queue) \in visited
  /\ queue' = Tail(queue)
  /\ UNCHANGED <<file, pc, index, links, visited, reachable, issues>>

ReachNew ==
  /\ pc = "reach" /\ links = <<>> /\ queue # <<>>
  /\ Head(queue) \notin visited
  /\ visited' = visited \cup {Head(queue)}
  /\ links' = NextCodes(Head(queue))
  /\ queue' = Tail(queue)
  /\ UNCHANGED <<file, pc, index, reachable, issues>>

(* Broken variant: follows the options of the start step only.             *)
FollowFromStart ==
  /\ pc = "reach" /\ links # <<>>
  /\ links' = Tail(links)
  /\ queue' = IF visited = {file.start} THEN Append(queue, Head(links)) ELSE queue
  /\ UNCHANGED <<file, pc, index, visited, reachable, issues>>

(* Broken variant: follows an option without a look at the map of steps.   *)
FollowDangling ==
  /\ pc = "reach" /\ links # <<>>
  /\ links' = Tail(links)
  /\ queue' = Append(queue, Head(links))
  /\ UNCHANGED <<file, pc, index, visited, reachable, issues>>

(* ... and follows the options of a new one, those of a terminal step too. *)
Follow ==
  /\ pc = "reach" /\ links # <<>>
  /\ links' = Tail(links)
  /\ queue' = IF HasStep(Head(links)) THEN Append(queue, Head(links)) ELSE queue
  /\ UNCHANGED <<file, pc, index, visited, reachable, issues>>

ReachEnd ==
  /\ pc = "reach" /\ links = <<>> /\ queue = <<>>
  /\ reachable' = visited
  /\ pc' = "step"
  /\ UNCHANGED <<file, index, queue, links, visited, issues>>

(* The steps of the file in turn: one that was not reached ...             *)
Unreached ==
  /\ pc = "step" /\ index \in Steps
  /\ file.steps[index].code \notin reachable
  /\ issues' = issues \cup With("unreachable", {index})
  /\ index' = index + 1
  /\ UNCHANGED <<file, pc, queue, links, visited, reachable>>

(* Broken variant: the search goes on with what the last one has visited.  *)
SearchFromStale ==
  /\ pc = "step" /\ index \in Steps
  /\ file.steps[index].code \in reachable
  /\ pc' = "search"
  /\ queue' = <<file.steps[index].code>>
  /\ UNCHANGED <<file, index, links, visited, reachable, issues>>

(* ... or one from which leadsToTerminal searches.                         *)
SearchFrom ==
  /\ pc = "step" /\ index \in Steps
  /\ file.steps[index].code \in reachable
  /\ pc' = "search"
  /\ queue' = <<file.steps[index].code>> /\ visited' = {}
  /\ UNCHANGED <<file, index, links, reachable, issues>>

(* Broken variant: only a new code is taken off the queue.                 *)
SearchAgainInPlace ==
  /\ pc = "search" /\ queue # <<>>
  /\ Head(queue) \in visited
  /\ UNCHANGED vars

SearchAgain ==
  /\ pc = "search" /\ queue # <<>>
  /\ Head(queue) \in visited
  /\ queue' = Tail(queue)
  /\ UNCHANGED <<file, pc, index, links, visited, reachable, issues>>

SearchNew ==
  /\ pc = "search" /\ queue # <<>>
  /\ Head(queue) \notin visited /\ ~EndAt(Head(queue))
  /\ visited' = visited \cup {Head(queue)}
  /\ queue' = Tail(queue) \o NextCodes(Head(queue))
  /\ UNCHANGED <<file, pc, index, links, reachable, issues>>

(* return true, and return false.                                          *)
SearchFinds ==
  /\ pc = "search" /\ queue # <<>>
  /\ Head(queue) \notin visited /\ EndAt(Head(queue))
  /\ pc' = "step" /\ index' = index + 1
  /\ queue' = <<>>
  /\ UNCHANGED <<file, links, visited, reachable, issues>>

SearchFails ==
  /\ pc = "search" /\ queue = <<>>
  /\ issues' = issues \cup With("endless", {index})
  /\ pc' = "step" /\ index' = index + 1
  /\ UNCHANGED <<file, queue, links, visited, reachable>>

Finish ==
  /\ pc = "step" /\ index \notin Steps
  /\ pc' = "done"
  /\ UNCHANGED <<file, index, queue, links, visited, reachable, issues>>

Next ==
  \/ Rules
  \/ ReachAgain \/ ReachNew \/ Follow \/ ReachEnd
  \/ Unreached \/ SearchFrom \/ SearchAgain \/ SearchNew \/ SearchFinds \/ SearchFails
  \/ Finish

Spec == Init /\ [][Next]_vars

FairSpec == Spec /\ WF_vars(Next)

Rule == {"header", "dialogs", "terminals", "starts", "code", "type", "message",
         "signals", "options", "link", "unreachable", "endless"}

Issue == [rule : Rule, at : Nat]

Typed ==
  /\ file \in Inputs
  /\ pc \in {"rules", "reach", "step", "search", "done"}
  /\ index \in Nat \ {0}
  /\ queue \in Seq(Codes) /\ links \in Seq(Codes)
  /\ visited \subseteq Codes /\ reachable \subseteq Codes
  /\ issues \subseteq Issue

(* The search from the start never enters a code that no step has, where a *)
(* dangling option or the empty code would lead it: such an option is      *)
(* reported and not followed.                                              *)
WithinFile ==
  /\ \A code \in reachable : HasStep(code)
  /\ pc \in {"rules", "reach"} => \A code \in visited \cup Range(queue) : HasStep(code)

TypeOK == Typed /\ WithinFile

-----------------------------------------------------------------------------
(* What an accepted file is.                                               *)

Accepted == pc = "done" /\ issues = {}

Successors == [code \in Codes |-> Range(NextCodes(code))]

Closed(S, next) == \A code \in S : next[code] \subseteq S

(* The codes to which options lead from code: they are in every set that   *)
(* has code and what the options of its members lead to.                   *)
ReachableBy(code, next) ==
  {x \in Codes : \A S \in SUBSET Codes : code \in S /\ Closed(S, next) => x \in S}

Reached == ReachableBy(file.start, Successors)

LeadsToEnd(i) == \E x \in ReachableBy(file.steps[i].code, Successors) : EndAt(x)

(* The rules for content, without an algorithm: a grid of options on every *)
(* dialog step; every step is reachable from the start and leads to a      *)
(* terminal one.                                                           *)
OptionGrid(i) ==
  /\ Len(file.steps[i].options) = Cardinality(Outcome)
  /\ {o.outcome : o \in OptionsOf(i)} = Outcome
  /\ \A o \in OptionsOf(i) : o.score = Weights[o.outcome] /\ o.text /\ o.feedback

WellFormed ==
  /\ file.header
  /\ Cardinality({i \in Steps : IsDialog(i)}) \in MinDialogSteps..MaxDialogSteps
  /\ \A i, j \in Steps : file.steps[i].code = file.steps[j].code => i = j
  /\ \E i \in Steps : IsStart(i)
  /\ \A i \in Steps :
       /\ file.steps[i].code # None /\ file.steps[i].message
       /\ file.steps[i].signals # {} /\ file.steps[i].signals \subseteq Known
       /\ IsDialog(i) \/ IsEnd(i)
       /\ IsDialog(i) => OptionGrid(i)
       /\ \A o \in OptionsOf(i) : HasStep(o.next)
       /\ file.steps[i].code \in Reached
       /\ LeadsToEnd(i)

(* The validator is right in both directions: no issue exactly when the    *)
(* rules hold, whatever duplicate codes, dangling links and cycles the     *)
(* searches run into.                                                      *)
VerdictRight == pc = "done" => (issues = {} <=> WellFormed)

(* The issues of the graph are exact: a step is reported as unreachable if *)
(* no options lead to it from the start, and as endless if they do and     *)
(* none lead from it to a terminal step.                                   *)
GraphRight ==
  pc = "done" /\ HasStep(file.start) =>
    \A i \in Steps :
      LET reached == file.steps[i].code \in Reached
      IN  /\ [rule |-> "unreachable", at |-> i] \in issues <=> ~reached
          /\ [rule |-> "endless", at |-> i] \in issues <=> reached /\ ~LeadsToEnd(i)

(* What makes GraphRight inductive.  A search has seen only codes that can *)
(* be reached, and what the options of the visited ones lead to is either  *)
(* visited too or waits to be.                                             *)
Waiting == visited \cup Range(queue) \cup Range(links)

Searching(from) ==
  /\ from \in Waiting
  /\ Waiting \subseteq ReachableBy(from, Successors)

ReachInv ==
  /\ HasStep(file.start) /\ index = 1
  /\ Searching(file.start)
  /\ \A c \in visited \cup Range(queue) : HasStep(c)
  /\ \A c \in visited : \A d \in Successors[c] : HasStep(d) => d \in Waiting

SearchInv ==
  /\ index \in Steps /\ links = <<>>
  /\ file.steps[index].code \in reachable
  /\ Searching(file.steps[index].code)
  /\ \A c \in visited : Successors[c] \subseteq Waiting /\ ~EndAt(c)

(* The graph issues are those of the steps looked at so far.               *)
IssuesSoFar ==
  \A i \in Nat :
    /\ [rule |-> "unreachable", at |-> i] \in issues
         <=> i \in Steps /\ i < index /\ file.steps[i].code \notin reachable
    /\ [rule |-> "endless", at |-> i] \in issues
         <=> i \in Steps /\ i < index /\ file.steps[i].code \in reachable /\ ~LeadsToEnd(i)

GraphInv ==
  /\ pc = "rules" => index = 1 /\ issues = {} /\ queue = <<>> /\ links = <<>> /\ visited = {}
  /\ pc = "reach" => ReachInv
  /\ pc = "search" => SearchInv
  /\ pc = "step" => links = <<>>
  /\ pc # "rules" /\ HasStep(file.start) => IssuesSoFar
  /\ pc \in {"step", "search"} => HasStep(file.start)
  /\ pc \in {"step", "search", "done"} /\ HasStep(file.start) =>
       reachable = {c \in Reached : HasStep(c)}
  /\ pc = "done" /\ HasStep(file.start) => index \notin Steps

(* The scenario that training plays.                                       *)
Played ==
  LET dialog == {file.steps[i].code : i \in {i \in Steps : IsDialog(i)}}
      NextOf(code, outcome) ==
        (CHOOSE o \in OptionsOf(StepAt(code)) : o.outcome = outcome).next
  IN  [start |-> file.start, dialog |-> dialog,
       next |-> [code \in dialog |-> [outcome \in Outcome |-> NextOf(code, outcome)]]]

(* Where the options that a person is offered lead.                         *)
Offered ==
  [code \in Codes |-> IF code \in Played.dialog THEN Range(Played.next[code]) ELSE {}]

(* An accepted file that starts with a dialog step is a scenario in the    *)
(* sense of the training engine; wherever the options lead there is a step,*)
(* and wherever a person stands, some choices end the attempt.             *)
AcceptedIsPlayable ==
  Accepted /\ IsDialog(StepAt(file.start)) =>
    /\ IsScenario(Played)
    /\ \A code \in ReachableBy(file.start, Offered) :
         /\ HasStep(code)
         /\ \E x \in ReachableBy(code, Offered) : EndAt(x)

(* The codes that occur in the file.                                       *)
Named ==
  {file.start} \cup {file.steps[i].code : i \in Steps}
    \cup UNION {{o.next : o \in OptionsOf(i)} : i \in Steps}

(* The searches never leave the file, whatever links lead nowhere: there   *)
(* are only so many codes to visit, and so many steps to search from.      *)
SearchesBounded == Waiting \subseteq Named /\ index <= Len(file.steps) + 1

(* Every iteration gets further: to a later phase, to the next step of the *)
(* file, to a code that the search has not visited, or through its queue.  *)
(* None comes back to where it was, although links may form cycles.        *)
Advances ==
  \/ <<pc, pc'>> \in {<<"rules", "reach">>, <<"rules", "done">>, <<"reach", "step">>,
                      <<"step", "done">>}
  \/ pc' = "step" /\ index' = index + 1
  \/ <<pc, pc'>> = <<"step", "search">> /\ index' = index
  \/ /\ pc' = pc /\ index' = index
     /\ \/ visited \subseteq visited' /\ visited' # visited
        \/ visited' = visited /\ Len(links') < Len(links) /\ Len(queue') <= Len(queue) + 1
        \/ visited' = visited /\ links' = links /\ Len(queue') < Len(queue)

IterationsAdvance == [][Advances]_vars

(* The searches end, although links may form cycles.                       *)
ValidationEnds == <>(pc = "done")

=============================================================================
