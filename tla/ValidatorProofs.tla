-------------------------- MODULE ValidatorProofs --------------------------
(***************************************************************************)
(* Proofs about Validator, for every set of files: its variables are well  *)
(* typed; the two searches of validateGraph report exactly the steps that  *)
(* cannot be reached and those that lead to no terminal step; the verdict  *)
(* is right in both directions; what is accepted can be played.            *)
(***************************************************************************)
EXTENDS Validator, SequenceTheorems, FiniteSetTheorems, WellFoundedInduction, TLAPS

-----------------------------------------------------------------------------
(* Reachability.                                                           *)

LEMMA ReachableItself ==
  ASSUME NEW code \in Codes, NEW next
  PROVE  code \in ReachableBy(code, next)
  BY DEF ReachableBy

LEMMA ReachableNext ==
  ASSUME NEW code, NEW next, NEW x \in ReachableBy(code, next),
         NEW y \in next[x], y \in Codes
  PROVE  y \in ReachableBy(code, next)
  BY DEF ReachableBy, Closed

(* A closed set with code has everything that can be reached from code.    *)
LEMMA ReachableLeast ==
  ASSUME NEW S \in SUBSET Codes, NEW code \in S, NEW next, Closed(S, next)
  PROVE  ReachableBy(code, next) \subseteq S
  BY DEF ReachableBy

-----------------------------------------------------------------------------
(* Queues.                                                                 *)

LEMMA InRange ==
  ASSUME NEW S, NEW q \in Seq(S), NEW x
  PROVE  x \in Range(q) <=> \E i \in 1..Len(q) : q[i] = x
  <1>1. DOMAIN q = 1..Len(q)
    OBVIOUS
  <1> QED BY <1>1 DEF Range

LEMMA RangeOfTail ==
  ASSUME NEW S, NEW q \in Seq(S), q # <<>>
  PROVE  /\ Head(q) \in S /\ Tail(q) \in Seq(S)
         /\ Range(q) = {Head(q)} \cup Range(Tail(q))
  <1>1. Head(q) \in S /\ Tail(q) \in Seq(S)
    BY HeadTailProperties
  <1>2. ASSUME NEW x \in Range(q), x # Head(q)
        PROVE  x \in Range(Tail(q))
    <2>1. PICK i \in 1..Len(q) : q[i] = x
      BY InRange
    <2>2. i - 1 \in 1..Len(Tail(q)) /\ Tail(q)[i - 1] = q[i]
      BY <2>1, <1>2
    <2> QED BY <2>1, <2>2, <1>1, InRange
  <1>3. Head(q) \in Range(q)
    <2>1. 1 \in 1..Len(q) /\ Head(q) = q[1]
      OBVIOUS
    <2> QED BY <2>1, InRange
  <1>4. ASSUME NEW x \in Range(Tail(q))
        PROVE  x \in Range(q)
    <2>1. PICK i \in 1..Len(Tail(q)) : Tail(q)[i] = x
      BY <1>1, InRange
    <2>2. i + 1 \in 1..Len(q) /\ Tail(q)[i] = q[i + 1]
      BY <2>1
    <2> QED BY <2>1, <2>2, InRange
  <1> QED BY <1>1, <1>2, <1>3, <1>4

LEMMA RangeOfConcat ==
  ASSUME NEW S, NEW q \in Seq(S), NEW r \in Seq(S)
  PROVE  q \o r \in Seq(S) /\ Range(q \o r) = Range(q) \cup Range(r)
  <1>1. q \o r \in Seq(S) /\ Len(q \o r) = Len(q) + Len(r)
    OBVIOUS
  <1>2. \A i \in 1..Len(q \o r) :
          (q \o r)[i] = IF i <= Len(q) THEN q[i] ELSE r[i - Len(q)]
    OBVIOUS
  <1>3. ASSUME NEW x \in Range(q \o r)
        PROVE  x \in Range(q) \cup Range(r)
    <2>1. PICK i \in 1..Len(q \o r) : (q \o r)[i] = x
      BY <1>1, InRange
    <2>2. CASE i <= Len(q)
      <3>1. i \in 1..Len(q) /\ q[i] = x
        BY <2>1, <2>2, <1>2
      <3> QED BY <3>1, InRange
    <2>3. CASE ~(i <= Len(q))
      <3>1. i - Len(q) \in 1..Len(r) /\ r[i - Len(q)] = x
        BY <2>1, <2>3, <1>1, <1>2
      <3> QED BY <3>1, InRange
    <2> QED BY <2>2, <2>3
  <1>4. ASSUME NEW x \in Range(q)
        PROVE  x \in Range(q \o r)
    <2>1. PICK i \in 1..Len(q) : q[i] = x
      BY InRange
    <2>2. i \in 1..Len(q \o r) /\ (q \o r)[i] = x
      BY <2>1, <1>1, <1>2
    <2> QED BY <2>2, <1>1, InRange
  <1>5. ASSUME NEW x \in Range(r)
        PROVE  x \in Range(q \o r)
    <2>1. PICK i \in 1..Len(r) : r[i] = x
      BY InRange
    <2>2. i + Len(q) \in 1..Len(q \o r) /\ (q \o r)[i + Len(q)] = x
      BY <2>1, <1>1, <1>2
    <2> QED BY <2>2, <1>1, InRange
  <1> QED BY <1>1, <1>3, <1>4, <1>5

LEMMA RangeOfOne ==
  ASSUME NEW S, NEW x \in S
  PROVE  <<x>> \in Seq(S) /\ Range(<<x>>) = {x}
  <1>1. <<x>> \in Seq(S) /\ Len(<<x>>) = 1 /\ <<x>>[1] = x
    OBVIOUS
  <1>2. \A y : y \in Range(<<x>>) <=> \E i \in 1..1 : <<x>>[i] = y
    BY <1>1, InRange
  <1> QED BY <1>1, <1>2

LEMMA RangeOfAppend ==
  ASSUME NEW S, NEW q \in Seq(S), NEW x \in S
  PROVE  Append(q, x) \in Seq(S) /\ Range(Append(q, x)) = Range(q) \cup {x}
  <1>1. Append(q, x) = q \o <<x>>
    BY AppendIsConcat
  <1>2. <<x>> \in Seq(S) /\ Range(<<x>>) = {x}
    BY RangeOfOne
  <1> DEFINE one == <<x>>
  <1> HIDE DEF one
  <1>3. q \o one \in Seq(S) /\ Range(q \o one) = Range(q) \cup Range(one)
    BY <1>2, RangeOfConcat DEF one
  <1> QED BY <1>1, <1>2, <1>3, Zenon DEF one

LEMMA RangeOfEmpty == Range(<<>>) = {}
  BY DEF Range

-----------------------------------------------------------------------------
(* The file.                                                               *)

LEMMA FileShape ==
  ASSUME file \in Inputs
  PROVE  /\ file.start \in Codes
         /\ Steps = 1..Len(file.steps) /\ Len(file.steps) \in Nat
         /\ \A i \in Steps : file.steps[i] \in StepRow
  BY InputsAssumption DEF File, Steps

(* The map has a step for every code of the file: the last one.            *)
LEMMA StepAtCode ==
  ASSUME file \in Inputs, NEW code, HasStep(code)
  PROVE  StepAt(code) \in Steps /\ file.steps[StepAt(code)].code = code
  <1> DEFINE n == Len(file.steps)
             Same == {i \in Steps : file.steps[i].code = code}
             FromEnd == {k \in Nat : n - k \in Same}
  <1>1. PICK i \in Same : TRUE
    BY DEF HasStep
  <1>2. n - i \in FromEnd
    BY <1>1, FileShape
  <1>3. PICK k \in FromEnd : \A m \in FromEnd : ~(m < k)
    <2> DEFINE R == OpToRel(<, Nat)
    <2>1. IsWellFoundedOn(R, Nat) /\ FromEnd \subseteq Nat /\ FromEnd # {}
      BY <1>2, NatLessThanWellFounded
    <2>2. \A m, k \in Nat : m < k => <<m, k>> \in R
      BY DEF OpToRel
    <2> HIDE DEF R, FromEnd
    <2>3. \E k \in FromEnd : \A m \in FromEnd : <<m, k>> \notin R
      BY <2>1, WFMin
    <2> QED BY <2>1, <2>2, <2>3
  <1>4. n - k \in Same
    BY <1>3
  <1>5. \A j \in Same : j <= n - k
    <2> SUFFICES ASSUME NEW j \in Same PROVE j <= n - k
      OBVIOUS
    <2>1. n \in Nat /\ j \in 1..n /\ k \in Nat
      BY FileShape
    <2>2. n - j \in Nat /\ n - (n - j) = j
      BY <2>1
    <2>3. n - j \in FromEnd
      BY <2>2
    <2>4. ~(n - j < k)
      BY <2>3, <1>3
    <2> QED BY <2>1, <2>4
  <1> QED BY <1>4, <1>5 DEF StepAt

LEMMA NextCodesShape ==
  ASSUME file \in Inputs, NEW code
  PROVE  NextCodes(code) \in Seq(Codes)
  <1>1. CASE HasStep(code)
    <2>1. StepAt(code) \in Steps
      BY <1>1, StepAtCode
    <2> DEFINE options == file.steps[StepAt(code)].options
    <2>2. options \in Seq(OptionRow)
      BY <2>1, FileShape DEF StepRow
    <2>3. \A j \in 1..Len(options) : options[j].next \in Codes
      <3> HIDE DEF options
      <3> SUFFICES ASSUME NEW j \in 1..Len(options) PROVE options[j].next \in Codes
        OBVIOUS
      <3>1. options[j] \in OptionRow
        BY <2>2
      <3> QED BY <3>1 DEF OptionRow
    <2>4. NextCodes(code) = [j \in 1..Len(options) |-> options[j].next]
      BY <1>1, <2>2 DEF NextCodes
    <2> HIDE DEF options
    <2> QED BY <2>2, <2>3, <2>4, IsASeq
  <1>2. CASE ~HasStep(code)
    BY <1>2 DEF NextCodes
  <1> QED BY <1>1, <1>2

LEMMA SuccessorsShape ==
  ASSUME file \in Inputs, NEW code \in Codes
  PROVE  /\ Successors[code] = Range(NextCodes(code))
         /\ Successors[code] \subseteq Codes
         /\ ~HasStep(code) => Successors[code] = {}
  <1>1. NextCodes(code) \in Seq(Codes)
    BY NextCodesShape
  <1>2. Successors[code] = Range(NextCodes(code))
    BY DEF Successors
  <1>3. Range(NextCodes(code)) \subseteq Codes
    BY <1>1, InRange
  <1>4. ~HasStep(code) => NextCodes(code) = <<>>
    BY DEF NextCodes
  <1> QED BY <1>2, <1>3, <1>4, RangeOfEmpty

LEMMA CodeOfStep ==
  ASSUME file \in Inputs, NEW i \in Steps
  PROVE  file.steps[i].code \in Codes /\ HasStep(file.steps[i].code)
  BY FileShape DEF HasStep, StepRow

-----------------------------------------------------------------------------
(* Typing.                                                                 *)

LEMMA WithShape ==
  ASSUME NEW rule \in Rule, NEW at, at \subseteq Nat
  PROVE  With(rule, at) \subseteq Issue
  BY DEF With, Issue

(* The rules about one place report no issue of the graph.                 *)
LEMMA RuleIssues ==
  ASSUME file \in Inputs, NEW x \in MetaIssues \cup StepIssues \cup LinkIssues
  PROVE  /\ x \in Issue
         /\ x.rule \notin {"unreachable", "endless"}
  <1>1. Steps \subseteq Nat
    BY FileShape
  <1>2. \A rule, broken : x \in Is(rule, broken) => x.rule = rule /\ x \in With(rule, {0})
    BY DEF Is, With
  <1>3. \A rule, at : x \in With(rule, at) => x.rule = rule /\ x.at \in at /\ x = [rule |-> rule, at |-> x.at]
    BY DEF With
  <1>4. CASE x \in MetaIssues
    <2>1. \E rule \in {"header", "dialogs", "terminals", "starts"} : x \in With(rule, {0}) /\ x.rule = rule
      BY <1>4, <1>2 DEF MetaIssues
    <2> QED BY <2>1, <1>3 DEF Rule, Issue
  <1>5. CASE x \in StepIssues
    <2>1. PICK rule \in {"code", "type", "message", "signals", "options"}, at \in SUBSET Steps :
             x \in With(rule, at)
      BY <1>5 DEF StepIssues
    <2> QED BY <2>1, <1>1, <1>3 DEF Rule, Issue
  <1>6. CASE x \in LinkIssues
    <2>1. PICK at \in SUBSET Steps : x \in With("link", at)
      BY <1>6 DEF LinkIssues
    <2> QED BY <2>1, <1>1, <1>3 DEF Rule, Issue
  <1> QED BY <1>4, <1>5, <1>6

LEMMA TypeStep == Typed /\ [Next]_vars => Typed'
  <1> SUFFICES ASSUME Typed, [Next]_vars
               PROVE  Typed'
    OBVIOUS
  <1> USE DEF Typed
  <1>0. index + 1 \in Nat \ {0}
    OBVIOUS
  <1>h. queue # <<>> => Head(queue) \in Codes /\ Tail(queue) \in Seq(Codes)
    BY RangeOfTail
  <1>1. CASE Rules
    <2>1. issues' \subseteq Issue
      BY <1>1, RuleIssues DEF Rules
    <2>2. <<file.start>> \in Seq(Codes)
      BY FileShape, RangeOfOne
    <2> QED BY <1>1, <2>1, <2>2 DEF Rules
  <1>2. CASE ReachAgain
    BY <1>2, <1>h DEF ReachAgain
  <1>3. CASE ReachNew
    <2>1. NextCodes(Head(queue)) \in Seq(Codes)
      BY NextCodesShape
    <2> QED BY <1>3, <1>h, <2>1 DEF ReachNew
  <1>4. CASE Follow
    <2>1. Head(links) \in Codes /\ Tail(links) \in Seq(Codes)
      BY <1>4, RangeOfTail DEF Follow
    <2>2. Append(queue, Head(links)) \in Seq(Codes)
      BY <2>1, RangeOfAppend
    <2> QED BY <1>4, <2>1, <2>2 DEF Follow
  <1>5. CASE ReachEnd
    BY <1>5 DEF ReachEnd
  <1>6. CASE Unreached
    <2>1. With("unreachable", {index}) \subseteq Issue
      BY WithShape DEF Rule
    <2> QED BY <1>6, <1>0, <2>1 DEF Unreached
  <1>7. CASE SearchFrom
    <2>1. <<file.steps[index].code>> \in Seq(Codes)
      BY <1>7, CodeOfStep, RangeOfOne DEF SearchFrom
    <2> QED BY <1>7, <2>1 DEF SearchFrom
  <1>8. CASE SearchAgain
    BY <1>8, <1>h DEF SearchAgain
  <1>9. CASE SearchNew
    <2>1. NextCodes(Head(queue)) \in Seq(Codes)
      BY NextCodesShape
    <2>2. queue' \in Seq(Codes)
      BY <1>9, <1>h, <2>1, RangeOfConcat DEF SearchNew
    <2> QED BY <1>9, <1>h, <2>2 DEF SearchNew
  <1>10. CASE SearchFinds
    BY <1>10, <1>0 DEF SearchFinds
  <1>11. CASE SearchFails
    <2>1. With("endless", {index}) \subseteq Issue
      BY WithShape DEF Rule
    <2> QED BY <1>11, <1>0, <2>1 DEF SearchFails
  <1>12. CASE Finish
    BY <1>12 DEF Finish
  <1>13. CASE UNCHANGED vars
    BY <1>13 DEF vars
  <1> QED BY <1>1, <1>2, <1>3, <1>4, <1>5, <1>6, <1>7, <1>8, <1>9, <1>10, <1>11, <1>12,
             <1>13 DEF Next

LEMMA TypedHolds == Spec => []Typed
  <1>1. Init => Typed
    BY DEF Init, Typed
  <1> QED BY <1>1, TypeStep, PTL DEF Spec

(* The search from the start stays within the file.                        *)
LEMMA WithinFileStep == Typed /\ WithinFile /\ [Next]_vars => WithinFile'
  <1> SUFFICES ASSUME Typed, WithinFile, [Next]_vars
               PROVE  WithinFile'
    OBVIOUS
  <1>1. \A code : file' = file /\ HasStep(code) => HasStep(code)'
    BY DEF HasStep, Steps
  <1>2. queue \in Seq(Codes) /\ links \in Seq(Codes)
    BY DEF Typed
  <1>3. CASE Rules
    <2>1. HasStep(file.start) => Range(<<file.start>>) = {file.start}
      BY <1>1, RangeOfOne, FileShape DEF Typed
    <2> QED BY <1>1, <1>3, <2>1 DEF Rules, WithinFile
  <1>4. CASE ReachAgain
    BY <1>1, <1>2, <1>4, RangeOfTail DEF ReachAgain, WithinFile
  <1>5. CASE ReachNew
    BY <1>1, <1>2, <1>5, RangeOfTail DEF ReachNew, WithinFile
  <1>6. CASE Follow
    <2>1. Head(links) \in Codes
      BY <1>2, <1>6, RangeOfTail DEF Follow
    <2> QED BY <1>1, <1>2, <1>6, <2>1, RangeOfAppend DEF Follow, WithinFile
  <1>7. CASE ReachEnd
    BY <1>1, <1>7 DEF ReachEnd, WithinFile
  <1>8. CASE Unreached \/ SearchFrom \/ SearchAgain \/ SearchNew \/ SearchFinds \/ SearchFails \/ Finish
    BY <1>1, <1>8 DEF Unreached, SearchFrom, SearchAgain, SearchNew, SearchFinds, SearchFails,
       Finish, WithinFile
  <1>9. CASE UNCHANGED vars
    BY <1>1, <1>9 DEF vars, WithinFile
  <1> QED BY <1>3, <1>4, <1>5, <1>6, <1>7, <1>8, <1>9 DEF Next

(* The variables of the validator have their types and the search from the *)
(* start stays within the file, for any set of files.                      *)
THEOREM TypeCorrect == Spec => []TypeOK
  <1>1. Init => Typed /\ WithinFile
    BY RangeOfEmpty DEF Init, Typed, WithinFile
  <1>2. Typed /\ WithinFile /\ [Next]_vars => Typed' /\ WithinFile'
    BY TypeStep, WithinFileStep
  <1>3. Typed /\ WithinFile => TypeOK
    BY DEF TypeOK
  <1> QED BY <1>1, <1>2, <1>3, PTL DEF Spec

-----------------------------------------------------------------------------
(* The issues of the graph.  All that the searches are about depends on    *)
(* the file alone, which no step changes.                                  *)

LEMMA FileKept ==
  ASSUME file' = file
  PROVE  /\ Steps' = Steps
         /\ \A c : HasStep(c)' <=> HasStep(c)
         /\ \A c : EndAt(c)' <=> EndAt(c)
         /\ Successors' = Successors
         /\ Reached' = Reached
         /\ \A i : LeadsToEnd(i)' <=> LeadsToEnd(i)
  <1>1. Steps' = Steps
    BY DEF Steps
  <1>2. \A c : HasStep(c)' <=> HasStep(c)
    BY <1>1 DEF HasStep
  <1>3. \A c : StepAt(c)' = StepAt(c)
    BY <1>1 DEF StepAt
  <1>4. \A c : EndAt(c)' <=> EndAt(c)
    BY <1>2, <1>3 DEF EndAt, IsEnd
  <1>5. \A c : NextCodes(c)' = NextCodes(c)
    BY <1>2, <1>3 DEF NextCodes
  <1>6. Successors' = Successors
    BY <1>5 DEF Successors
  <1>7. Reached' = Reached
    BY <1>6 DEF Reached
  <1>8. \A i : LeadsToEnd(i)' <=> LeadsToEnd(i)
    BY <1>4, <1>6 DEF LeadsToEnd
  <1> QED BY <1>1, <1>2, <1>4, <1>6, <1>7, <1>8

(* What waits, when the three sets it is made of are known.                *)
LEMMA ReachSteps ==
  ASSUME Typed, GraphInv, pc = "reach",
         ReachAgain \/ ReachNew \/ Follow
  PROVE  ReachInv'
  <1>0. Typed /\ ReachInv
    BY DEF GraphInv
  <1>k. file' = file /\ index' = index
    BY DEF ReachAgain, ReachNew, Follow
  <1>f. /\ HasStep(file.start)' /\ index' = 1
        /\ \A c : HasStep(c)' <=> HasStep(c)
        /\ Successors' = Successors /\ Reached' = Reached
    BY <1>0, <1>k, FileKept DEF ReachInv
  <1>w. /\ file.start \in Waiting /\ Waiting \subseteq Reached
        /\ Waiting = visited \cup Range(queue) \cup Range(links)
    BY <1>0 DEF ReachInv, Searching, Reached, Waiting
  <1>v. /\ \A c \in visited \cup Range(queue) : HasStep(c)
        /\ \A c \in visited : \A d \in Successors[c] : HasStep(d) => d \in Waiting
    BY <1>0 DEF ReachInv
  <1>q. /\ queue # <<>> => Head(queue) \in Codes /\ Range(queue) = {Head(queue)} \cup Range(Tail(queue))
        /\ links # <<>> => Head(links) \in Codes /\ Range(links) = {Head(links)} \cup Range(Tail(links))
        /\ \A d : d \in Codes => Range(Append(queue, d)) = Range(queue) \cup {d}
    BY <1>0, RangeOfTail, RangeOfAppend DEF Typed
  (* It remains to show what each step makes of the three sets.            *)
  <1>s. SUFFICES /\ file.start \in Waiting' /\ Waiting' \subseteq Reached
                 /\ \A c \in visited' \cup Range(queue') : HasStep(c)
                 /\ \A c \in visited' : \A d \in Successors[c] : HasStep(d) => d \in Waiting'
    BY <1>k, <1>f, Zenon DEF ReachInv, Searching, Reached
  <1>1. Waiting' = visited' \cup Range(queue') \cup Range(links')
    BY DEF Waiting
  <1>2. CASE ReachAgain
    <2>1. /\ visited' = visited /\ links' = links
          /\ Range(queue) = {Head(queue)} \cup Range(queue') /\ Head(queue) \in visited
      BY <1>2, <1>q DEF ReachAgain
    <2>2. Waiting' = Waiting
      BY <2>1, <1>1, <1>w
    <2> QED BY <2>1, <2>2, <1>w, <1>v
  <1>3. CASE ReachNew
    <2> DEFINE h == Head(queue)
    <2>1. /\ visited' = visited \cup {h} /\ h \in Codes /\ h \in Range(queue)
          /\ Range(queue) = {h} \cup Range(queue')
          /\ links = <<>> /\ links' = NextCodes(h)
      BY <1>3, <1>q DEF ReachNew
    <2>2. Range(links') = Successors[h] /\ Successors[h] \subseteq Codes /\ Range(links) = {}
      BY <2>1, <1>0, SuccessorsShape, RangeOfEmpty DEF Typed
    <2> HIDE DEF h
    <2>3. Waiting' = Waiting \cup Successors[h]
      BY <2>1, <2>2, <1>1, <1>w
    <2>4. h \in Reached
      BY <2>1, <1>w
    <2>5. Successors[h] \subseteq Reached
      BY <2>2, <2>4, ReachableNext DEF Reached
    <2> QED BY <2>1, <2>3, <2>5, <1>w, <1>v
  <1>4. CASE Follow
    <2> DEFINE h == Head(links)
    <2>1. /\ visited' = visited /\ h \in Codes
          /\ Range(links) = {h} \cup Range(links')
          /\ queue' = IF HasStep(h) THEN Append(queue, h) ELSE queue
      BY <1>4, <1>q DEF Follow
    <2>2. Range(queue') = IF HasStep(h) THEN Range(queue) \cup {h} ELSE Range(queue)
      BY <2>1, <1>q
    <2> HIDE DEF h
    <2>3. Waiting' \subseteq Waiting /\ \A d \in Waiting : HasStep(d) => d \in Waiting'
      BY <2>1, <2>2, <1>1, <1>w, <1>v
    <2> QED BY <2>1, <2>2, <2>3, <1>w, <1>v, <1>f, <1>0 DEF ReachInv
  <1> QED BY <1>2, <1>3, <1>4

(* reachableFrom returns the codes that have a step and can be reached.    *)
LEMMA ReachResult ==
  ASSUME Typed, GraphInv, ReachEnd
  PROVE  reachable' = {c \in Reached : HasStep(c)}
  <1>0. Typed /\ ReachInv /\ reachable' = visited /\ queue = <<>> /\ links = <<>>
    BY DEF GraphInv, ReachEnd
  <1>1. Waiting = visited
    BY <1>0, RangeOfEmpty DEF Waiting
  <1>2. visited \subseteq {c \in Reached : HasStep(c)}
    BY <1>0, <1>1 DEF ReachInv, Searching, Reached
  <1> DEFINE S == visited \cup {c \in Codes : ~HasStep(c)}
  <1>3. S \in SUBSET Codes /\ file.start \in S
    BY <1>0, <1>1 DEF Typed, ReachInv, Searching
  <1>4. Closed(S, Successors)
    <2> SUFFICES ASSUME NEW c \in S, NEW d \in Successors[c] PROVE d \in S
      BY DEF Closed
    <2>1. c \in Codes /\ d \in Codes /\ (~HasStep(c) => Successors[c] = {})
      BY <1>3, <1>0, SuccessorsShape DEF Typed
    <2>2. c \in visited
      BY <2>1
    <2> QED BY <2>1, <2>2, <1>0, <1>1 DEF ReachInv
  <1>5. Reached \subseteq S
    BY <1>3, <1>4, ReachableLeast DEF Reached
  <1> QED BY <1>0, <1>2, <1>5

(* leadsToTerminal keeps its promise while it searches ...                 *)
LEMMA SearchSteps ==
  ASSUME Typed, GraphInv, SearchAgain \/ SearchNew
  PROVE  SearchInv'
  <1>0. Typed /\ SearchInv /\ queue # <<>>
    BY DEF GraphInv, SearchAgain, SearchNew
  <1> DEFINE from == file.steps[index].code
             h == Head(queue)
  <1>k. file' = file /\ index' = index /\ links' = links /\ reachable' = reachable
    BY DEF SearchAgain, SearchNew
  <1>f. Steps' = Steps /\ Successors' = Successors /\ \A c : EndAt(c)' <=> EndAt(c)
    BY <1>k, FileKept
  <1>w. /\ index \in Steps /\ links = <<>> /\ from \in reachable
        /\ from \in Waiting /\ Waiting \subseteq ReachableBy(from, Successors)
        /\ \A c \in visited : Successors[c] \subseteq Waiting /\ ~EndAt(c)
    BY <1>0 DEF SearchInv, Searching
  <1>q. h \in Codes /\ Tail(queue) \in Seq(Codes) /\ Range(queue) = {h} \cup Range(Tail(queue))
    BY <1>0, RangeOfTail DEF Typed
  <1>1. /\ Waiting = visited \cup Range(queue)
        /\ Waiting' = visited' \cup Range(queue')
    BY <1>k, <1>w, RangeOfEmpty DEF Waiting
  <1>e. from' = from
    BY <1>k
  <1> HIDE DEF from, h
  <1>s. SUFFICES /\ from \in Waiting' /\ Waiting' \subseteq ReachableBy(from, Successors)
                 /\ \A c \in visited' : Successors[c] \subseteq Waiting' /\ ~EndAt(c)
    <2>1. Searching(from)' <=> from \in Waiting' /\ Waiting' \subseteq ReachableBy(from, Successors)
      BY <1>f, <1>e DEF Searching
    <2> QED BY <1>k, <1>f, <1>w, <1>e, <2>1 DEF SearchInv, from
  <1>2. CASE SearchAgain
    <2>1. visited' = visited /\ queue' = Tail(queue) /\ h \in visited
      BY <1>2 DEF SearchAgain, h
    <2>2. Waiting' = Waiting
      BY <2>1, <1>1, <1>q
    <2> QED BY <2>1, <2>2, <1>w
  <1>3. CASE SearchNew
    <2>1. visited' = visited \cup {h} /\ queue' = Tail(queue) \o NextCodes(h) /\ ~EndAt(h)
      BY <1>3 DEF SearchNew, h
    <2>2. NextCodes(h) \in Seq(Codes) /\ Range(NextCodes(h)) = Successors[h]
          /\ Successors[h] \subseteq Codes
      BY <1>0, <1>q, NextCodesShape, SuccessorsShape DEF Typed
    <2>3. Range(queue') = Range(Tail(queue)) \cup Successors[h]
      <3> DEFINE t == Tail(queue)
                 n == NextCodes(h)
      <3> HIDE DEF t, n
      <3>1. t \in Seq(Codes) /\ n \in Seq(Codes)
        BY <2>2, <1>q DEF t, n
      <3>2. Range(t \o n) = Range(t) \cup Range(n)
        BY <3>1, RangeOfConcat
      <3> QED BY <3>2, <2>1, <2>2 DEF t, n
    <2>4. Waiting' = Waiting \cup Successors[h]
      BY <2>1, <2>3, <1>1, <1>q
    <2>5. Successors[h] \subseteq ReachableBy(from, Successors)
      BY <2>2, <1>w, <1>1, <1>q, ReachableNext
    <2> QED BY <2>1, <2>4, <2>5, <1>w
  <1> QED BY <1>2, <1>3

(* ... and answers whether there is a terminal step to be reached.         *)
LEMMA SearchAnswers ==
  ASSUME Typed, GraphInv
  PROVE  /\ SearchFinds => LeadsToEnd(index)
         /\ SearchFails => ~LeadsToEnd(index)
  <1> DEFINE from == file.steps[index].code
  <1>1. ASSUME SearchFinds
        PROVE  LeadsToEnd(index)
    <2>1. SearchInv /\ queue \in Seq(Codes) /\ queue # <<>> /\ EndAt(Head(queue))
      BY <1>1 DEF GraphInv, SearchFinds, Typed
    <2>2. Head(queue) \in Waiting
      BY <2>1, RangeOfTail DEF Waiting
    <2> QED BY <2>1, <2>2 DEF SearchInv, Searching, LeadsToEnd
  <1>2. ASSUME SearchFails
        PROVE  ~LeadsToEnd(index)
    <2>1. SearchInv /\ queue = <<>> /\ links = <<>> /\ visited \in SUBSET Codes
      BY <1>2 DEF GraphInv, SearchFails, SearchInv, Typed
    <2>2. Waiting = visited
      BY <2>1, RangeOfEmpty DEF Waiting
    <2>3. from \in visited /\ Closed(visited, Successors) /\ \A c \in visited : ~EndAt(c)
      BY <2>1, <2>2 DEF SearchInv, Searching, Closed
    <2>4. ReachableBy(from, Successors) \subseteq visited
      BY <2>1, <2>3, ReachableLeast
    <2> QED BY <2>3, <2>4 DEF LeadsToEnd
  <1> QED BY <1>1, <1>2

(* An issue of the graph that a step of the validator adds.                *)
LEMMA IssuesGrow ==
  ASSUME NEW rule, NEW r, NEW i, NEW j
  PROVE  [rule |-> r, at |-> i] \in issues \cup With(rule, {j}) <=>
           [rule |-> r, at |-> i] \in issues \/ (r = rule /\ i = j)
  <1>1. With(rule, {j}) = {[rule |-> rule, at |-> j]}
    BY DEF With
  <1>2. [rule |-> r, at |-> i] = [rule |-> rule, at |-> j] <=> r = rule /\ i = j
    <2>1. [rule |-> r, at |-> i].rule = r /\ [rule |-> r, at |-> i].at = i
      OBVIOUS
    <2>2. [rule |-> rule, at |-> j].rule = rule /\ [rule |-> rule, at |-> j].at = j
      OBVIOUS
    <2> QED BY <2>1, <2>2
  <1> QED BY <1>1, <1>2

(* The graph issues stay those of the steps looked at so far.              *)
LEMMA IssuesStep ==
  ASSUME Typed, GraphInv, [Next]_vars,
         pc' # "rules", HasStep(file.start)'
  PROVE  IssuesSoFar'
  <1> DEFINE Off(i) == i \in Steps /\ i < index /\ file.steps[i].code \notin reachable
             Endless(i) == i \in Steps /\ i < index /\ file.steps[i].code \in reachable
                           /\ ~LeadsToEnd(i)
             Has(r, i) == [rule |-> r, at |-> i] \in issues
  <1>0. Typed /\ index \in Nat \ {0} /\ Steps = 1..Len(file.steps) /\ Len(file.steps) \in Nat
    BY FileShape DEF Typed
  <1>k. file' = file
    BY DEF Next, vars, Rules, ReachAgain, ReachNew, Follow, ReachEnd, Unreached, SearchFrom,
           SearchAgain, SearchNew, SearchFinds, SearchFails, Finish
  <1>f. Steps' = Steps /\ HasStep(file.start) /\ \A i : LeadsToEnd(i)' <=> LeadsToEnd(i)
    BY <1>k, FileKept
  <1>i. pc # "rules" => \A i \in Nat : (Has("unreachable", i) <=> Off(i))
                                    /\ (Has("endless", i) <=> Endless(i))
    BY <1>f DEF GraphInv, IssuesSoFar
  <1>s. SUFFICES ASSUME NEW i \in Nat
                 PROVE  (Has("unreachable", i)' <=> Off(i)') /\ (Has("endless", i)' <=> Endless(i)')
    BY DEF IssuesSoFar
  <1>1. CASE Rules
    <2>1. index' = 1 /\ issues' = MetaIssues \cup StepIssues \cup LinkIssues
      BY <1>1 DEF Rules, GraphInv
    <2>2. ~Has("unreachable", i)' /\ ~Has("endless", i)'
      BY <2>1, <1>0, RuleIssues DEF Typed
    <2>3. ~Off(i)' /\ ~Endless(i)'
      BY <2>1, <1>f, <1>0
    <2> QED BY <2>2, <2>3
  <1>2. CASE UNCHANGED <<index, reachable, issues>> /\ pc # "rules"
    BY <1>2, <1>f, <1>k, <1>i
  <1>3. CASE ReachEnd
    <2>1. index' = 1 /\ issues' = issues /\ index = 1 /\ pc # "rules"
      BY <1>3 DEF ReachEnd, GraphInv, ReachInv
    <2>2. ~Off(i) /\ ~Endless(i) /\ ~Off(i)' /\ ~Endless(i)'
      BY <2>1, <1>f, <1>0
    <2> QED BY <2>1, <2>2, <1>i
  <1>4. CASE Unreached
    <2>1. /\ index' = index + 1 /\ reachable' = reachable /\ pc # "rules"
          /\ index \in Steps /\ file.steps[index].code \notin reachable
          /\ issues' = issues \cup With("unreachable", {index})
      BY <1>4 DEF Unreached
    <2>2. /\ Has("unreachable", i)' <=> Has("unreachable", i) \/ i = index
          /\ Has("endless", i)' <=> Has("endless", i)
      BY <2>1, IssuesGrow
    <2>3. /\ Off(i)' <=> Off(i) \/ i = index
          /\ Endless(i)' <=> Endless(i)
      BY <2>1, <1>0, <1>f, <1>k
    <2> QED BY <2>1, <2>2, <2>3, <1>i
  <1>5. CASE SearchFinds
    <2>1. /\ index' = index + 1 /\ reachable' = reachable /\ issues' = issues /\ pc # "rules"
          /\ file.steps[index].code \in reachable
      BY <1>5 DEF SearchFinds, GraphInv, SearchInv
    <2>2. LeadsToEnd(index)
      BY <1>5, SearchAnswers
    <2>3. (Off(i)' <=> Off(i)) /\ (Endless(i)' <=> Endless(i))
      BY <2>1, <2>2, <1>0, <1>f, <1>k
    <2> QED BY <2>1, <2>3, <1>i
  <1>6. CASE SearchFails
    <2>1. /\ index' = index + 1 /\ reachable' = reachable /\ pc # "rules"
          /\ index \in Steps /\ file.steps[index].code \in reachable
          /\ issues' = issues \cup With("endless", {index})
      BY <1>6 DEF SearchFails, GraphInv, SearchInv
    <2>2. ~LeadsToEnd(index)
      BY <1>6, SearchAnswers
    <2>3. /\ Has("unreachable", i)' <=> Has("unreachable", i)
          /\ Has("endless", i)' <=> Has("endless", i) \/ i = index
      BY <2>1, IssuesGrow
    <2>4. /\ Off(i)' <=> Off(i)
          /\ Endless(i)' <=> Endless(i) \/ i = index
      BY <2>1, <2>2, <1>0, <1>f, <1>k
    <2> QED BY <2>1, <2>3, <2>4, <1>i
  <1>7. ReachAgain \/ ReachNew \/ Follow \/ SearchFrom \/ SearchAgain \/ SearchNew \/ Finish
          => UNCHANGED <<index, reachable, issues>> /\ pc # "rules"
    BY DEF ReachAgain, ReachNew, Follow, SearchFrom, SearchAgain, SearchNew, Finish
  <1>8. CASE UNCHANGED vars
    BY <1>8, <1>2 DEF vars
  <1> QED BY <1>1, <1>2, <1>3, <1>4, <1>5, <1>6, <1>7, <1>8 DEF Next

LEMMA GraphStep == Typed /\ GraphInv /\ [Next]_vars => GraphInv'
  <1> SUFFICES ASSUME Typed, GraphInv, [Next]_vars
               PROVE  GraphInv'
    OBVIOUS
  <1>0. Typed /\ file \in Inputs
    BY DEF Typed
  <1>k. file' = file
    BY DEF Next, vars, Rules, ReachAgain, ReachNew, Follow, ReachEnd, Unreached, SearchFrom,
           SearchAgain, SearchNew, SearchFinds, SearchFails, Finish
  <1>f. /\ Steps' = Steps /\ (HasStep(file.start)' <=> HasStep(file.start))
        /\ \A c : HasStep(c)' <=> HasStep(c)
        /\ \A c : EndAt(c)' <=> EndAt(c)
        /\ \A i : LeadsToEnd(i)' <=> LeadsToEnd(i)
        /\ Successors' = Successors /\ Reached' = Reached
        /\ {c \in Reached : HasStep(c)}' = {c \in Reached : HasStep(c)}
    <2>1. /\ \A c : HasStep(c)' <=> HasStep(c)
          /\ Reached' = Reached
      BY <1>k, FileKept
    <2>2. {c \in Reached : HasStep(c)}' = {c \in Reached : HasStep(c)}
      BY <2>1
    <2> QED BY <1>k, <2>1, <2>2, FileKept
  <1>g. pc' # "rules" /\ HasStep(file.start)' => IssuesSoFar'
    BY IssuesStep
  <1>1. CASE Rules
    <2>1. /\ index = 1 /\ index' = 1 /\ links' = <<>> /\ visited' = {}
          /\ HasStep(file.start) => pc' = "reach" /\ queue' = <<file.start>>
          /\ ~HasStep(file.start) => pc' = "done"
      BY <1>1 DEF Rules, GraphInv
    <2>2. HasStep(file.start) => ReachInv'
      <3> HAVE HasStep(file.start)
      <3>1. file.start \in Codes /\ Range(queue') = {file.start}
        BY <1>0, <2>1, FileShape, RangeOfOne
      <3>2. Waiting' = {file.start}
        BY <2>1, <3>1, RangeOfEmpty DEF Waiting
      <3>3. file.start \in Reached
        BY <3>1, ReachableItself DEF Reached
      <3> QED BY <1>k, <1>f, <2>1, <3>1, <3>2, <3>3 DEF ReachInv, Searching, Reached
    <2> QED BY <2>1, <2>2, <1>f, <1>g DEF GraphInv
  <1>2. CASE ReachAgain \/ ReachNew \/ Follow
    <2>1. pc = "reach" /\ pc' = "reach"
      BY <1>2 DEF ReachAgain, ReachNew, Follow
    <2>2. ReachInv'
      BY <1>2, <2>1, ReachSteps
    <2> QED BY <2>1, <2>2, <1>g DEF GraphInv
  <1>3. CASE ReachEnd
    <2>1. pc = "reach" /\ pc' = "step" /\ links' = <<>> /\ HasStep(file.start)
      BY <1>3 DEF ReachEnd, GraphInv, ReachInv
    <2>2. reachable' = {c \in Reached : HasStep(c)}
      BY <1>3, ReachResult
    <2> QED BY <2>1, <2>2, <1>f, <1>g DEF GraphInv
  <1>r. pc \in {"step", "search"} /\ reachable' = reachable
          => HasStep(file.start) /\ reachable' = {c \in Reached : HasStep(c)}'
    BY <1>f DEF GraphInv
  <1>4. CASE Unreached
    <2>1. pc = "step" /\ pc' = "step" /\ links' = <<>> /\ reachable' = reachable
      BY <1>4 DEF Unreached, GraphInv
    <2> QED BY <2>1, <1>f, <1>g, <1>r DEF GraphInv
  <1>5. CASE SearchFrom
    <2> DEFINE from == file.steps[index].code
    <2>1. /\ pc = "step" /\ pc' = "search" /\ links' = <<>> /\ reachable' = reachable
          /\ index' = index /\ index \in Steps /\ from \in reachable
          /\ queue' = <<from>> /\ visited' = {}
      BY <1>5 DEF SearchFrom, GraphInv
    <2>2. from \in Codes /\ Range(queue') = {from}
      BY <1>0, <2>1, CodeOfStep, RangeOfOne
    <2>3. Waiting' = {from}
      BY <2>1, <2>2, RangeOfEmpty DEF Waiting
    <2>4. from \in ReachableBy(from, Successors)
      BY <2>2, ReachableItself
    <2>5. from' = from
      BY <1>k, <2>1
    <2> HIDE DEF from
    <2>6. Searching(from)'
      BY <2>3, <2>4, <2>5, <1>f DEF Searching
    <2>7. SearchInv'
      BY <2>1, <2>5, <2>6, <1>f DEF SearchInv, from
    <2> QED BY <2>1, <2>7, <1>f, <1>g, <1>r DEF GraphInv
  <1>6. CASE SearchAgain \/ SearchNew
    <2>1. pc = "search" /\ pc' = "search" /\ reachable' = reachable
      BY <1>6 DEF SearchAgain, SearchNew
    <2>2. SearchInv'
      BY <1>6, SearchSteps
    <2> QED BY <2>1, <2>2, <1>f, <1>g, <1>r DEF GraphInv
  <1>7. CASE SearchFinds \/ SearchFails
    <2>1. pc = "search" /\ pc' = "step" /\ links' = <<>> /\ reachable' = reachable
      BY <1>7 DEF SearchFinds, SearchFails, GraphInv, SearchInv
    <2> QED BY <2>1, <1>f, <1>g, <1>r DEF GraphInv
  <1>8. CASE Finish
    <2>1. pc = "step" /\ pc' = "done" /\ reachable' = reachable /\ index' = index
          /\ index \notin Steps
      BY <1>8 DEF Finish
    <2> QED BY <2>1, <1>f, <1>g, <1>r DEF GraphInv
  <1>9. CASE UNCHANGED vars
    <2>1. /\ pc' = pc /\ index' = index /\ queue' = queue /\ links' = links
          /\ visited' = visited /\ reachable' = reachable /\ issues' = issues
      BY <1>9 DEF vars
    <2>2. Waiting' = Waiting
      BY <2>1 DEF Waiting
    <2>3. ReachInv => ReachInv'
      BY <2>1, <2>2, <1>f, <1>k DEF ReachInv, Searching
    <2>4. SearchInv => SearchInv'
      BY <2>1, <2>2, <1>f, <1>k DEF SearchInv, Searching
    <2> QED BY <2>1, <2>3, <2>4, <1>f, <1>g DEF GraphInv
  <1> QED BY <1>1, <1>2, <1>3, <1>4, <1>5, <1>6, <1>7, <1>8, <1>9 DEF Next

(* The issues of the graph, once every step has been looked at.            *)
LEMMA GraphWhenDone ==
  ASSUME Typed, GraphInv, pc = "done", HasStep(file.start), NEW i \in Steps
  PROVE  /\ [rule |-> "unreachable", at |-> i] \in issues <=> file.steps[i].code \notin Reached
         /\ [rule |-> "endless", at |-> i] \in issues
              <=> file.steps[i].code \in Reached /\ ~LeadsToEnd(i)
  <1>1. file \in Inputs /\ index \in Nat \ {0}
    BY DEF Typed
  <1>2. IssuesSoFar /\ reachable = {c \in Reached : HasStep(c)} /\ index \notin Steps
    BY DEF GraphInv
  <1>3. i \in Nat /\ i < index
    BY <1>1, <1>2, FileShape
  <1>4. file.steps[i].code \in reachable <=> file.steps[i].code \in Reached
    BY <1>1, <1>2, CodeOfStep
  <1> QED BY <1>2, <1>3, <1>4 DEF IssuesSoFar

(* The two searches are right, for every set of files: whatever duplicate  *)
(* codes, dangling links and cycles they run into, validateGraph reports a *)
(* step as unreachable if and only if no options lead to it from the start,*)
(* and as endless if and only if some do and none lead from it to a        *)
(* terminal step.                                                          *)
THEOREM GraphIsRight == Spec => []GraphRight
  <1>1. Init => GraphInv
    BY DEF Init, GraphInv
  <1>2. Typed /\ GraphInv => GraphRight
    BY GraphWhenDone DEF GraphRight
  <1> QED BY <1>1, <1>2, GraphStep, TypedHolds, PTL DEF Spec

-----------------------------------------------------------------------------
(* The rules about one place.                                              *)

(* The rules for one place, and the number of start and terminal steps.    *)
RulesHold ==
  /\ file.header
  /\ Cardinality({i \in Steps : IsDialog(i)}) \in MinDialogSteps..MaxDialogSteps
  /\ {i \in Steps : IsEnd(i)} # {}
  /\ \A i, j \in Steps : file.steps[i].code = file.steps[j].code => i = j
  /\ \E i \in Steps : IsStart(i)
  /\ \A i \in Steps :
       /\ file.steps[i].code # None /\ file.steps[i].message
       /\ file.steps[i].signals # {} /\ file.steps[i].signals \subseteq Known
       /\ IsDialog(i) \/ IsEnd(i)
       /\ IsDialog(i) => OptionGrid(i)
       /\ \A o \in OptionsOf(i) : HasStep(o.next)

LEMMA WithNone ==
  ASSUME NEW rule, NEW at
  PROVE  With(rule, at) = {} <=> at = {}
  BY DEF With

LEMMA OneStart ==
  ASSUME file \in Inputs,
         \A i, j \in Steps : file.steps[i].code = file.steps[j].code => i = j
  PROVE  Cardinality({i \in Steps : IsStart(i)}) = 1 <=> \E i \in Steps : IsStart(i)
  <1> DEFINE starts == {i \in Steps : IsStart(i)}
  <1>1. ASSUME NEW i \in starts
        PROVE  Cardinality(starts) = 1
    <2>1. starts = {i}
      BY DEF IsStart
    <2> QED BY <2>1, FS_Singleton
  <1>2. starts = {} => Cardinality(starts) = 0
    BY FS_EmptySet
  <1> QED BY <1>1, <1>2

(* As many options as outcomes, all of them there: one for each.           *)
LEMMA GridRule ==
  ASSUME file \in Inputs, NEW i \in Steps
  PROVE  OptionsAreWrong(i) <=> ~OptionGrid(i)
  <1> DEFINE options == file.steps[i].options
             Of(outcome) == {j \in DOMAIN options : options[j].outcome = outcome}
  <1>1. options \in Seq(OptionRow) /\ OptionsOf(i) = Range(options)
    BY FileShape DEF StepRow, OptionsOf
  <1>2. OptionsAreWrong(i) <=> \/ Len(options) # Cardinality(Outcome)
                               \/ \E o \in Range(options) : ~Sound(o)
                               \/ \E outcome \in Outcome : Cardinality(Of(outcome)) # 1
    BY DEF OptionsAreWrong
  <1>3. OptionGrid(i) <=>
          /\ Len(options) = Cardinality(Outcome)
          /\ {o.outcome : o \in Range(options)} = Outcome
          /\ \A o \in Range(options) : o.score = Weights[o.outcome] /\ o.text /\ o.feedback
    BY <1>1 DEF OptionGrid
  <1>4. Cardinality(Outcome) = 3
    <2>1. Cardinality({"safe"}) = 1 /\ IsFiniteSet({"safe"})
      BY FS_Singleton
    <2> DEFINE two == {"safe"} \cup {"risky"}
    <2>2. Cardinality(two) = 2 /\ IsFiniteSet(two)
      <3>1. "risky" \notin {"safe"}
        OBVIOUS
      <3> HIDE DEF two
      <3>2. IsFiniteSet(two) /\ Cardinality(two) = Cardinality({"safe"}) + 1
        BY <2>1, <3>1, FS_AddElement DEF two
      <3> QED BY <2>1, <3>2
    <2>3. "critical" \notin two /\ Outcome = two \cup {"critical"}
      BY DEF Outcome
    <2> HIDE DEF two
    <2>4. Cardinality(two \cup {"critical"}) = Cardinality(two) + 1
      BY <2>2, <2>3, FS_AddElement
    <2> QED BY <2>2, <2>3, <2>4
  <1>5. DOMAIN options = 1..Len(options)
    BY <1>1
  <1> HIDE DEF options
  <1>6. \A outcome : Cardinality(Of(outcome)) = 1 <=> \E j \in DOMAIN options : Of(outcome) = {j}
    <2> SUFFICES ASSUME NEW outcome
                 PROVE  Cardinality(Of(outcome)) = 1 <=> \E j \in DOMAIN options : Of(outcome) = {j}
      OBVIOUS
    <2>1. IsFiniteSet(DOMAIN options)
      BY <1>1, <1>5, FS_Interval
    <2>2. IsFiniteSet(Of(outcome))
      BY <2>1, FS_Subset
    <2>3. ASSUME Cardinality(Of(outcome)) = 1
          PROVE  \E j \in DOMAIN options : Of(outcome) = {j}
      <3>1. \E j : Of(outcome) = {j}
        BY <2>2, <2>3, FS_Singleton
      <3> QED BY <3>1
    <2>4. ASSUME NEW j \in DOMAIN options, Of(outcome) = {j}
          PROVE  Cardinality(Of(outcome)) = 1
      BY <2>4, FS_Singleton
    <2> QED BY <2>3, <2>4
  <1>7. ASSUME OptionGrid(i)
        PROVE  ~OptionsAreWrong(i)
    <2>1. \A o \in Range(options) : Sound(o)
      BY <1>7, <1>3 DEF Sound
    <2>2. DOMAIN options = 1..3
      BY <1>7, <1>3, <1>4, <1>5
    <2>3. \A outcome \in Outcome : \E j \in 1..3 : options[j].outcome = outcome
      BY <1>7, <1>3, <2>2 DEF Range
    <2>4. \A j \in 1..3 : options[j].outcome \in Outcome
      BY <1>7, <1>3, <2>2 DEF Range
    <2>5. \A j, k \in 1..3 : options[j].outcome = options[k].outcome => j = k
      <3> DEFINE x == options[1].outcome
                 y == options[2].outcome
                 z == options[3].outcome
      <3>1. \A outcome \in Outcome : x = outcome \/ y = outcome \/ z = outcome
        BY <2>3
      <3>2. x \in Outcome /\ y \in Outcome /\ z \in Outcome
        BY <2>4
      <3>3. x # y /\ y # z /\ x # z
        <4> HIDE DEF x, y, z
        <4> QED BY <3>1, <3>2 DEF Outcome
      <3> QED BY <3>3
    <2>6. \A outcome \in Outcome : Cardinality(Of(outcome)) = 1
      <3> SUFFICES ASSUME NEW outcome \in Outcome PROVE Cardinality(Of(outcome)) = 1
        OBVIOUS
      <3>1. PICK j \in 1..3 : options[j].outcome = outcome
        BY <2>3
      <3>2. Of(outcome) = {j}
        BY <2>2, <2>5, <3>1
      <3> QED BY <2>2, <3>2, <1>6
    <2> QED BY <1>7, <1>2, <1>3, <2>1, <2>6
  <1>8. ASSUME ~OptionsAreWrong(i)
        PROVE  OptionGrid(i)
    <2>1. \A o \in Range(options) : Sound(o)
      BY <1>8, <1>2
    <2>2. \A outcome \in Outcome : \E o \in Range(options) : o.outcome = outcome
      <3> SUFFICES ASSUME NEW outcome \in Outcome
                   PROVE  \E o \in Range(options) : o.outcome = outcome
        OBVIOUS
      <3>1. PICK j \in DOMAIN options : Of(outcome) = {j}
        BY <1>8, <1>2, <1>6
      <3>2. options[j].outcome = outcome
        BY <3>1
      <3> QED BY <3>2 DEF Range
    <2>3. {o.outcome : o \in Range(options)} = Outcome
      BY <2>1, <2>2 DEF Sound
    <2> QED BY <1>8, <1>2, <1>3, <2>1, <2>3 DEF Sound
  <1> QED BY <1>7, <1>8

LEMMA NoMetaIssues ==
  MetaIssues = {} <=>
    /\ file.header
    /\ ~(\/ Cardinality({i \in Steps : IsDialog(i)}) < MinDialogSteps
         \/ Cardinality({i \in Steps : IsDialog(i)}) > MaxDialogSteps)
    /\ {i \in Steps : IsEnd(i)} # {}
    /\ Cardinality({i \in Steps : IsStart(i)}) = 1
  <1> DEFINE dialogs == Cardinality({i \in Steps : IsDialog(i)})
             H == Is("header", ~file.header)
             D == Is("dialogs", dialogs < MinDialogSteps \/ dialogs > MaxDialogSteps)
             T == Is("terminals", {i \in Steps : IsEnd(i)} = {})
             S == Is("starts", Cardinality({i \in Steps : IsStart(i)}) # 1)
  <1>1. \A rule : With(rule, {0}) # {}
    BY WithNone
  <1>2. MetaIssues = UNION {H, D, T, S}
    BY DEF MetaIssues
  <1>3. /\ H = {} <=> file.header
        /\ D = {} <=> ~(dialogs < MinDialogSteps \/ dialogs > MaxDialogSteps)
        /\ T = {} <=> {i \in Steps : IsEnd(i)} # {}
        /\ S = {} <=> Cardinality({i \in Steps : IsStart(i)}) = 1
    BY <1>1 DEF Is
  <1>4. MetaIssues = {} <=> H = {} /\ D = {} /\ T = {} /\ S = {}
    <2> HIDE DEF H, D, T, S
    <2> QED BY <1>2
  <1> QED BY <1>3, <1>4

LEMMA NoStepIssues ==
  ASSUME file \in Inputs
  PROVE  StepIssues = {} <=>
           /\ \A i, j \in Steps : file.steps[i].code = file.steps[j].code => i = j
           /\ \A i \in Steps :
                /\ file.steps[i].code # None /\ file.steps[i].message
                /\ file.steps[i].signals # {} /\ file.steps[i].signals \subseteq Known
                /\ IsDialog(i) \/ IsEnd(i)
                /\ IsDialog(i) => OptionGrid(i)
  <1> DEFINE code(i) == \/ file.steps[i].code = None
                        \/ \E j \in 1..i - 1 : file.steps[j].code = file.steps[i].code
             type(i) == ~IsDialog(i) /\ ~IsEnd(i)
             message(i) == ~file.steps[i].message
             signals(i) == \/ file.steps[i].signals = {}
                           \/ ~(file.steps[i].signals \subseteq Known)
             wrong(i) == IsDialog(i) /\ OptionsAreWrong(i)
             C == With("code", {i \in Steps : code(i)})
             T == With("type", {i \in Steps : type(i)})
             M == With("message", {i \in Steps : message(i)})
             S == With("signals", {i \in Steps : signals(i)})
             O == With("options", {i \in Steps : wrong(i)})
  <1>1. StepIssues = UNION {C, T, M, S, O}
    BY DEF StepIssues
  <1>2. StepIssues = {} <=> C = {} /\ T = {} /\ M = {} /\ S = {} /\ O = {}
    <2> HIDE DEF C, T, M, S, O
    <2> QED BY <1>1
  <1>3. (\A i \in Steps : ~code(i)) <=>
          /\ \A i, j \in Steps : file.steps[i].code = file.steps[j].code => i = j
          /\ \A i \in Steps : file.steps[i].code # None
    <2>1. Steps = 1..Len(file.steps) /\ Len(file.steps) \in Nat
      BY FileShape
    <2>2. ASSUME \A i \in Steps : ~code(i), NEW i \in Steps, NEW j \in Steps,
                 file.steps[i].code = file.steps[j].code
          PROVE  i = j
      <3>1. ~(j < i)
        BY <2>1, <2>2
      <3>2. ~(i < j)
        BY <2>1, <2>2
      <3> QED BY <2>1, <3>1, <3>2
    <2>3. ASSUME \A i, j \in Steps : file.steps[i].code = file.steps[j].code => i = j,
                 NEW i \in Steps, NEW j \in 1..i - 1
          PROVE  file.steps[j].code # file.steps[i].code
      <3>1. j \in Steps /\ i # j
        BY <2>1
      <3> QED BY <2>3, <3>1
    <2> QED BY <2>2, <2>3
  <1>4. \A i \in Steps : wrong(i) <=> IsDialog(i) /\ ~OptionGrid(i)
    BY GridRule
  <1> HIDE DEF code, wrong
  <1>5. StepIssues = {} <=> /\ \A i \in Steps : ~code(i)
                            /\ \A i \in Steps : ~type(i)
                            /\ \A i \in Steps : ~message(i)
                            /\ \A i \in Steps : ~signals(i)
                            /\ \A i \in Steps : ~wrong(i)
    <2> HIDE DEF type, message, signals
    <2>1. StepIssues = {} <=> /\ {i \in Steps : code(i)} = {}
                              /\ {i \in Steps : type(i)} = {}
                              /\ {i \in Steps : message(i)} = {}
                              /\ {i \in Steps : signals(i)} = {}
                              /\ {i \in Steps : wrong(i)} = {}
      BY <1>2, WithNone
    <2> QED BY <2>1
  <1> QED BY <1>3, <1>4, <1>5

LEMMA NoLinkIssues ==
  ASSUME file \in Inputs, \A i \in Steps : file.steps[i].code # None
  PROVE  LinkIssues = {} <=> \A i \in Steps : \A o \in OptionsOf(i) : HasStep(o.next)
  <1>1. ~HasStep(None)
    BY DEF HasStep
  <1>2. LinkIssues = {} <=>
          {i \in Steps : \E o \in OptionsOf(i) : o.next = None \/ ~HasStep(o.next)} = {}
    BY WithNone DEF LinkIssues
  <1> QED BY <1>1, <1>2

(* No issue of a rule exactly when the rules hold.                         *)
LEMMA RulesRight ==
  ASSUME file \in Inputs
  PROVE  MetaIssues \cup StepIssues \cup LinkIssues = {} <=> RulesHold
  <1> DEFINE dialogs == Cardinality({i \in Steps : IsDialog(i)})
  <1>1. ~(dialogs < MinDialogSteps \/ dialogs > MaxDialogSteps)
          <=> dialogs \in MinDialogSteps..MaxDialogSteps
    <2>1. Steps = 1..Len(file.steps) /\ Len(file.steps) \in Nat
      BY FileShape
    <2>2. IsFiniteSet(Steps)
      BY <2>1, FS_Interval
    <2>3. IsFiniteSet({i \in Steps : IsDialog(i)})
      BY <2>2, FS_Subset
    <2>4. dialogs \in Nat
      BY <2>3, FS_CardinalityType
    <2> HIDE DEF dialogs
    <2> QED BY <2>4, LimitsAssumption
  <1>2. MetaIssues \cup StepIssues \cup LinkIssues = {}
          <=> MetaIssues = {} /\ StepIssues = {} /\ LinkIssues = {}
    OBVIOUS
  <1> QED BY <1>1, <1>2, NoMetaIssues, NoStepIssues, NoLinkIssues, OneStart DEF RulesHold

-----------------------------------------------------------------------------
(* Once the rules have been looked at, the issues are theirs and those of  *)
(* the graph.                                                              *)
RulesInv ==
  pc # "rules" =>
    LET found == MetaIssues \cup StepIssues \cup LinkIssues
    IN  /\ found \subseteq issues
        /\ \A x \in issues \ found : x.rule \in {"unreachable", "endless"}

LEMMA RulesKept ==
  ASSUME file' = file
  PROVE  /\ MetaIssues' = MetaIssues
         /\ StepIssues' = StepIssues
         /\ LinkIssues' = LinkIssues
  <1>1. Steps' = Steps /\ \A c : HasStep(c)' <=> HasStep(c)
    BY FileKept
  <1>2. \A i : /\ IsDialog(i)' <=> IsDialog(i)
               /\ IsEnd(i)' <=> IsEnd(i)
               /\ IsStart(i)' <=> IsStart(i)
               /\ OptionsOf(i)' = OptionsOf(i)
               /\ OptionsAreWrong(i)' <=> OptionsAreWrong(i)
    BY DEF IsDialog, IsEnd, IsStart, OptionsOf, OptionsAreWrong
  <1>3. MetaIssues' = MetaIssues
    BY <1>1, <1>2 DEF MetaIssues
  <1>4. StepIssues' = StepIssues
    <2> DEFINE coded == {i \in Steps : \/ file.steps[i].code = None
                                       \/ \E j \in 1..i - 1 :
                                            file.steps[j].code = file.steps[i].code}
               typed == {i \in Steps : ~IsDialog(i) /\ ~IsEnd(i)}
               said == {i \in Steps : ~file.steps[i].message}
               signed == {i \in Steps : \/ file.steps[i].signals = {}
                                        \/ ~(file.steps[i].signals \subseteq Known)}
               wrong == {i \in Steps : IsDialog(i) /\ OptionsAreWrong(i)}
    <2>1. coded' = coded /\ said' = said /\ signed' = signed
      BY <1>1
    <2>2. typed' = typed /\ wrong' = wrong
      BY <1>1, <1>2
    <2>3. StepIssues = UNION {With("code", coded), With("type", typed), With("message", said),
                              With("signals", signed), With("options", wrong)}
      BY DEF StepIssues
    <2>4. StepIssues' = UNION {With("code", coded'), With("type", typed'), With("message", said'),
                               With("signals", signed'), With("options", wrong')}
      BY DEF StepIssues
    <2> HIDE DEF coded, typed, said, signed, wrong
    <2> QED BY <2>1, <2>2, <2>3, <2>4
  <1>5. LinkIssues' = LinkIssues
    BY <1>1, <1>2 DEF LinkIssues
  <1> QED BY <1>3, <1>4, <1>5

LEMMA RulesStep == Typed /\ RulesInv /\ [Next]_vars => RulesInv'
  <1> SUFFICES ASSUME Typed, RulesInv, [Next]_vars
               PROVE  RulesInv'
    OBVIOUS
  <1> DEFINE found == MetaIssues \cup StepIssues \cup LinkIssues
  <1>1. file' = file
    BY DEF Next, vars, Rules, ReachAgain, ReachNew, Follow, ReachEnd, Unreached, SearchFrom,
           SearchAgain, SearchNew, SearchFinds, SearchFails, Finish
  <1>2. found' = found
    BY <1>1, RulesKept
  <1>3. CASE Rules
    <2>1. issues' = found
      BY <1>3 DEF Rules
    <2> QED BY <1>2, <2>1 DEF RulesInv
  <1>4. CASE /\ pc # "rules"
             /\ issues' = issues
    BY <1>2, <1>4 DEF RulesInv
  <1>5. CASE /\ pc # "rules"
             /\ \/ issues' = issues \cup With("unreachable", {index})
                \/ issues' = issues \cup With("endless", {index})
    <2>1. \A rule : \A x \in With(rule, {index}) : x.rule = rule
      BY DEF With
    <2> HIDE DEF found
    <2>2. found \subseteq issues /\ \A x \in issues \ found : x.rule \in {"unreachable", "endless"}
      BY <1>5 DEF RulesInv, found
    <2>3. found' \subseteq issues' /\ \A x \in issues' \ found' : x.rule \in {"unreachable", "endless"}
      BY <1>2, <1>5, <2>1, <2>2
    <2> QED BY <2>3 DEF RulesInv, found
  <1>6. CASE UNCHANGED vars
    BY <1>2, <1>6 DEF RulesInv, vars
  <1>7. CASE ReachAgain \/ ReachNew \/ Follow \/ ReachEnd \/ SearchFrom \/ SearchAgain
               \/ SearchNew \/ SearchFinds \/ Finish
    BY <1>4, <1>7 DEF ReachAgain, ReachNew, Follow, ReachEnd, SearchFrom, SearchAgain,
                      SearchNew, SearchFinds, Finish
  <1>8. CASE Unreached \/ SearchFails
    BY <1>5, <1>8 DEF Unreached, SearchFails
  <1> QED BY <1>3, <1>6, <1>7, <1>8 DEF Next

(* What the verdict is about: the rules hold, and for the graph neither    *)
(* kind of issue has been found.                                           *)
LEMMA Verdict ==
  ASSUME Typed, GraphInv, RulesInv, pc = "done"
  PROVE  issues = {} <=>
           RulesHold /\ \A i \in Steps : file.steps[i].code \in Reached /\ LeadsToEnd(i)
  <1> DEFINE found == MetaIssues \cup StepIssues \cup LinkIssues
  <1>1. /\ found \subseteq issues
        /\ \A x \in issues \ found : x.rule \in {"unreachable", "endless"}
    BY DEF RulesInv
  <1>2. found = {} <=> RulesHold
    BY RulesRight DEF Typed
  <1>3. RulesHold => HasStep(file.start)
    BY DEF RulesHold, HasStep, IsStart
  <1> HIDE DEF found
  <1>4. ASSUME issues = {}
        PROVE  RulesHold /\ \A i \in Steps : file.steps[i].code \in Reached /\ LeadsToEnd(i)
    BY <1>1, <1>2, <1>3, <1>4, GraphWhenDone
  <1>5. ASSUME RulesHold, \A i \in Steps : file.steps[i].code \in Reached /\ LeadsToEnd(i)
        PROVE  issues = {}
    <2> SUFFICES ASSUME NEW x \in issues PROVE FALSE
      OBVIOUS
    <2>1. x.rule \in {"unreachable", "endless"}
      BY <1>1, <1>2, <1>5
    <2>2. x \in Issue
      BY DEF Typed
    <2>3. x = [rule |-> x.rule, at |-> x.at] /\ x.at \in Nat
      BY <2>2 DEF Issue
    <2>4. x.at \in Steps
      BY <1>3, <1>5, <2>1, <2>3 DEF GraphInv, IssuesSoFar
    <2> QED BY <1>3, <1>5, <2>1, <2>3, <2>4, GraphWhenDone
  <1> QED BY <1>4, <1>5

LEMMA InvHolds == Spec => [](Typed /\ GraphInv /\ RulesInv)
  <1>1. Init => GraphInv /\ RulesInv
    BY DEF Init, GraphInv, RulesInv
  <1> QED BY <1>1, GraphStep, RulesStep, TypedHolds, PTL DEF Spec

(* The verdict is right in both directions, for every set of files: no     *)
(* issue is found exactly when the rules for content hold.                 *)
THEOREM VerdictIsRight == Spec => []VerdictRight
  <1>1. ASSUME Typed, \E i \in Steps : LeadsToEnd(i)
        PROVE  {i \in Steps : IsEnd(i)} # {}
    <2>1. PICK x : EndAt(x)
      BY <1>1 DEF LeadsToEnd
    <2>2. HasStep(x) /\ IsEnd(StepAt(x))
      BY <2>1 DEF EndAt
    <2>3. StepAt(x) \in Steps
      BY <1>1, <2>2, StepAtCode DEF Typed
    <2> QED BY <2>2, <2>3
  <1>2. ASSUME Typed
        PROVE  WellFormed <=>
                 RulesHold /\ \A i \in Steps : file.steps[i].code \in Reached /\ LeadsToEnd(i)
    BY <1>1, <1>2 DEF WellFormed, RulesHold
  <1>3. Typed /\ GraphInv /\ RulesInv => VerdictRight
    BY <1>2, Verdict DEF VerdictRight
  <1> QED BY <1>3, InvHolds, PTL

-----------------------------------------------------------------------------
(* How long the searches take.                                             *)

LEMMA NamedKept == file' = file => Named' = Named /\ Len(file.steps)' = Len(file.steps)
  BY FileKept DEF Named, OptionsOf

LEMMA NextNamed ==
  ASSUME Typed, NEW code \in Codes
  PROVE  Range(NextCodes(code)) \subseteq Named
  <1>1. CASE HasStep(code)
    <2> DEFINE i == StepAt(code)
               options == file.steps[i].options
    <2>1. i \in Steps
      BY <1>1, StepAtCode DEF Typed
    <2> HIDE DEF i
    <2>2. NextCodes(code) = [j \in DOMAIN options |-> options[j].next]
      BY <1>1 DEF NextCodes, i
    <2>3. \A j \in DOMAIN options : options[j] \in OptionsOf(i)
      BY DEF OptionsOf, Range
    <2>4. \A x \in Range(NextCodes(code)) : \E o \in OptionsOf(i) : x = o.next
      BY <2>2, <2>3 DEF Range
    <2> QED BY <2>1, <2>4 DEF Named
  <1>2. CASE ~HasStep(code)
    BY <1>2, RangeOfEmpty DEF NextCodes
  <1> QED BY <1>1, <1>2

LEMMA BoundedStep == Typed /\ GraphInv /\ SearchesBounded /\ [Next]_vars => SearchesBounded'
  <1> SUFFICES ASSUME Typed, GraphInv, SearchesBounded, [Next]_vars
               PROVE  SearchesBounded'
    OBVIOUS
  <1>1. /\ visited \subseteq Named /\ Range(queue) \subseteq Named /\ Range(links) \subseteq Named
        /\ index <= Len(file.steps) + 1
        /\ queue \in Seq(Codes) /\ links \in Seq(Codes) /\ index \in Nat \ {0}
        /\ Len(file.steps) \in Nat /\ Steps = 1..Len(file.steps)
    BY FileShape DEF SearchesBounded, Waiting, Typed
  <1>2. file' = file
    BY DEF Next, vars, Rules, ReachAgain, ReachNew, Follow, ReachEnd, Unreached, SearchFrom,
       SearchAgain, SearchNew, SearchFinds, SearchFails, Finish
  <1>3. SUFFICES /\ visited' \subseteq Named /\ Range(queue') \subseteq Named
                 /\ Range(links') \subseteq Named /\ index' <= Len(file.steps) + 1
    BY <1>2, NamedKept DEF SearchesBounded, Waiting
  <1>h. /\ queue # <<>> => /\ Head(queue) \in Codes /\ Head(queue) \in Named
                           /\ Range(Tail(queue)) \subseteq Named /\ Tail(queue) \in Seq(Codes)
        /\ links # <<>> => /\ Head(links) \in Codes /\ Head(links) \in Named
                           /\ Range(Tail(links)) \subseteq Named
    BY <1>1, RangeOfTail
  <1>4. CASE Rules
    <2>1. Range(<<file.start>>) = {file.start} /\ file.start \in Named
      BY FileShape, RangeOfOne DEF Named, Typed
    <2> QED BY <1>1, <1>4, <2>1 DEF Rules
  <1>5. CASE ReachAgain \/ SearchAgain
    BY <1>1, <1>5, <1>h DEF ReachAgain, SearchAgain
  <1>6. CASE ReachNew
    <2>1. Range(NextCodes(Head(queue))) \subseteq Named
      BY <1>6, <1>h, NextNamed DEF ReachNew
    <2> QED BY <1>1, <1>6, <1>h, <2>1 DEF ReachNew
  <1>7. CASE Follow
    <2>1. Range(Append(queue, Head(links))) = Range(queue) \cup {Head(links)}
      BY <1>1, <1>7, <1>h, RangeOfAppend DEF Follow
    <2> QED BY <1>1, <1>7, <1>h, <2>1 DEF Follow
  <1>8. CASE ReachEnd \/ Finish \/ UNCHANGED vars
    BY <1>1, <1>8 DEF ReachEnd, Finish, vars
  <1>9. CASE Unreached \/ SearchFails \/ SearchFinds
    <2>1. index \in Steps
      BY <1>9 DEF Unreached, SearchFails, SearchFinds, GraphInv, SearchInv
    <2>2. index' = index + 1 /\ visited' = visited /\ links' = links
          /\ (queue' = queue \/ queue' = <<>>)
      BY <1>9 DEF Unreached, SearchFails, SearchFinds
    <2> QED BY <1>1, <2>1, <2>2, RangeOfEmpty
  <1>10. CASE SearchFrom
    <2>1. /\ index \in Steps /\ queue' = <<file.steps[index].code>> /\ visited' = {}
          /\ UNCHANGED <<links, index>>
      BY <1>10 DEF SearchFrom
    <2>2. Range(<<file.steps[index].code>>) = {file.steps[index].code}
      BY <2>1, CodeOfStep, RangeOfOne DEF Typed
    <2>3. file.steps[index].code \in Named
      BY <2>1 DEF Named
    <2> QED BY <1>1, <2>1, <2>2, <2>3
  <1>11. CASE SearchNew
    <2> DEFINE next == NextCodes(Head(queue))
    <2>1. /\ visited' = visited \cup {Head(queue)} /\ queue # <<>>
          /\ queue' = Tail(queue) \o next /\ UNCHANGED <<links, index>>
      BY <1>11 DEF SearchNew
    <2>2. next \in Seq(Codes) /\ Range(next) \subseteq Named
      BY <1>h, <2>1, NextCodesShape, NextNamed DEF Typed
    <2> HIDE DEF next
    <2>3. Range(queue') = Range(Tail(queue)) \cup Range(next)
      BY <1>h, <2>1, <2>2, RangeOfConcat
    <2> QED BY <1>1, <1>h, <2>1, <2>2, <2>3
  <1> QED BY <1>4, <1>5, <1>6, <1>7, <1>8, <1>9, <1>10, <1>11 DEF Next

LEMMA BoundedHolds == Spec => [](Typed /\ GraphInv /\ SearchesBounded)
  <1>1. Init => SearchesBounded
    <2> SUFFICES ASSUME Init
                 PROVE  Waiting \subseteq Named /\ index <= Len(file.steps) + 1
      BY DEF SearchesBounded
    <2>1. Waiting = {} /\ index = 1
      BY RangeOfEmpty DEF Init, Waiting
    <2> QED BY <2>1, FileShape DEF Init
  <1> QED BY <1>1, BoundedStep, InvHolds, PTL DEF Spec

(* The searches of validateGraph stay within the codes of the file, also   *)
(* in files whose links lead nowhere.                                      *)
THEOREM SearchesBoundedHolds == Spec => []SearchesBounded
  BY BoundedHolds, PTL

(* No iteration of validateGraph comes back to where it was: it gets to    *)
(* the next step, visits a new code or shortens its queue, for every file. *)
THEOREM IterationsAdvanceHolds == Spec => IterationsAdvance
  <1>1. ASSUME Typed, GraphInv, Next
        PROVE  Advances
    <2>1. queue \in Seq(Codes) /\ links \in Seq(Codes)
      BY <1>1 DEF Typed
    <2>2. ASSUME NEW q \in Seq(Codes), q # <<>>
          PROVE  Len(Tail(q)) < Len(q)
      BY <2>2
    <2>3. CASE Rules \/ ReachEnd \/ Finish
      BY <2>3 DEF Rules, ReachEnd, Finish, Advances
    <2>4. CASE ReachNew \/ SearchNew
      BY <2>4 DEF ReachNew, SearchNew, Advances
    <2>5. CASE ReachAgain \/ SearchAgain
      BY <2>1, <2>2, <2>5 DEF ReachAgain, SearchAgain, Advances
    <2>6. CASE Follow
      <3>1. /\ pc' = pc /\ index' = index /\ visited' = visited /\ links # <<>>
            /\ links' = Tail(links) /\ (queue' = Append(queue, Head(links)) \/ queue' = queue)
        BY <2>6 DEF Follow
      <3>2. Len(queue') <= Len(queue) + 1
        <4>1. Head(links) \in Codes
          BY <2>1, <3>1, RangeOfTail
        <4>2. Len(Append(queue, Head(links))) = Len(queue) + 1
          BY <2>1, <4>1
        <4> QED BY <2>1, <3>1, <4>2
      <3>3. Len(links') < Len(links)
        BY <2>1, <2>2, <3>1
      <3> QED BY <3>1, <3>2, <3>3 DEF Advances
    <2>7. CASE Unreached \/ SearchFinds \/ SearchFails
      BY <2>7 DEF Unreached, SearchFinds, SearchFails, Advances
    <2>8. CASE SearchFrom
      BY <2>8 DEF SearchFrom, Advances
    <2> QED BY <1>1, <2>3, <2>4, <2>5, <2>6, <2>7, <2>8 DEF Next
  <1>2. Typed /\ GraphInv /\ [Next]_vars => [Advances]_vars
    BY <1>1
  <1> QED BY <1>2, BoundedHolds, PTL DEF Spec, IterationsAdvance

-----------------------------------------------------------------------------
(* What training relies on.                                                *)

LEMMA StepOfCode ==
  ASSUME file \in Inputs, RulesHold, NEW i \in Steps
  PROVE  StepAt(file.steps[i].code) = i
  BY CodeOfStep, StepAtCode DEF RulesHold

(* The options of a dialog step, seen by outcome: one for each.            *)
LEMMA OptionFor ==
  ASSUME file \in Inputs, RulesHold, NEW i \in Steps, IsDialog(i)
  PROVE  /\ file.steps[i].code \in Played.dialog
         /\ Played.next[file.steps[i].code] \in [Outcome -> Step]
         /\ \A outcome \in Outcome : HasStep(Played.next[file.steps[i].code][outcome])
         /\ Range(Played.next[file.steps[i].code]) = Successors[file.steps[i].code]
  <1> DEFINE code == file.steps[i].code
             options == file.steps[i].options
             Chosen(outcome) == CHOOSE o \in Range(options) : o.outcome = outcome
  <1>1. code \in Played.dialog
    BY DEF Played
  <1>2. options \in Seq(OptionRow) /\ OptionsOf(i) = Range(options) /\ code \in Codes
    BY FileShape DEF StepRow, OptionsOf
  <1>3. StepAt(code) = i /\ HasStep(code)
    BY StepOfCode, CodeOfStep
  <1>4. Played.next[code] = [outcome \in Outcome |-> Chosen(outcome).next]
    BY <1>1, <1>2, <1>3 DEF Played
  <1>5. ~OptionsAreWrong(i)
    BY GridRule DEF RulesHold
  <1>6. /\ \A o \in Range(options) : o.outcome \in Outcome
        /\ \A outcome \in Outcome :
             Cardinality({j \in DOMAIN options : options[j].outcome = outcome}) = 1
    BY <1>2, <1>5 DEF OptionsAreWrong, Sound
  <1>7. NextCodes(code) = [j \in DOMAIN options |-> options[j].next]
    BY <1>3 DEF NextCodes
  <1>8. \A o \in Range(options) : HasStep(o.next)
    BY <1>2 DEF RulesHold
  <1>9. Successors[code] = Range(NextCodes(code))
    BY <1>2, SuccessorsShape
  <1>10. \A c : HasStep(c) => c \in Step
    BY FileShape DEF HasStep, RulesHold, StepRow, Codes
  <1>11. DOMAIN options = 1..Len(options) /\ Len(options) \in Nat
    BY <1>2
  <1> HIDE DEF code, options
  (* Two options of one outcome are the same option.                       *)
  <1>12. ASSUME NEW outcome \in Outcome
         PROVE  \E j \in DOMAIN options :
                  {k \in DOMAIN options : options[k].outcome = outcome} = {j}
    <2> DEFINE Of == {k \in DOMAIN options : options[k].outcome = outcome}
    <2>1. IsFiniteSet(DOMAIN options) /\ Cardinality(Of) = 1
      BY <1>6, <1>11, FS_Interval
    <2>2. IsFiniteSet(Of)
      BY <2>1, FS_Subset
    <2>3. \E j : Of = {j}
      BY <2>1, <2>2, FS_Singleton
    <2> QED BY <2>3
  <1>13. \A outcome \in Outcome : \A j \in DOMAIN options :
           options[j].outcome = outcome => Chosen(outcome) = options[j]
    <2> SUFFICES ASSUME NEW outcome \in Outcome, NEW j \in DOMAIN options,
                        options[j].outcome = outcome
                 PROVE  Chosen(outcome) = options[j]
      OBVIOUS
    <2>1. options[j] \in Range(options)
      BY DEF Range
    <2>2. Chosen(outcome) \in Range(options) /\ Chosen(outcome).outcome = outcome
      BY <2>1
    <2>3. PICK k \in DOMAIN options : Chosen(outcome) = options[k]
      BY <2>2 DEF Range
    <2>4. PICK m \in DOMAIN options :
             {x \in DOMAIN options : options[x].outcome = outcome} = {m}
      BY <1>12
    <2>5. j = m /\ k = m
      BY <2>2, <2>3, <2>4
    <2> QED BY <2>3, <2>5
  <1>14. \A outcome \in Outcome : Chosen(outcome) \in Range(options)
    BY <1>12 DEF Range
  <1> HIDE DEF Chosen
  <1>15. Range(Played.next[code]) = {Chosen(outcome).next : outcome \in Outcome}
    BY <1>4 DEF Range
  <1>16. Range(NextCodes(code)) = {o.next : o \in Range(options)}
    BY <1>7 DEF Range
  <1>17. {Chosen(outcome).next : outcome \in Outcome} = {o.next : o \in Range(options)}
    <2>1. ASSUME NEW o \in Range(options)
          PROVE  \E outcome \in Outcome : Chosen(outcome) = o
      <3>1. PICK j \in DOMAIN options : o = options[j]
        BY DEF Range
      <3> QED BY <3>1, <2>1, <1>6, <1>13
    <2> QED BY <2>1, <1>14
  <1>18. \A outcome \in Outcome : HasStep(Chosen(outcome).next)
    BY <1>8, <1>14
  <1>19. Played.next[code] \in [Outcome -> Step]
    BY <1>4, <1>10, <1>18
  <1>20. \A outcome \in Outcome : HasStep(Played.next[code][outcome])
    BY <1>4, <1>18
  <1> QED BY <1>1, <1>9, <1>15, <1>16, <1>17, <1>19, <1>20 DEF code


(* Wherever the options that a person is offered lead there is a step, and *)
(* all of its options are offered unless it is terminal.                   *)
LEMMA OfferedWithin ==
  ASSUME file \in Inputs, RulesHold, NEW code \in Codes
  PROVE  /\ Offered[code] \subseteq Successors[code]
         /\ \A d \in Offered[code] : d \in Codes /\ HasStep(d)
         /\ HasStep(code) /\ ~EndAt(code) => Offered[code] = Successors[code]
  <1>1. CASE code \in Played.dialog
    <2>1. PICK i \in Steps : IsDialog(i) /\ code = file.steps[i].code
      BY <1>1 DEF Played
    <2>2. /\ \A outcome \in Outcome : HasStep(Played.next[code][outcome])
          /\ Range(Played.next[code]) = Successors[code]
      BY <2>1, OptionFor
    <2>3. Offered[code] = Successors[code]
      BY <1>1, <2>2 DEF Offered
    <2>4. DOMAIN Played.next[code] = Outcome
      BY <1>1 DEF Played
    <2>5. \A d \in Range(Played.next[code]) : HasStep(d)
      BY <2>2, <2>4 DEF Range
    <2> QED BY <2>2, <2>3, <2>5, SuccessorsShape
  <1>2. CASE code \notin Played.dialog
    <2>1. Offered[code] = {}
      BY <1>2 DEF Offered
    <2>2. HasStep(code) => EndAt(code)
      <3> HAVE HasStep(code)
      <3>1. StepAt(code) \in Steps /\ file.steps[StepAt(code)].code = code
        BY StepAtCode
      <3>2. ~IsDialog(StepAt(code))
        BY <1>2, <3>1 DEF Played
      <3> QED BY <3>1, <3>2 DEF RulesHold, EndAt
    <2> QED BY <2>1, <2>2
  <1> QED BY <1>1, <1>2

LEMMA PlayedIsScenario ==
  ASSUME file \in Inputs, RulesHold, IsDialog(StepAt(file.start))
  PROVE  IsScenario(Played)
  <1>1. \A code \in Played.dialog :
          /\ code \in Step
          /\ Played.next[code] \in [Outcome -> Step]
    <2> SUFFICES ASSUME NEW code \in Played.dialog
                 PROVE  code \in Step /\ Played.next[code] \in [Outcome -> Step]
      OBVIOUS
    <2>1. PICK i \in Steps : IsDialog(i) /\ code = file.steps[i].code
      BY DEF Played
    <2>2. code \in Step
      BY <2>1, CodeOfStep DEF RulesHold, Codes
    <2>3. Played.next[code] \in [Outcome -> Step]
      BY <2>1, OptionFor
    <2> QED BY <2>2, <2>3
  <1>2. /\ DOMAIN Played = {"start", "dialog", "next"} /\ Played.start = file.start
        /\ Played.next = [code \in Played.dialog |-> Played.next[code]]
    BY DEF Played
  <1>3. file.start \in Played.dialog
    <2>1. HasStep(file.start)
      BY DEF RulesHold, HasStep, IsStart
    <2>2. StepAt(file.start) \in Steps /\ file.steps[StepAt(file.start)].code = file.start
      BY <2>1, StepAtCode
    <2> QED BY <2>2 DEF Played
  <1> QED BY <1>1, <1>2, <1>3 DEF IsScenario

(* What the validator accepts can be played, for every set of files: the   *)
(* engine finds a step wherever the options lead, and wherever a person    *)
(* stands some choices end the attempt.                                    *)
THEOREM AcceptedIsPlayableHolds == Spec => []AcceptedIsPlayable
  <1>1. ASSUME Typed, GraphInv, RulesInv, Accepted, IsDialog(StepAt(file.start)),
               NEW code \in ReachableBy(file.start, Offered)
        PROVE  HasStep(code) /\ \E x \in ReachableBy(code, Offered) : EndAt(x)
    <2>1. file \in Inputs /\ RulesHold /\ \A i \in Steps : LeadsToEnd(i)
      BY <1>1, Verdict DEF Accepted, Typed
    <2>2. file.start \in Codes /\ HasStep(file.start)
      BY <2>1, FileShape DEF RulesHold, HasStep, IsStart
    <2> DEFINE there == {c \in Codes : HasStep(c)}
    <2>3. Closed(there, Offered)
      BY <2>1, OfferedWithin DEF Closed
    <2>4. code \in there
      BY <2>2, <2>3, ReachableLeast
    <2> DEFINE onward == ReachableBy(code, Offered)
    <2>5. onward \subseteq there
      BY <2>3, <2>4, ReachableLeast
    <2>6. ASSUME \A x \in onward : ~EndAt(x)
          PROVE  FALSE
      <3>1. Closed(onward, Successors)
        <4> SUFFICES ASSUME NEW c \in onward, NEW d \in Successors[c] PROVE d \in onward
          BY DEF Closed
        <4>1. c \in Codes /\ HasStep(c) /\ ~EndAt(c)
          BY <2>5, <2>6
        <4>2. d \in Offered[c] /\ d \in Codes
          BY <2>1, <4>1, OfferedWithin
        <4> QED BY <4>2, ReachableNext
      <3>2. ReachableBy(code, Successors) \subseteq onward
        BY <2>4, <2>5, <3>1, ReachableItself, ReachableLeast
      <3>3. PICK i \in Steps : file.steps[i].code = code
        BY <2>4 DEF HasStep
      <3>4. \E x \in ReachableBy(code, Successors) : EndAt(x)
        BY <2>1, <3>3 DEF LeadsToEnd
      <3> QED BY <2>6, <3>2, <3>4
    <2> QED BY <2>4, <2>6
  <1>2. ASSUME Typed, GraphInv, RulesInv, Accepted, IsDialog(StepAt(file.start))
        PROVE  IsScenario(Played)
    BY <1>2, Verdict, PlayedIsScenario DEF Accepted, Typed
  <1>3. Typed /\ GraphInv /\ RulesInv => AcceptedIsPlayable
    BY <1>1, <1>2 DEF AcceptedIsPlayable
  <1> QED BY <1>3, InvHolds, PTL

=============================================================================
