--------------------------- MODULE AttemptProofs ---------------------------
(***************************************************************************)
(* Proofs about Attempt, for every set of owners, sessions and scenarios:  *)
(* the tables are well typed, IInv is inductive, and completed attempts    *)
(* are final.                                                              *)
(***************************************************************************)
EXTENDS Attempt, FiniteSetTheorems, TLAPS

-----------------------------------------------------------------------------
(* A scenario version of the content.                                      *)
LEMMA ContentIsScenario ==
  ASSUME NEW c \in Code, NEW v \in Version(c)
  PROVE  /\ Content[c][v].start \in Content[c][v].dialog
         /\ Content[c][v].dialog \subseteq Step
         /\ \A st \in Content[c][v].dialog, o \in Outcome :
              Content[c][v].next[st][o] \in Step
  BY ContentAssumption DEF Version, IsScenario

(* The version a session is pinned to is one of the content, and its step  *)
(* can be answered while the session is not completed.                     *)
LEMMA PinnedScenario ==
  ASSUME TypeOK, NEW s \in DOMAIN sessions
  PROVE  /\ sessions[s].code \in Code
         /\ sessions[s].version \in Version(sessions[s].code)
         /\ ScenarioOf(s).dialog \subseteq Step
         /\ \A st \in ScenarioOf(s).dialog, o \in Outcome :
              ResolveNext(ScenarioOf(s), st, o) \in Step
  <1>1. /\ sessions[s].code \in Code
        /\ sessions[s].version \in Version(sessions[s].code)
    BY DEF TypeOK, SessionRow
  <1> QED BY <1>1, ContentIsScenario DEF ScenarioOf, ResolveNext

(* What the UPDATE of SaveAnswer makes of a row.                           *)
LEMMA AdvancedRow ==
  ASSUME NEW row \in SessionRow, NEW option \in Outcome, NEW next \in Step,
         NEW finished \in BOOLEAN
  PROVE  LET new == Advanced(row, option, next, finished)
         IN  /\ new \in SessionRow
             /\ new.owner = row.owner /\ new.code = row.code
             /\ new.version = row.version
             /\ new.score = row.score + Weights[option]
             /\ new.step = IF finished THEN None ELSE next
             /\ new.status = IF finished THEN "completed" ELSE row.status
  <1> DEFINE score == row.score + Weights[option]
             step == IF finished THEN None ELSE next
             status == IF finished THEN "completed" ELSE row.status
             new == [row EXCEPT !.score = score, !.step = step, !.status = status]
  <1>1. Weights[option] \in Int
    BY DEF Weights, Outcome
  <1>2. row.score \in Int /\ row.status \in Status
    BY DEF SessionRow
  <1>3. score \in Int /\ step \in Step \cup {None} /\ status \in Status
    BY <1>1, <1>2 DEF Status
  <1>4. Advanced(row, option, next, finished) = new
    BY DEF Advanced
  <1>5. /\ new \in SessionRow
        /\ new.owner = row.owner /\ new.code = row.code
        /\ new.version = row.version
        /\ new.score = score /\ new.step = step /\ new.status = status
    <2> HIDE DEF score, step, status
    <2> QED BY <1>3 DEF SessionRow
  <1> QED BY <1>4, <1>5

-----------------------------------------------------------------------------
(* Type correctness, with the fact that makes it inductive.                *)
LEMMA TypeInit == InitTables => TypeOK /\ Standing
  BY ContentAssumption DEF InitTables, TypeOK, Standing, Version

LEMMA TypeStart ==
  ASSUME TypeOK, Standing, NEW s \in SessionId, NEW o \in Owner, NEW c \in Code,
         NEW v \in Version(c), Start(s, o, c, v)
  PROVE  TypeOK' /\ Standing'
  <1> DEFINE row == [owner |-> o, code |-> c, version |-> v, status |-> "in_progress",
                     step |-> Content[c][v].start, score |-> 0]
  <1>1. /\ DOMAIN sessions' = DOMAIN sessions \cup {s}
        /\ sessions'[s] = row
        /\ \A t \in DOMAIN sessions : sessions'[t] = sessions[t]
    BY DEF Start, InsertSession
  <1>2. row \in SessionRow
    BY ContentIsScenario, ContentAssumption DEF SessionRow, Status, Version
  <1>3. TypeOK'
    BY <1>1, <1>2 DEF TypeOK, Start
  <1>4. Standing'
    BY <1>1, ContentIsScenario DEF Standing, ScenarioOf
  <1> QED BY <1>3, <1>4

LEMMA TypeAnswer ==
  ASSUME TypeOK, Standing, NEW s \in SessionId, NEW option \in Outcome, Answer(s, option),
         IsFiniteSet(answers)
  PROVE  TypeOK' /\ Standing'
  <1> DEFINE st == sessions[s].step
             next == ResolveNext(ScenarioOf(s), st, option)
             finished == IsTerminal(ScenarioOf(s), next)
             row == sessions'[s]
  <1>1. /\ s \in DOMAIN sessions
        /\ sessions[s] \in SessionRow
        /\ st \in ScenarioOf(s).dialog
    BY DEF Answer, Standing, TypeOK
  <1>2. st \in Step /\ next \in Step
    BY <1>1, PinnedScenario
  <1>3. /\ DOMAIN sessions' = DOMAIN sessions
        /\ \A t \in DOMAIN sessions \ {s} : sessions'[t] = sessions[t]
        /\ row = Advanced(sessions[s], option, next, finished)
    BY <1>1 DEF Answer, ApplyAnswer
  <1>4. finished \in BOOLEAN
    BY DEF IsTerminal
  <1>5. /\ row \in SessionRow
        /\ row.code = sessions[s].code
        /\ row.version = sessions[s].version
        /\ row.status # "completed" => ~finished /\ row.step = next
    <2> HIDE DEF next, finished, row
    <2> QED BY <1>1, <1>2, <1>3, <1>4, AdvancedRow
  <1>6. PathPosition(Cardinality(AnswersOf(s))) \in Nat
    BY FS_Subset, FS_CardinalityType DEF AnswersOf, PathPosition
  <1>7. answers' \subseteq AnswerRow
    BY <1>2, <1>6 DEF Answer, ApplyAnswer, TypeOK, AnswerRow
  <1>8. TypeOK'
    BY <1>3, <1>5, <1>7 DEF TypeOK, Answer
  <1>9. Standing'
    BY <1>3, <1>5 DEF Standing, ScenarioOf, IsTerminal
  <1> QED BY <1>8, <1>9

LEMMA TypeAbandon ==
  ASSUME TypeOK, Standing, NEW s \in SessionId, Abandon(s)
  PROVE  TypeOK' /\ Standing'
  <1>1. /\ DOMAIN sessions' = DOMAIN sessions
        /\ \A t \in DOMAIN sessions \ {s} : sessions'[t] = sessions[t]
        /\ sessions'[s] = [sessions[s] EXCEPT !.status = "abandoned"]
    BY DEF Abandon, UpdateAbandoned
  <1>2. sessions[s] \in SessionRow
    BY DEF TypeOK, Abandon
  <1>3. /\ sessions'[s] \in SessionRow
        /\ sessions'[s].code = sessions[s].code
        /\ sessions'[s].version = sessions[s].version
        /\ sessions'[s].step = sessions[s].step
    BY <1>1, <1>2 DEF SessionRow, Status
  <1> QED BY <1>1, <1>3 DEF TypeOK, Standing, ScenarioOf, Abandon

LEMMA TypeClaim ==
  ASSUME TypeOK, Standing, NEW g \in Guest, NEW u \in User, Claim(g, u)
  PROVE  TypeOK' /\ Standing'
  <1>0. PICK S \in SUBSET SessionsOf(g) : Move(S, u)
    BY DEF Claim
  <1>1. /\ DOMAIN sessions' = DOMAIN sessions
        /\ \A t \in DOMAIN sessions :
             sessions'[t] = IF t \in S THEN [sessions[t] EXCEPT !.owner = u]
                                       ELSE sessions[t]
    BY <1>0 DEF Move, UpdateOwner
  <1>2. ASSUME NEW t \in DOMAIN sessions
        PROVE  /\ sessions'[t] \in SessionRow
               /\ sessions'[t].code = sessions[t].code
               /\ sessions'[t].version = sessions[t].version
               /\ sessions'[t].step = sessions[t].step
               /\ sessions'[t].status = sessions[t].status
    <2>1. sessions[t] \in SessionRow /\ u \in Owner
      BY DEF TypeOK, Owner
    <2> QED BY <1>1, <2>1 DEF SessionRow
  <1> QED BY <1>0, <1>1, <1>2 DEF TypeOK, Standing, ScenarioOf, Move

LEMMA TypePublish ==
  ASSUME TypeOK, Standing, NEW c \in Code, Publish(c)
  PROVE  TypeOK' /\ Standing'
  BY ContentAssumption DEF TypeOK, Standing, Publish, PublishNext, Version, ScenarioOf

-----------------------------------------------------------------------------
(* What each action does to the answers of a session.                      *)
FreshAnswer(s, option) ==
  [sid |-> s, step |-> sessions[s].step, option |-> option,
   position |-> PathPosition(Cardinality(AnswersOf(s)))]

LEMMA AnswersGrow ==
  ASSUME TypeOK, Stored, NEW s \in SessionId, NEW option \in Outcome, Answer(s, option)
  PROVE  /\ answers' = answers \cup {FreshAnswer(s, option)}
         /\ AnswersOf(s)' = AnswersOf(s) \cup {FreshAnswer(s, option)}
         /\ FreshAnswer(s, option) \notin AnswersOf(s)
         /\ \A t \in DOMAIN sessions \ {s} : AnswersOf(t)' = AnswersOf(t)
         /\ DOMAIN sessions' = DOMAIN sessions
         /\ \A t \in DOMAIN sessions \ {s} : sessions'[t] = sessions[t]
  BY DEF Answer, ApplyAnswer, FreshAnswer, AnswersOf, AnswersTo

LEMMA AnswersKept ==
  ASSUME UNCHANGED answers
  PROVE  \A t : AnswersOf(t)' = AnswersOf(t)
  BY DEF AnswersOf

LEMMA FiniteAnswers ==
  ASSUME Stored, NEW s
  PROVE  /\ IsFiniteSet(AnswersOf(s))
         /\ Cardinality(AnswersOf(s)) \in Nat
         /\ \A o : IsFiniteSet({r \in AnswersOf(s) : r.option = o})
         /\ \A o : CountOf(s, o) \in Nat
  <1>1. IsFiniteSet(AnswersOf(s))
    BY FS_Subset DEF AnswersOf, Stored
  <1>2. ASSUME NEW o
        PROVE  IsFiniteSet({r \in AnswersOf(s) : r.option = o})
    BY <1>1, FS_Subset
  <1> QED BY <1>1, <1>2, FS_CardinalityType DEF CountOf

LEMMA StoredStep ==
  ASSUME TypeOK, Stored, [Next]_tables
  PROVE  Stored'
  <1>1. ASSUME NEW s \in SessionId, NEW option \in Outcome, Answer(s, option)
        PROVE  Stored'
    <2>1. FreshAnswer(s, option).sid = s /\ s \in DOMAIN sessions
      BY <1>1 DEF FreshAnswer, Answer
    <2> QED BY <1>1, <2>1, AnswersGrow, FS_AddElement DEF Stored
  <1>2. ASSUME NEW s \in SessionId, NEW o \in Owner, NEW c \in Code,
               NEW v \in Version(c), Start(s, o, c, v)
        PROVE  Stored'
    BY <1>2 DEF Stored, Start, InsertSession
  <1>3. ASSUME NEW s \in SessionId, Abandon(s)
        PROVE  Stored'
    BY <1>3 DEF Stored, Abandon, UpdateAbandoned
  <1>4. ASSUME NEW g \in Guest, NEW u \in User, Claim(g, u)
        PROVE  Stored'
    BY <1>4 DEF Stored, Claim, Move, UpdateOwner
  <1>5. ASSUME NEW c \in Code, Publish(c)
        PROVE  Stored'
    BY <1>5 DEF Stored, Publish
  <1>6. CASE UNCHANGED tables
    BY <1>6 DEF Stored, tables
  <1> QED BY <1>1, <1>2, <1>3, <1>4, <1>5, <1>6 DEF Next

(* Types, standing and storage are inductive together.                     *)
Base == TypeOK /\ Standing /\ Stored

LEMMA BaseStep ==
  ASSUME Base, [Next]_tables
  PROVE  Base'
  <1> USE DEF Base
  <1>1. Stored'
    BY StoredStep
  <1>2. TypeOK' /\ Standing'
    <2>1. CASE UNCHANGED tables
      BY <2>1 DEF TypeOK, Standing, ScenarioOf, tables
    <2>2. CASE Next
      BY <2>2, TypeStart, TypeAnswer, TypeAbandon, TypeClaim, TypePublish DEF Next, Stored
    <2> QED BY <2>1, <2>2
  <1> QED BY <1>1, <1>2

(* Every reachable state of the tables is well typed.                      *)
THEOREM TypeCorrect == Spec => []TypeOK
  <1>1. InitTables => Base
    BY TypeInit, FS_EmptySet DEF Base, InitTables, Stored
  <1>2. Base /\ [Next]_tables => Base'
    BY BaseStep
  <1>3. Base => TypeOK
    BY DEF Base
  <1> QED BY <1>1, <1>2, <1>3, PTL DEF Spec

-----------------------------------------------------------------------------
(* How an answer changes the row of its session: AdvancedRow at the step   *)
(* the session stands at.                                                  *)
LEMMA AnsweredRow ==
  ASSUME Base, NEW s \in SessionId, NEW option \in Outcome, Answer(s, option)
  PROVE  LET next == ResolveNext(ScenarioOf(s), sessions[s].step, option)
             finished == IsTerminal(ScenarioOf(s), next)
             row == sessions'[s]
         IN  /\ s \in DOMAIN sessions
             /\ sessions[s].step \in ScenarioOf(s).dialog
             /\ next \in Step
             /\ row.owner = sessions[s].owner /\ row.code = sessions[s].code
             /\ row.version = sessions[s].version
             /\ row.score = sessions[s].score + Weights[option]
             /\ row.step = IF finished THEN None ELSE next
             /\ row.status = IF finished THEN "completed" ELSE sessions[s].status
  <1> DEFINE next == ResolveNext(ScenarioOf(s), sessions[s].step, option)
             finished == IsTerminal(ScenarioOf(s), next)
  <1>1. /\ s \in DOMAIN sessions
        /\ sessions[s] \in SessionRow
        /\ sessions[s].step \in ScenarioOf(s).dialog
    BY DEF Answer, Standing, TypeOK, Base
  <1>2. next \in Step
    BY <1>1, PinnedScenario DEF Base
  <1>3. sessions'[s] = Advanced(sessions[s], option, next, finished)
    BY <1>1 DEF Answer, ApplyAnswer
  <1>4. finished \in BOOLEAN
    BY DEF IsTerminal
  <1> HIDE DEF next, finished
  <1> QED BY <1>1, <1>2, <1>3, <1>4, AdvancedRow DEF next, finished

(* Only Start adds an unfinished session and only Claim moves one; both    *)
(* look for a conflict first.                                              *)
LEMMA OneActiveStep ==
  ASSUME Base, OneActive, Next
  PROVE  OneActive'
  <1>1. ASSUME NEW s \in SessionId, NEW o \in Owner, NEW c \in Code,
               NEW v \in Version(c), Start(s, o, c, v)
        PROVE  OneActive'
    BY <1>1 DEF OneActive, ActiveSessions, Start, InsertSession
  <1>2. ASSUME NEW s \in SessionId, NEW option \in Outcome, Answer(s, option)
        PROVE  OneActive'
    <2>1. /\ DOMAIN sessions' = DOMAIN sessions
          /\ \A t \in DOMAIN sessions :
               /\ sessions'[t].owner = sessions[t].owner
               /\ sessions'[t].code = sessions[t].code
               /\ sessions'[t].status = "in_progress" =>
                    sessions[t].status = "in_progress"
      BY <1>2, AnswersGrow, AnsweredRow DEF Base
    <2> QED BY <2>1 DEF OneActive, ActiveSessions
  <1>3. ASSUME NEW s \in SessionId, Abandon(s)
        PROVE  OneActive'
    <2>1. /\ DOMAIN sessions' = DOMAIN sessions
          /\ \A t \in DOMAIN sessions \ {s} : sessions'[t] = sessions[t]
          /\ sessions'[s].status = "abandoned"
      <3>1. sessions[s] \in SessionRow
        BY <1>3 DEF Abandon, Base, TypeOK
      <3> QED BY <1>3, <3>1 DEF Abandon, UpdateAbandoned, SessionRow
    <2> QED BY <2>1 DEF OneActive, ActiveSessions
  <1>4. ASSUME NEW g \in Guest, NEW u \in User, Claim(g, u)
        PROVE  OneActive'
    <2>0. PICK S \in SUBSET SessionsOf(g) : Move(S, u)
      BY <1>4 DEF Claim
    <2>1. /\ DOMAIN sessions' = DOMAIN sessions
          /\ \A t \in DOMAIN sessions :
               /\ sessions'[t].code = sessions[t].code
               /\ sessions'[t].status = sessions[t].status
               /\ sessions'[t].owner = IF t \in S THEN u ELSE sessions[t].owner
      <3>1. \A t \in DOMAIN sessions : sessions[t] \in SessionRow
        BY DEF Base, TypeOK
      <3> QED BY <2>0, <3>1 DEF Move, UpdateOwner, SessionRow
    <2>2. ASSUME NEW o \in Owner, NEW c \in Code, NEW s \in ActiveSessions(o, c)',
                 NEW t \in ActiveSessions(o, c)'
          PROVE  s = t
      <3>1. CASE o # u
        <4>1. s \in ActiveSessions(o, c) /\ t \in ActiveSessions(o, c)
          BY <2>1, <3>1 DEF ActiveSessions
        <4> QED BY <4>1 DEF OneActive
      <3>2. CASE o = u
        <4>1. /\ s \in (S \cap ActiveSessions(g, c)) \cup ActiveSessions(u, c)
              /\ t \in (S \cap ActiveSessions(g, c)) \cup ActiveSessions(u, c)
          BY <2>0, <2>1, <3>2 DEF ActiveSessions, SessionsOf
        <4>2. S \cap ActiveSessions(g, c) = {} \/ ActiveSessions(u, c) = {}
          BY <2>0 DEF Move, ClaimConflict, ActiveSessions
        <4> QED BY <4>1, <4>2 DEF OneActive, Owner
      <3> QED BY <3>1, <3>2
    <2> QED BY <2>2 DEF OneActive
  <1>5. ASSUME NEW c \in Code, Publish(c)
        PROVE  OneActive'
    BY <1>5 DEF OneActive, ActiveSessions, Publish
  <1> QED BY <1>1, <1>2, <1>3, <1>4, <1>5 DEF Next

-----------------------------------------------------------------------------
(* The steps other than Answer leave what the path and the score of an     *)
(* existing session depend on alone; a new session has neither.            *)
OtherStep ==
  \/ \E s \in SessionId, o \in Owner, c \in Code :
       \E v \in Version(c) : Start(s, o, c, v)
  \/ \E s \in SessionId : Abandon(s)
  \/ \E g \in Guest, u \in User : Claim(g, u)
  \/ \E c \in Code : Publish(c)

SameWalk(t) ==
  /\ t \in DOMAIN sessions'
  /\ sessions'[t].code = sessions[t].code
  /\ sessions'[t].version = sessions[t].version
  /\ sessions'[t].score = sessions[t].score
  /\ sessions'[t].step = sessions[t].step
  /\ (sessions'[t].status = "completed") <=> (sessions[t].status = "completed")

NewWalk(t) ==
  \E c \in Code : \E v \in Version(c) :
    /\ sessions'[t].code = c /\ sessions'[t].version = v
    /\ sessions'[t].step = Content[c][v].start
    /\ sessions'[t].score = 0
    /\ sessions'[t].status = "in_progress"

LEMMA OtherSteps ==
  ASSUME Base, OtherStep
  PROVE  /\ answers' = answers
         /\ \A t \in DOMAIN sessions : SameWalk(t)
         /\ \A t \in DOMAIN sessions' \ DOMAIN sessions : NewWalk(t)
  <1>1. \A t \in DOMAIN sessions : sessions[t] \in SessionRow
    BY DEF Base, TypeOK
  <1>2. ASSUME NEW s \in SessionId, NEW o \in Owner, NEW c \in Code,
               NEW v \in Version(c), Start(s, o, c, v)
        PROVE  /\ answers' = answers
               /\ \A t \in DOMAIN sessions : SameWalk(t)
               /\ \A t \in DOMAIN sessions' \ DOMAIN sessions : NewWalk(t)
    BY <1>2 DEF Start, InsertSession, SameWalk, NewWalk
  <1>3. ASSUME NEW s \in SessionId, Abandon(s)
        PROVE  /\ answers' = answers
               /\ DOMAIN sessions' = DOMAIN sessions
               /\ \A t \in DOMAIN sessions : SameWalk(t)
    <2>1. /\ answers' = answers
          /\ DOMAIN sessions' = DOMAIN sessions
          /\ \A t \in DOMAIN sessions \ {s} : sessions'[t] = sessions[t]
          /\ s \in DOMAIN sessions /\ sessions[s].status = "in_progress"
          /\ sessions'[s] = [sessions[s] EXCEPT !.status = "abandoned"]
      BY <1>3 DEF Abandon, UpdateAbandoned
    <2>2. SameWalk(s)
      BY <1>1, <2>1 DEF SessionRow, SameWalk
    <2>3. ASSUME NEW t \in DOMAIN sessions \ {s}
          PROVE  SameWalk(t)
      BY <2>1 DEF SameWalk
    <2> QED BY <2>1, <2>2, <2>3
  <1>4. ASSUME NEW g \in Guest, NEW u \in User, Claim(g, u)
        PROVE  /\ answers' = answers
               /\ DOMAIN sessions' = DOMAIN sessions
               /\ \A t \in DOMAIN sessions : SameWalk(t)
    BY <1>1, <1>4 DEF Claim, Move, UpdateOwner, SessionRow, SameWalk
  <1>5. ASSUME NEW c \in Code, Publish(c)
        PROVE  /\ answers' = answers
               /\ sessions' = sessions
               /\ \A t \in DOMAIN sessions : SameWalk(t)
    BY <1>5 DEF Publish, SameWalk
  <1> QED BY <1>2, <1>3, <1>4, <1>5 DEF OtherStep

LEMMA NextSteps ==
  Next <=> \/ OtherStep
           \/ \E s \in SessionId, option \in Outcome : Answer(s, option)
  BY DEF Next, OtherStep

(* A session that does not exist has no answers.                           *)
LEMMA NoAnswers ==
  ASSUME Stored, NEW s, s \notin DOMAIN sessions
  PROVE  AnswersOf(s) = {}
  BY DEF Stored, AnswersOf

-----------------------------------------------------------------------------
(* The score.                                                              *)
LEMMA ScoreKept ==
  ASSUME NEW t, AnswersOf(t)' = AnswersOf(t)
  PROVE  ScoreOf(t)' = ScoreOf(t)
  BY DEF ScoreOf, CountOf

LEMMA ScoreGrows ==
  ASSUME Base, NEW s \in SessionId, NEW option \in Outcome, Answer(s, option)
  PROVE  ScoreOf(s)' = ScoreOf(s) + Weights[option]
  <1>1. ASSUME NEW o
        PROVE  CountOf(s, o)' = IF o = option THEN CountOf(s, o) + 1 ELSE CountOf(s, o)
    <2>1. FreshAnswer(s, option).option = option
      BY DEF FreshAnswer
    <2>2. CASE o = option
      <3> DEFINE Old == {r \in AnswersOf(s) : r.option = o}
                 New == {r \in AnswersOf(s)' : r.option = o}
      <3>1. New = Old \cup {FreshAnswer(s, option)} /\ FreshAnswer(s, option) \notin Old
        BY <2>1, <2>2, AnswersGrow DEF Base
      <3>2. IsFiniteSet(Old) /\ CountOf(s, o) = Cardinality(Old)
        BY FiniteAnswers DEF CountOf, Base
      <3>3. CountOf(s, o)' = Cardinality(New)
        BY DEF CountOf
      <3> HIDE DEF Old, New
      <3> QED BY <2>2, <3>1, <3>2, <3>3, FS_AddElement
    <2>3. CASE o # option
      <3>1. {r \in AnswersOf(s)' : r.option = o} = {r \in AnswersOf(s) : r.option = o}
        BY <2>1, <2>3, AnswersGrow DEF Base
      <3> QED BY <2>3, <3>1 DEF CountOf
    <2> QED BY <2>2, <2>3
  <1>2. \A o : CountOf(s, o) \in Nat
    BY FiniteAnswers DEF Base
  <1> QED BY <1>1, <1>2 DEF ScoreOf, Weights, Outcome

LEMMA ScoreStep ==
  ASSUME Base, ScoreIsSum, Next
  PROVE  ScoreIsSum'
  <1>1. ASSUME NEW s \in SessionId, NEW option \in Outcome, Answer(s, option)
        PROVE  ScoreIsSum'
    <2>1. sessions'[s].score = ScoreOf(s)'
      BY <1>1, AnsweredRow, ScoreGrows DEF ScoreIsSum
    <2>2. ASSUME NEW t \in DOMAIN sessions \ {s}
          PROVE  sessions'[t].score = ScoreOf(t)'
      BY <1>1, AnswersGrow, ScoreKept DEF ScoreIsSum, Base
    <2> QED BY <1>1, <2>1, <2>2, AnswersGrow DEF ScoreIsSum, Base
  <1>2. CASE OtherStep
    <2>1. \A t : AnswersOf(t)' = AnswersOf(t) /\ ScoreOf(t)' = ScoreOf(t)
      BY <1>2, OtherSteps, AnswersKept, ScoreKept
    <2>2. \A t \in DOMAIN sessions : sessions'[t].score = ScoreOf(t)
      BY <1>2, OtherSteps DEF ScoreIsSum, SameWalk
    <2>3. ASSUME NEW t \in DOMAIN sessions' \ DOMAIN sessions
          PROVE  sessions'[t].score = ScoreOf(t)
      <3>1. sessions'[t].score = 0
        BY <1>2, OtherSteps DEF NewWalk
      <3>2. \A o : CountOf(t, o) = 0
        BY NoAnswers, FS_EmptySet DEF CountOf, Base
      <3> QED BY <3>1, <3>2 DEF ScoreOf, Weights
    <2> QED BY <2>1, <2>2, <2>3 DEF ScoreIsSum
  <1> QED BY <1>1, <1>2, NextSteps

-----------------------------------------------------------------------------
(* The path.                                                               *)
LEMMA PathKept ==
  ASSUME NEW t, t \in DOMAIN sessions, SameWalk(t), AnswersOf(t)' = AnswersOf(t), PathOf(t)
  PROVE  PathOf(t)'
  <1>1. ScenarioOf(t)' = ScenarioOf(t)
    BY DEF ScenarioOf, SameWalk
  <1> QED BY <1>1 DEF PathOf, SameWalk

LEMMA PathBegins ==
  ASSUME Base, Base', NEW t \in DOMAIN sessions' \ DOMAIN sessions, NewWalk(t),
         AnswersOf(t)' = AnswersOf(t)
  PROVE  PathOf(t)'
  <1>1. AnswersOf(t)' = {}
    BY NoAnswers DEF Base
  <1>2. Cardinality(AnswersOf(t)') = 0
    BY <1>1, FS_EmptySet
  <1>3. sessions'[t].step = ScenarioOf(t)'.start /\ sessions'[t].step # None
    BY ContentIsScenario, NoneIsNoStep DEF ScenarioOf, NewWalk
  <1> QED BY <1>1, <1>2, <1>3 DEF PathOf, NewWalk

LEMMA PathGrows ==
  ASSUME Base, NEW s \in SessionId, NEW option \in Outcome, Answer(s, option), PathOf(s)
  PROVE  PathOf(s)'
  <1> DEFINE new == FreshAnswer(s, option)
             sc == ScenarioOf(s)
             n == Cardinality(AnswersOf(s))
             step == sessions[s].step
             next == ResolveNext(sc, step, option)
  <1>1. /\ new.step = step /\ new.option = option /\ new.position = n + 1
        /\ new \notin AnswersOf(s)
        /\ AnswersOf(s)' = AnswersOf(s) \cup {new}
    BY AnswersGrow DEF FreshAnswer, PathPosition, Base
  <1>2. n \in Nat /\ Cardinality(AnswersOf(s)') = n + 1
    BY <1>1, FiniteAnswers, FS_AddElement DEF Base
  <1>3. ScenarioOf(s)' = sc
    BY AnsweredRow DEF ScenarioOf
  <1>4. /\ step \in sc.dialog /\ step # None /\ next # None
        /\ sessions'[s].step = IF IsTerminal(sc, next) THEN None ELSE next
        /\ (sessions'[s].status = "completed") <=> IsTerminal(sc, next)
    <2>1. step # None
      BY AnsweredRow, PinnedScenario, NoneIsNoStep DEF Base
    <2>2. sessions[s].status # "completed"
      BY DEF Answer
    <2> QED BY <2>1, <2>2, AnsweredRow, NoneIsNoStep
  <1>5. /\ {r.position : r \in AnswersOf(s)} = 1..n
        /\ n = 0 => step = sc.start
        /\ \A r \in AnswersOf(s) :
             /\ r.step \in sc.dialog
             /\ r.position = 1 => r.step = sc.start
             /\ \A q \in AnswersOf(s) :
                  q.position = r.position + 1 => q.step = ResolveNext(sc, r.step, r.option)
             /\ r.position = n => step = ResolveNext(sc, r.step, r.option)
    BY <1>4 DEF PathOf
  <1>6. \A r \in AnswersOf(s) : r.position \in 1..n
    BY <1>5
  <1> HIDE DEF new, sc, n, step, next
  <1>7. {r.position : r \in AnswersOf(s) \cup {new}} = 1..(n + 1)
    <2>1. {r.position : r \in AnswersOf(s) \cup {new}} = (1..n) \cup {n + 1}
      BY <1>1, <1>5
    <2> QED BY <1>2, <2>1
  <1>8. n = 0 => AnswersOf(s) = {}
    BY <1>6
  <1>9. ASSUME NEW r \in AnswersOf(s) \cup {new}
        PROVE  /\ r.step \in sc.dialog
               /\ r.position = 1 => r.step = sc.start
               /\ \A q \in AnswersOf(s) \cup {new} :
                    q.position = r.position + 1 => q.step = ResolveNext(sc, r.step, r.option)
               /\ r.position = n + 1 => r = new
    BY <1>1, <1>2, <1>4, <1>5, <1>6
  <1>10. ASSUME NEW r \in AnswersOf(s) \cup {new}, r.position = n + 1
         PROVE  sessions'[s].step = LET to == ResolveNext(sc, r.step, r.option)
                                   IN  IF IsTerminal(sc, to) THEN None ELSE to
    BY <1>1, <1>4, <1>9, <1>10 DEF next
  <1>11. (sessions'[s].status = "completed") <=> (sessions'[s].step = None)
    BY <1>4
  <1>12. {r.position : r \in AnswersOf(s)'} = 1..Cardinality(AnswersOf(s)')
    BY <1>1, <1>2, <1>7
  <1>13. Cardinality(AnswersOf(s)') = 0 => sessions'[s].step = ScenarioOf(s)'.start
    BY <1>2
  <1>14. ASSUME NEW r \in AnswersOf(s)'
         PROVE  LET to == ResolveNext(ScenarioOf(s)', r.step, r.option)
                IN  /\ r.step \in ScenarioOf(s)'.dialog
                    /\ r.position = 1 => r.step = ScenarioOf(s)'.start
                    /\ \A q \in AnswersOf(s)' :
                         q.position = r.position + 1 => q.step = to
                    /\ r.position = Cardinality(AnswersOf(s)') =>
                         sessions'[s].step = IF IsTerminal(ScenarioOf(s)', to) THEN None
                                                                              ELSE to
    BY <1>1, <1>2, <1>3, <1>9, <1>10
  <1> QED BY <1>11, <1>12, <1>13, <1>14 DEF PathOf

LEMMA PathStep ==
  ASSUME Base, AnswersFormPath, Next
  PROVE  AnswersFormPath'
  <1>1. ASSUME NEW s \in SessionId, NEW option \in Outcome, Answer(s, option)
        PROVE  AnswersFormPath'
    <2>1. PathOf(s)'
      BY <1>1, PathGrows, AnsweredRow DEF AnswersFormPath
    <2>2. ASSUME NEW t \in DOMAIN sessions \ {s}
          PROVE  PathOf(t)'
      <3>1. SameWalk(t) /\ AnswersOf(t)' = AnswersOf(t)
        BY <1>1, AnswersGrow DEF SameWalk, Base
      <3> QED BY <3>1, PathKept DEF AnswersFormPath
    <2> QED BY <1>1, <2>1, <2>2, AnswersGrow DEF AnswersFormPath, Base
  <1>2. CASE OtherStep
    <2>1. /\ \A t : AnswersOf(t)' = AnswersOf(t)
          /\ \A t \in DOMAIN sessions : SameWalk(t)
          /\ \A t \in DOMAIN sessions' \ DOMAIN sessions : NewWalk(t)
      BY <1>2, OtherSteps, AnswersKept
    <2>2. Base'
      BY <1>2, NextSteps, BaseStep
    <2>3. ASSUME NEW t \in DOMAIN sessions'
          PROVE  PathOf(t)'
      <3>1. CASE t \in DOMAIN sessions
        BY <2>1, <3>1, PathKept DEF AnswersFormPath
      <3>2. CASE t \notin DOMAIN sessions
        BY <2>1, <2>2, <3>2, PathBegins
      <3> QED BY <3>1, <3>2
    <2> QED BY <2>3 DEF AnswersFormPath
  <1> QED BY <1>1, <1>2, NextSteps

-----------------------------------------------------------------------------
(* Together.                                                               *)
LEMMA IInvInit == InitTables => IInv
  <1> SUFFICES ASSUME InitTables
               PROVE  IInv
    OBVIOUS
  <1>1. TypeOK /\ Standing
    BY TypeInit
  <1>2. Stored
    BY FS_EmptySet DEF InitTables, Stored
  <1>3. OneActive /\ ScoreIsSum /\ AnswersFormPath
    BY DEF InitTables, OneActive, ActiveSessions, ScoreIsSum, AnswersFormPath
  <1> QED BY <1>1, <1>2, <1>3 DEF IInv

LEMMA IInvStep == IInv /\ [Next]_tables => IInv'
  <1> SUFFICES ASSUME IInv, [Next]_tables
               PROVE  IInv'
    OBVIOUS
  <1>1. Base'
    BY BaseStep DEF IInv, Base
  <1>2. CASE Next
    <2>1. OneActive' /\ ScoreIsSum' /\ AnswersFormPath'
      BY <1>2, OneActiveStep, ScoreStep, PathStep DEF IInv, Base
    <2> QED BY <1>1, <2>1 DEF IInv, Base
  <1>3. CASE UNCHANGED tables
    <2>1. OneActive'
      BY <1>3 DEF IInv, OneActive, ActiveSessions, tables
    <2>2. \A t : AnswersOf(t)' = AnswersOf(t)
      BY <1>3, AnswersKept DEF tables
    <2>3. ScoreIsSum'
      BY <1>3, <2>2, ScoreKept DEF IInv, ScoreIsSum, tables
    <2>4. AnswersFormPath'
      BY <1>3, <2>2, PathKept DEF IInv, AnswersFormPath, SameWalk, tables
    <2> QED BY <1>1, <2>1, <2>3, <2>4 DEF IInv, Base
  <1> QED BY <1>2, <1>3

(* The invariant of the attempts holds in every reachable state.           *)
THEOREM Invariance == Spec => []IInv
  BY IInvInit, IInvStep, PTL DEF Spec

(* An owner never has two unfinished sessions of one scenario.             *)
THEOREM OneActiveHolds == Spec => []OneActive
  <1>1. IInv => OneActive
    BY DEF IInv
  <1> QED BY <1>1, Invariance, PTL

(* The score of a session is the sum of the weights of its answers.        *)
THEOREM ScoreIsSumHolds == Spec => []ScoreIsSum
  <1>1. IInv => ScoreIsSum
    BY DEF IInv
  <1> QED BY <1>1, Invariance, PTL

(* The answers of a session are a walk in the version it is pinned to, and *)
(* the session stands where the walk ends.                                 *)
THEOREM AnswersFormPathHolds == Spec => []AnswersFormPath
  <1>1. IInv => AnswersFormPath
    BY DEF IInv
  <1> QED BY <1>1, Invariance, PTL

(* A completed attempt never changes but for its owner.                    *)
THEOREM CompletedFrozenHolds == Spec => CompletedFrozen
  <1> DEFINE Frozen == \A s \in DOMAIN sessions :
               sessions[s].status = "completed" =>
                 /\ s \in DOMAIN sessions'
                 /\ [sessions'[s] EXCEPT !.owner = sessions[s].owner] = sessions[s]
                 /\ AnswersOf(s)' = AnswersOf(s)
  <1>1. IInv /\ [Next]_tables => [Frozen]_tables
    <2> SUFFICES ASSUME IInv, Next, NEW s \in DOMAIN sessions,
                        sessions[s].status = "completed"
                 PROVE  /\ s \in DOMAIN sessions'
                        /\ [sessions'[s] EXCEPT !.owner = sessions[s].owner] = sessions[s]
                        /\ AnswersOf(s)' = AnswersOf(s)
      OBVIOUS
    <2>1. sessions[s] \in SessionRow
      BY DEF IInv, TypeOK
    <2>2. [sessions[s] EXCEPT !.owner = sessions[s].owner] = sessions[s]
      BY <2>1 DEF SessionRow
    <2>3. CASE sessions'[s] = sessions[s] /\ s \in DOMAIN sessions' /\ AnswersOf(s)' = AnswersOf(s)
      BY <2>2, <2>3
    <2>4. ASSUME NEW t \in SessionId, NEW option \in Outcome, Answer(t, option)
          PROVE  sessions'[s] = sessions[s] /\ s \in DOMAIN sessions' /\ AnswersOf(s)' = AnswersOf(s)
      <3>1. s # t
        BY <2>4 DEF Answer
      <3> QED BY <2>4, <3>1, AnswersGrow DEF IInv
    <2>5. ASSUME NEW t \in SessionId, NEW o \in Owner, NEW c \in Code,
                 NEW v \in Version(c), Start(t, o, c, v)
          PROVE  sessions'[s] = sessions[s] /\ s \in DOMAIN sessions' /\ AnswersOf(s)' = AnswersOf(s)
      BY <2>5 DEF Start, InsertSession, AnswersOf
    <2>6. ASSUME NEW t \in SessionId, Abandon(t)
          PROVE  sessions'[s] = sessions[s] /\ s \in DOMAIN sessions' /\ AnswersOf(s)' = AnswersOf(s)
      BY <2>6 DEF Abandon, UpdateAbandoned, AnswersOf
    <2>7. ASSUME NEW g \in Guest, NEW u \in User, Claim(g, u)
          PROVE  /\ s \in DOMAIN sessions'
                 /\ [sessions'[s] EXCEPT !.owner = sessions[s].owner] = sessions[s]
                 /\ AnswersOf(s)' = AnswersOf(s)
      <3>0. PICK S \in SUBSET SessionsOf(g) : Move(S, u)
        BY <2>7 DEF Claim
      <3>1. CASE s \in S
        <4>1. sessions'[s] = [sessions[s] EXCEPT !.owner = u] /\ s \in DOMAIN sessions'
          BY <3>0, <3>1 DEF Move, UpdateOwner
        <4>2. [[sessions[s] EXCEPT !.owner = u] EXCEPT !.owner = sessions[s].owner] = sessions[s]
          BY <2>1 DEF SessionRow
        <4> QED BY <3>0, <4>1, <4>2 DEF Move, AnswersOf
      <3>2. CASE s \notin S
        BY <2>2, <3>0, <3>2 DEF Move, UpdateOwner, AnswersOf
      <3> QED BY <3>1, <3>2
    <2>8. ASSUME NEW c \in Code, Publish(c)
          PROVE  sessions'[s] = sessions[s] /\ s \in DOMAIN sessions' /\ AnswersOf(s)' = AnswersOf(s)
      BY <2>8 DEF Publish, AnswersOf
    <2> QED BY <2>3, <2>4, <2>5, <2>6, <2>7, <2>8 DEF Next
  <1> QED BY <1>1, Invariance, PTL DEF Spec, CompletedFrozen

-----------------------------------------------------------------------------
(* Without a way back no walk meets a step again.                          *)

(* From an answered step on, the steps of the rest of the walk up to where *)
(* an unfinished session stands all have an option that stays among them,  *)
(* if the session stands at the answered step.                             *)
LEMMA BackAtAnswered ==
  ASSUME Base, NEW s \in DOMAIN sessions, PathOf(s), sessions[s].status # "completed",
         NEW r0 \in AnswersOf(s), r0.step = sessions[s].step
  PROVE  ~NoWayBack(ScenarioOf(s))
  <1> DEFINE sc == ScenarioOf(s)
             n == Cardinality(AnswersOf(s))
             X == {r.step : r \in {q \in AnswersOf(s) : q.position >= r0.position}}
  <1>1. /\ n \in Nat
        /\ {r.position : r \in AnswersOf(s)} = 1..n
        /\ \A r \in AnswersOf(s) : r.option \in Outcome /\ r.position \in 1..n
    <2>1. {r.position : r \in AnswersOf(s)} = 1..n
      BY DEF PathOf
    <2> QED BY <2>1, FiniteAnswers DEF Base, TypeOK, AnswerRow, AnswersOf
  <1>2. \A r \in AnswersOf(s) :
          /\ r.step \in sc.dialog
          /\ \A q \in AnswersOf(s) :
               q.position = r.position + 1 => q.step = ResolveNext(sc, r.step, r.option)
          /\ r.position = n => r0.step = ResolveNext(sc, r.step, r.option)
    <2>1. sessions[s].step # None
      BY DEF PathOf
    <2> QED BY <2>1 DEF PathOf
  <1> HIDE DEF sc, n
  <1>3. ASSUME NEW r \in AnswersOf(s), r.position >= r0.position
        PROVE  ResolveNext(sc, r.step, r.option) \in X
    <2>1. CASE r.position = n
      BY <1>1, <1>2, <2>1
    <2>2. CASE r.position # n
      <3>1. r.position + 1 \in 1..n /\ r.position + 1 >= r0.position
        BY <1>1, <1>3, <2>2
      <3>2. PICK q \in AnswersOf(s) : q.position = r.position + 1
        BY <1>1, <3>1
      <3> QED BY <1>2, <3>1, <3>2
    <2> QED BY <2>1, <2>2
  <1>4. X \subseteq sc.dialog /\ X # {}
    BY <1>1, <1>2
  <1>5. \A st \in X : \E o \in Outcome : ResolveNext(sc, st, o) \in X
    BY <1>1, <1>3
  <1> HIDE DEF X
  <1> QED BY <1>4, <1>5 DEF NoWayBack, sc

(* Where no option leads back a session can always be answered further.    *)
LEMMA NeverStuckFromIInv ==
  ASSUME IInv, \A c \in Code : \A v \in Version(c) : NoWayBack(Content[c][v])
  PROVE  NeverStuck
  <1> SUFFICES ASSUME NEW s \in DOMAIN sessions, sessions[s].status = "in_progress",
                      NEW r \in AnswersTo(s, sessions[s].step)
               PROVE  FALSE
    BY DEF NeverStuck
  <1>1. r \in AnswersOf(s) /\ r.step = sessions[s].step
    BY DEF AnswersTo, AnswersOf
  <1>2. PathOf(s) /\ Base
    BY DEF IInv, AnswersFormPath, Base
  <1>3. NoWayBack(ScenarioOf(s))
    BY <1>2, PinnedScenario DEF ScenarioOf, Base
  <1> QED BY <1>1, <1>2, <1>3, BackAtAnswered

(* The step an unfinished session stands at has no answer, for content     *)
(* without a way back (ResolveNext, the unique index on answers).          *)
THEOREM NeverStuckHolds ==
  ASSUME \A c \in Code : \A v \in Version(c) : NoWayBack(Content[c][v])
  PROVE  Spec => []NeverStuck
  <1>1. IInv => NeverStuck
    BY NeverStuckFromIInv
  <1> QED BY <1>1, Invariance, PTL

-----------------------------------------------------------------------------
(* Walks are bounded, with or without a way back.                          *)
LEMMA AnsweredOnceStep ==
  ASSUME Base, AnsweredOnce, [Next]_tables
  PROVE  AnsweredOnce'
  <1>1. ASSUME NEW s \in SessionId, NEW option \in Outcome, Answer(s, option)
        PROVE  AnsweredOnce'
    <2> DEFINE new == FreshAnswer(s, option)
    <2>1. answers' = answers \cup {new}
      BY <1>1, AnswersGrow DEF Base
    <2>2. new.sid = s /\ new.step = sessions[s].step
      BY DEF FreshAnswer
    <2>3. \A r \in answers : ~(r.sid = new.sid /\ r.step = new.step)
      BY <1>1, <2>2 DEF Answer, AnswersTo
    <2> HIDE DEF new
    <2> QED BY <2>1, <2>3 DEF AnsweredOnce
  <1>2. CASE OtherStep
    BY <1>2, OtherSteps DEF AnsweredOnce
  <1>3. CASE UNCHANGED tables
    BY <1>3 DEF AnsweredOnce, tables
  <1> QED BY <1>1, <1>2, <1>3, NextSteps

LEMMA BoundFromOnce ==
  ASSUME IInv, AnsweredOnce
  PROVE  WalkBounded
  <1> SUFFICES ASSUME NEW s \in DOMAIN sessions, IsFiniteSet(ScenarioOf(s).dialog)
               PROVE  Cardinality(AnswersOf(s)) <= Cardinality(ScenarioOf(s).dialog)
    BY DEF WalkBounded
  <1> DEFINE at == [r \in AnswersOf(s) |-> r.step]
  <1>1. \A r \in AnswersOf(s) : r.step \in ScenarioOf(s).dialog
    BY DEF IInv, AnswersFormPath, PathOf
  <1>2. \A r, q \in AnswersOf(s) : r.step = q.step => r = q
    BY DEF AnsweredOnce, AnswersOf
  <1>3. at \in Injection(AnswersOf(s), ScenarioOf(s).dialog)
    BY <1>1, <1>2 DEF Injection, IsInjective
  <1> QED BY <1>3, FS_Injection

(* A step of a session is answered once: SaveAnswer.                       *)
THEOREM AnsweredOnceHolds == Spec => []AnsweredOnce
  <1>1. InitTables => AnsweredOnce
    BY DEF InitTables, AnsweredOnce
  <1>2. IInv /\ AnsweredOnce /\ [Next]_tables => AnsweredOnce'
    BY AnsweredOnceStep DEF IInv, Base
  <1> QED BY <1>1, <1>2, Invariance, PTL DEF Spec

(* No walk is longer than its version has dialog steps: after so many      *)
(* answers a session is completed or refuses every further one.            *)
THEOREM WalkBoundedHolds == Spec => []WalkBounded
  <1>1. IInv /\ AnsweredOnce => WalkBounded
    BY BoundFromOnce
  <1> QED BY <1>1, Invariance, AnsweredOnceHolds, PTL

-----------------------------------------------------------------------------
(* Neither a start, an abandonment, a claim nor a publication reopens.     *)
LEMMA StaysEnded ==
  ASSUME TypeOK, OtherStep, NEW t \in DOMAIN sessions, sessions[t].status # "in_progress"
  PROVE  sessions'[t].status # "in_progress"
  <1>1. sessions[t] \in SessionRow
    BY DEF TypeOK
  <1>2. ASSUME NEW s \in SessionId, NEW o \in Owner, NEW c \in Code,
               NEW v \in Version(c), Start(s, o, c, v)
        PROVE  sessions'[t] = sessions[t]
    BY <1>2 DEF Start, InsertSession
  <1>3. ASSUME NEW s \in SessionId, Abandon(s)
        PROVE  sessions'[t] = sessions[t]
    BY <1>3 DEF Abandon, UpdateAbandoned
  <1>4. ASSUME NEW g \in Guest, NEW u \in User, Claim(g, u)
        PROVE  sessions'[t].status = sessions[t].status
    BY <1>1, <1>4 DEF Claim, Move, UpdateOwner, SessionRow
  <1>5. ASSUME NEW c \in Code, Publish(c)
        PROVE  sessions'[t] = sessions[t]
    BY <1>5 DEF Publish
  <1> QED BY <1>2, <1>3, <1>4, <1>5 DEF OtherStep

(* Nothing that was recorded is lost (session.go has no DELETE, and each   *)
(* UPDATE names the columns it changes).                                   *)
THEOREM RecordKeptHolds == Spec => RecordKept
  <1> DEFINE Kept(s) == /\ s \in DOMAIN sessions'
                        /\ sessions'[s].code = sessions[s].code
                        /\ sessions'[s].version = sessions[s].version
                        /\ sessions[s].status # "in_progress" =>
                             sessions'[s].status # "in_progress"
             Record == answers \subseteq answers' /\ \A s \in DOMAIN sessions : Kept(s)
  <1>1. IInv /\ [Next]_tables => [Record]_tables
    <2> SUFFICES ASSUME IInv, Next
                 PROVE  Record
      OBVIOUS
    <2>1. ASSUME NEW s \in SessionId, NEW option \in Outcome, Answer(s, option)
          PROVE  Record
      <3>1. answers \subseteq answers'
        BY <2>1, AnswersGrow DEF IInv
      <3>2. Kept(s)
        BY <2>1, AnsweredRow, AnswersGrow DEF IInv, Base
      <3>3. \A t \in DOMAIN sessions \ {s} : Kept(t)
        BY <2>1, AnswersGrow DEF IInv
      <3> HIDE DEF Kept
      <3> QED BY <3>1, <3>2, <3>3
    <2>2. ASSUME OtherStep
          PROVE  Record
      <3>1. answers' = answers /\ \A t \in DOMAIN sessions : SameWalk(t)
        BY <2>2, OtherSteps DEF IInv, Base
      <3>2. \A t \in DOMAIN sessions :
              sessions[t].status # "in_progress" => sessions'[t].status # "in_progress"
        BY <2>2, StaysEnded DEF IInv
      <3> QED BY <3>1, <3>2 DEF SameWalk
    <2> QED BY <2>1, <2>2, NextSteps
  <1> QED BY <1>1, Invariance, PTL DEF Spec, RecordKept

=============================================================================
