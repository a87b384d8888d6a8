------------------------------ MODULE Progress ------------------------------
(***************************************************************************)
(* What the history of attempts adds up to: results, the card of a         *)
(* scenario, the debrief and the statistics of risk signals, computed from *)
(* the tables while the training engine changes them                       *)
(* (repository/progress.go, the history queries of repository/session.go,  *)
(* domain/scoring.go, service/catalog.go).                                 *)
(*                                                                         *)
(* finished_at is the time a transaction began, and transactions need not  *)
(* commit in the order they began: any time may be recorded.               *)
(***************************************************************************)
EXTENDS Attempt, Scoring

CONSTANTS
  Signal,       \* risk signal codes
  Marked,       \* Marked[c][v][st]: the signals step st of version v of c carries
  Time          \* a finite set of instants

ASSUME MarkedAssumption ==
  \A c \in Code : \A v \in Version(c) :
    \A st \in Content[c][v].dialog : Marked[c][v][st] \subseteq Signal

ASSUME TimeAssumption == Time \subseteq Nat /\ Time # {} /\ None \notin Time

VARIABLE finished       \* finished[s]: column finished_at, NULL while in progress

allVars == <<sessions, answers, active, finished>>

FinishedOK ==
  /\ finished \in [SessionId -> Time \cup {None}]
  /\ \A s \in SessionId :
       (finished[s] = None) <=> (s \in DOMAIN sessions => sessions[s].status = "in_progress")

PInit == InitTables /\ finished = [s \in SessionId |-> None]

-----------------------------------------------------------------------------
(* Steps of the engine, with the column finished_at.                       *)

Starts ==
  /\ \E s \in SessionId, o \in Owner, c \in Code :
       \E v \in Version(c) : Start(s, o, c, v)
  /\ UNCHANGED finished

Answers(s) ==
  /\ \E option \in Outcome : Answer(s, option)
  /\ IF sessions'[s].status = "completed"
       THEN \E now \in Time : finished' = [finished EXCEPT ![s] = now]
       ELSE UNCHANGED finished

(* No query reads the time of an abandonment, so any one will do.          *)
Abandons(s) ==
  /\ Abandon(s)
  /\ finished' = [finished EXCEPT ![s] = CHOOSE now \in Time : TRUE]

Claims == (\E g \in Guest, u \in User : Claim(g, u)) /\ UNCHANGED finished

Publishes == (\E c \in Code : Publish(c)) /\ UNCHANGED finished

PNext ==
  \/ Starts
  \/ \E s \in SessionId : Answers(s) \/ Abandons(s)
  \/ Claims
  \/ Publishes

PSpec == PInit /\ [][PNext]_allVars

-----------------------------------------------------------------------------
(* Queries.                                                                *)

(* ListCompleted, and the rows under ScenarioStats and ScoredAttempts.     *)
Completed(o, c) ==
  {s \in DOMAIN sessions : /\ sessions[s].owner = o /\ sessions[s].code = c
                           /\ sessions[s].status = "completed"}

AnswersCount(s) == Cardinality(AnswersOf(s))

ResultOf(s) == EvaluateTotals(sessions[s].score, AnswersCount(s))

(* Broken variant: compares the scores, whatever the lengths.              *)
BetterScore(s, t) == sessions[s].score > sessions[t].score

(* score / answers_count is greater for s than for t.                      *)
Better(s, t) ==
  sessions[s].score * AnswersCount(t) > sessions[t].score * AnswersCount(s)

(* ScenarioStats: ORDER BY score / answers_count DESC, finished_at DESC,   *)
(* and the rows that may come first: the best attempt on the card.         *)
Best(o, c) ==
  LET history == Completed(o, c)
  IN  {s \in history : \A t \in history : \/ Better(s, t)
                                          \/ ~Better(t, s) /\ finished[s] >= finished[t]}

(* PreviousCompleted: the attempts the debrief of s may compare with.      *)
Before(s) ==
  {t \in Completed(sessions[s].owner, sessions[s].code) : finished[t] < finished[s]}

(* Broken variant: the first row is the oldest one.                        *)
PreviousOldest(s) == {t \in Before(s) : \A q \in Before(s) : finished[q] >= finished[t]}

Previous(s) == {t \in Before(s) : \A q \in Before(s) : finished[q] <= finished[t]}

SignalsOn(r) == Marked[sessions[r.sid].code][sessions[r.sid].version][r.step]

(* Broken variant: one safe choice is enough.                              *)
RecognizedOnce(s, g) ==
  \E r \in AnswersOf(s) : g \in SignalsOn(r) /\ r.option = "safe"

(* RecognizedSignals: g was met, and every choice on a step with it was    *)
(* safe.                                                                   *)
Met(s, g) == \E r \in AnswersOf(s) : g \in SignalsOn(r)

Recognized(s, g) ==
  Met(s, g) /\ \A r \in AnswersOf(s) : g \in SignalsOn(r) => r.option = "safe"

(* SignalStats: the answers of completed attempts on steps with g, and     *)
(* those among them that were safe.                                        *)
Encounters(o, g) ==
  {r \in answers : /\ sessions[r.sid].owner = o
                   /\ sessions[r.sid].status = "completed"
                   /\ g \in SignalsOn(r)}

Encountered(o, g) == Cardinality(Encounters(o, g))

RecognizedCount(o, g) == Cardinality({r \in Encounters(o, g) : r.option = "safe"})

Mastered(o, g) == RecognizedCount(o, g) = Encountered(o, g)

-----------------------------------------------------------------------------
(* Safety.                                                                 *)

(* The percent of a completed attempt is the integer nearest to its share  *)
(* of the way from -10n to 10n, a half upwards, and lies in 0..100.        *)
ResultsRight ==
  \A s \in DOMAIN sessions : sessions[s].status = "completed" =>
    LET n == AnswersCount(s)
        p == ResultOf(s).percent
        rest == 100 * (sessions[s].score + 10 * n) - 20 * n * p
    IN  /\ n > 0
        /\ p \in 0..100
        /\ -10 * n <= rest /\ rest < 10 * n

Rank == [resilient |-> 3, attentive |-> 2, vulnerable |-> 1]

(* The attempt that the query picks by score / answers is the best one by  *)
(* the percent and the level that the card shows, although percents are    *)
(* rounded and attempts differ in length; and there is one to show.        *)
BestIsBest ==
  \A o \in User, c \in Code :
    /\ Completed(o, c) # {} => Best(o, c) # {}
    /\ \A s \in Best(o, c), t \in Completed(o, c) :
         /\ ResultOf(s).percent >= ResultOf(t).percent
         /\ Rank[ResultOf(s).level] >= Rank[ResultOf(t).level]

(* The query of /progress/signals and the debriefs agree: a signal is      *)
(* mastered exactly when every debrief in which it occurs shows it         *)
(* recognized.                                                             *)
MasteryAgrees ==
  \A o \in Owner, g \in Signal :
    LET met == {s \in UNION {Completed(o, c) : c \in Code} : Met(s, g)}
    IN  /\ (Encounters(o, g) # {}) <=> (met # {})
        /\ Mastered(o, g) <=> \A s \in met : Recognized(s, g)

(* Comparisons with the previous attempt form one chain through the        *)
(* history of a scenario, unless two attempts ended at the same instant:   *)
(* only the earliest has nothing to compare with, and no attempt is the    *)
(* previous one of two.                                                    *)
ComparisonsChain ==
  \A o \in Owner, c \in Code :
    LET history == Completed(o, c)
    IN  (\A s, t \in history : finished[s] = finished[t] => s = t) =>
          /\ \A s, t \in history : Previous(s) = {} /\ Previous(t) = {} => s = t
          /\ \A s, t \in history : Previous(s) \cap Previous(t) # {} => s = t

(* The progress of an account never shrinks: no attempt drops out of its   *)
(* history and its best result gets no worse, whatever is abandoned,       *)
(* claimed, published or still being answered.                             *)
ProgressNeverShrinks ==
  [][\A u \in User, c \in Code :
       /\ Completed(u, c) \subseteq Completed(u, c)'
       /\ LET best == Best(u, c)'
          IN  \A s \in Best(u, c) : \A t \in best :
                ResultOf(t)'.percent >= ResultOf(s).percent]_allVars

(* The debrief of a completed attempt is the same whenever it is asked for:*)
(* result, time and signals stay, whoever owns the attempt by then and     *)
(* whatever version of the scenario is published.                          *)
DebriefFixed ==
  [][\A s \in DOMAIN sessions : sessions[s].status = "completed" =>
       /\ ResultOf(s)' = ResultOf(s)
       /\ finished'[s] = finished[s]
       /\ \A g \in Signal : /\ Met(s, g)' <=> Met(s, g)
                            /\ Recognized(s, g)' <=> Recognized(s, g)]_allVars

(* Who always chose the safe option has 100 percent and the highest level, *)
(* who always chose the critical one 0 and the lowest, however long the    *)
(* attempt was.                                                            *)
ExtremesRight ==
  \A s \in DOMAIN sessions : sessions[s].status = "completed" =>
    /\ (\A r \in AnswersOf(s) : r.option = "safe") =>
         ResultOf(s) = [percent |-> 100, level |-> "resilient"]
    /\ (\A r \in AnswersOf(s) : r.option = "critical") =>
         ResultOf(s) = [percent |-> 0, level |-> "vulnerable"]

=============================================================================
