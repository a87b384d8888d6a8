---------------------------- MODULE SessionStore ----------------------------
(***************************************************************************)
(* The tables the training engine works on, and what each SQL statement of *)
(* the session repository does to them (migrations/00001_init.sql,         *)
(* repository/session.go).  A guest session is owned through the column    *)
(* guest_session_id, which behaves like user_id: exactly one of the two is *)
(* set, so a row has one owner.                                            *)
(***************************************************************************)
EXTENDS Scenario, FiniteSets, Sequences

CONSTANTS
  User, Guest,  \* the two kinds of owners
  SessionId,    \* primary keys of sessions; a finite set bounds the table
  Code,         \* scenario codes
  Content       \* Content[c] is the sequence of versions seeded for code c

ASSUME OwnersAssumption == User \cap Guest = {}

ASSUME SessionIdAssumption == IsFiniteSet(SessionId) /\ None \notin SessionId

ASSUME ContentAssumption ==
  \A c \in Code : /\ Len(Content[c]) \in Nat \ {0}
                  /\ \A v \in 1..Len(Content[c]) : IsScenario(Content[c][v])

VARIABLES
  sessions,     \* table sessions: a function on the ids present
  answers,      \* table answers: a set of rows
  active        \* active[c]: the version of code c with is_active = TRUE

tables == <<sessions, answers, active>>

Owner   == User \cup Guest
Status  == {"in_progress", "completed", "abandoned"}
Version(c) == 1..Len(Content[c])

SessionRow == [owner: Owner, code: Code, version: Nat, status: Status,
               step: Step \cup {None}, score: Int]

AnswerRow == [sid: SessionId, step: Step, option: Outcome, position: Nat]

TypeOK ==
  /\ DOMAIN sessions \subseteq SessionId
  /\ \A s \in DOMAIN sessions :
       /\ sessions[s] \in SessionRow
       /\ sessions[s].version \in Version(sessions[s].code)
  /\ answers \subseteq AnswerRow
  /\ active \in [Code -> Nat]
  /\ \A c \in Code : active[c] \in Version(c)

(* The tables once the seeder has loaded the first versions.               *)
InitTables ==
  /\ sessions = [s \in {} |-> None]
  /\ answers = {}
  /\ active = [c \in Code |-> 1]

-----------------------------------------------------------------------------
(* Queries.                                                                *)

ScenarioOf(s) == Content[sessions[s].code][sessions[s].version]

AnswersOf(s) == {r \in answers : r.sid = s}

(* SELECT ... FROM answers WHERE session_id = s AND step_code = st         *)
AnswersTo(s, st) == {r \in answers : r.sid = s /\ r.step = st}

(* SELECT ... FROM sessions WHERE owner = o AND scenario_code = c AND      *)
(* status = 'in_progress'                                                  *)
ActiveSessions(o, c) ==
  {s \in DOMAIN sessions : /\ sessions[s].owner = o
                           /\ sessions[s].code = c
                           /\ sessions[s].status = "in_progress"}

-----------------------------------------------------------------------------
(* Statements.  Each leaves the tables it does not name alone.             *)

(* Broken variant of InsertSession: version v is recorded, but the session *)
(* begins where the version active at the INSERT begins.                   *)
InsertAtActiveStart(s, o, c, v) ==
  sessions' = [t \in DOMAIN sessions \cup {s} |->
                 IF t = s THEN [owner |-> o, code |-> c, version |-> v,
                                status |-> "in_progress",
                                step |-> Content[c][active[c]].start, score |-> 0]
                          ELSE sessions[t]]

(* INSERT INTO sessions: the row Start builds for version v of code c.     *)
InsertSession(s, o, c, v) ==
  sessions' = [t \in DOMAIN sessions \cup {s} |->
                 IF t = s THEN [owner |-> o, code |-> c, version |-> v,
                                status |-> "in_progress",
                                step |-> Content[c][v].start, score |-> 0]
                          ELSE sessions[t]]

(* Broken variants of Advanced: the UPDATE that completes the session      *)
(* forgets the score; the other UPDATE forgets current_step_code.          *)
AdvancedFinalScoreLost(row, option, next, finished) ==
  [row EXCEPT !.score = IF finished THEN @ ELSE @ + Weights[option],
              !.step = IF finished THEN None ELSE next,
              !.status = IF finished THEN "completed" ELSE @]

AdvancedInPlace(row, option, next, finished) ==
  [row EXCEPT !.score = @ + Weights[option],
              !.step = IF finished THEN None ELSE @,
              !.status = IF finished THEN "completed" ELSE @]

(* What the UPDATE of SaveAnswer makes of the row: the score grows by the  *)
(* weight of the option, the session moves on or is completed.             *)
Advanced(row, option, next, finished) ==
  [row EXCEPT !.score = @ + Weights[option],
              !.step = IF finished THEN None ELSE next,
              !.status = IF finished THEN "completed" ELSE @]

(* INSERT INTO answers, then UPDATE sessions: the effect of the committed  *)
(* transaction of SaveAnswer.  The UPDATE selects the row by id alone.     *)
ApplyAnswer(s, st, option, position) ==
  LET next == ResolveNext(ScenarioOf(s), st, option)
  IN  /\ answers' = answers \cup {[sid |-> s, step |-> st, option |-> option,
                                   position |-> position]}
      /\ sessions' = [sessions EXCEPT ![s] =
           Advanced(@, option, next, IsTerminal(ScenarioOf(s), next))]

(* UPDATE sessions SET status = 'abandoned' WHERE id = s AND status =      *)
(* 'in_progress'; current_step_code keeps its value.                       *)
UpdateAbandoned(s) == sessions' = [sessions EXCEPT ![s].status = "abandoned"]

(* UPDATE sessions SET user_id = u, guest_session_id = NULL WHERE          *)
(* guest_session_id = g, for the rows S of g that it finds, and the unique *)
(* index that makes it fail.                                               *)
SessionsOf(o) == {s \in DOMAIN sessions : sessions[s].owner = o}

(* Broken variant: the unique index does not cover accounts.               *)
NoClaimConflict(S, u) == FALSE

ClaimConflict(S, u) ==
  \E s \in S : /\ sessions[s].status = "in_progress"
              /\ ActiveSessions(u, sessions[s].code) # {}

UpdateOwner(S, u) ==
  sessions' = [s \in DOMAIN sessions |->
                 IF s \in S THEN [sessions[s] EXCEPT !.owner = u] ELSE sessions[s]]

(* Broken variant: without the transaction, so that a failure after the    *)
(* first UPDATE leaves the scenario with no active version.                *)
PublishPiecemeal(c) ==
  /\ active[c] < Len(Content[c])
  /\ \E v \in {active[c] + 1, 0} : active' = [active EXCEPT ![c] = v]

(* Upsert of a changed scenario: the next version becomes the active one.  *)
PublishNext(c) ==
  /\ active[c] < Len(Content[c])
  /\ active' = [active EXCEPT ![c] = @ + 1]

=============================================================================
