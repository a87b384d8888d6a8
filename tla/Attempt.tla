------------------------------ MODULE Attempt ------------------------------
(***************************************************************************)
(* What the training engine promises: every operation on a session happens *)
(* in one step, on the committed tables.  Training, where each request is  *)
(* several SQL statements that interleave with other requests, is shown to *)
(* implement this specification.                                           *)
(***************************************************************************)
EXTENDS SessionStore

(* A new attempt, pinned to a version that was active when the request     *)
(* came (the seeder may have published a newer one since).                 *)
Start(s, o, c, v) ==
  /\ s \notin DOMAIN sessions
  /\ v \in 1..active[c]
  /\ ActiveSessions(o, c) = {}
  /\ InsertSession(s, o, c, v)
  /\ UNCHANGED <<answers, active>>

(* An answer to the current step.  A step is answered once, and only a     *)
(* completed session has no current step: an abandoned one keeps it.       *)
Answer(s, option) ==
  LET st == sessions[s].step
  IN  /\ s \in DOMAIN sessions
      /\ sessions[s].status # "completed"
      /\ AnswersTo(s, st) = {}
      /\ ApplyAnswer(s, st, option, PathPosition(Cardinality(AnswersOf(s))))
      /\ UNCHANGED active

(* Broken variant: the UPDATE without AND status = 'in_progress'.          *)
AbandonAnyStatus(s) ==
  /\ s \in DOMAIN sessions
  /\ UpdateAbandoned(s)
  /\ UNCHANGED <<answers, active>>

Abandon(s) ==
  /\ s \in DOMAIN sessions
  /\ sessions[s].status = "in_progress"
  /\ UpdateAbandoned(s)
  /\ UNCHANGED <<answers, active>>

(* Sessions of a guest move to the account, all of them or none.           *)
Move(S, u) ==
  /\ ~ClaimConflict(S, u)
  /\ UpdateOwner(S, u)
  /\ UNCHANGED <<answers, active>>

(* ClaimByGuest moves the sessions its UPDATE finds: those the guest had   *)
(* when it began.  One started since stays behind.                         *)
Claim(g, u) == \E S \in SUBSET SessionsOf(g) : Move(S, u)

Publish(c) == PublishNext(c) /\ UNCHANGED <<sessions, answers>>

Next ==
  \/ \E s \in SessionId, o \in Owner, c \in Code :
       \E v \in Version(c) : Start(s, o, c, v)
  \/ \E s \in SessionId, option \in Outcome : Answer(s, option)
  \/ \E s \in SessionId : Abandon(s)
  \/ \E g \in Guest, u \in User : Claim(g, u)
  \/ \E c \in Code : Publish(c)

Spec == InitTables /\ [][Next]_tables

(* The owner of an attempt keeps answering while there is a step to answer.*)
KeepsAnswering ==
  \A s \in SessionId : WF_tables(\E option \in Outcome : Answer(s, option))

FairSpec == Spec /\ KeepsAnswering

-----------------------------------------------------------------------------
(* Safety.                                                                 *)

(* An owner never has two unfinished sessions of one scenario, so "resume" *)
(* is unambiguous: sessions_single_active_idx together with Create,        *)
(* restart and ClaimByGuest.                                               *)
OneActive ==
  \A o \in Owner, c \in Code :
    \A s, t \in ActiveSessions(o, c) : s = t

CountOf(s, outcome) == Cardinality({r \in AnswersOf(s) : r.option = outcome})

(* The score column, kept by increments in SaveAnswer, is the sum of the   *)
(* weights of the recorded answers.                                        *)
ScoreOf(s) ==   CountOf(s, "safe") * Weights["safe"]
              + CountOf(s, "risky") * Weights["risky"]
              + CountOf(s, "critical") * Weights["critical"]

ScoreIsSum == \A s \in DOMAIN sessions : sessions[s].score = ScoreOf(s)

(* The answers of a session are a walk in the scenario version the session *)
(* was started on: positions 1..n, the first at the start step, each next  *)
(* one where the previous option leads; and the session stands where the   *)
(* last answer leads, completed exactly when that is a terminal step.      *)
PathOf(s) ==
  LET sc == ScenarioOf(s)
      n  == Cardinality(AnswersOf(s))
  IN  /\ {r.position : r \in AnswersOf(s)} = 1..n
      /\ n = 0 => sessions[s].step = sc.start
      /\ \A r \in AnswersOf(s) :
           LET next == ResolveNext(sc, r.step, r.option)
           IN  /\ r.step \in sc.dialog
               /\ r.position = 1 => r.step = sc.start
               /\ \A q \in AnswersOf(s) :
                    q.position = r.position + 1 => q.step = next
               /\ r.position = n =>
                    sessions[s].step = IF IsTerminal(sc, next) THEN None ELSE next
      /\ (sessions[s].status = "completed") <=> (sessions[s].step = None)

AnswersFormPath == \A s \in DOMAIN sessions : PathOf(s)

(* No option leads back: of any dialog steps, one is left for good by each *)
(* of its options.  validateGraph does not ask for it.                     *)
NoWayBack(sc) ==
  \A X \in SUBSET sc.dialog \ {{}} :
    \E st \in X : \A o \in Outcome : ResolveNext(sc, st, o) \notin X

(* The step an unfinished session stands at has no answer yet: otherwise   *)
(* every further SubmitAnswer would return the stored result and the       *)
(* session could never move.  Holds when no option leads back.             *)
NeverStuck ==
  \A s \in DOMAIN sessions :
    sessions[s].status = "in_progress" => AnswersTo(s, sessions[s].step) = {}

(* A completed attempt is final: its score, version and answers never      *)
(* change again, whatever late requests still do; only ClaimByGuest may    *)
(* change its owner.                                                       *)
CompletedFrozen ==
  [][\A s \in DOMAIN sessions :
       sessions[s].status = "completed" =>
         /\ s \in DOMAIN sessions'
         /\ [sessions'[s] EXCEPT !.owner = sessions[s].owner] = sessions[s]
         /\ AnswersOf(s)' = AnswersOf(s)]_tables

(* The record of attempts is append-only: no answer is changed or deleted, *)
(* no session disappears, moves to another scenario or version, or is in   *)
(* progress again once it was ended.                                       *)
RecordKept ==
  [][/\ answers \subseteq answers'
     /\ \A s \in DOMAIN sessions :
          /\ s \in DOMAIN sessions'
          /\ sessions'[s].code = sessions[s].code
          /\ sessions'[s].version = sessions[s].version
          /\ sessions[s].status # "in_progress" =>
               sessions'[s].status # "in_progress"]_tables

(* A step of a session is answered once, as the unique index on answers    *)
(* has it; so a walk has no more answers than its version has dialog steps,*)
(* even where options lead back.                                           *)
AnsweredOnce == \A r, q \in answers : r.sid = q.sid /\ r.step = q.step => r = q

WalkBounded ==
  \A s \in DOMAIN sessions :
    IsFiniteSet(ScenarioOf(s).dialog) =>
      Cardinality(AnswersOf(s)) <= Cardinality(ScenarioOf(s).dialog)

-----------------------------------------------------------------------------
(* What makes the invariants inductive: a session that is not completed    *)
(* stands at a dialog step of its version, whose options are defined, and  *)
(* answers refer to existing sessions (the foreign key).                   *)
Standing ==
  \A s \in DOMAIN sessions :
    sessions[s].status # "completed" => sessions[s].step \in ScenarioOf(s).dialog

Stored == IsFiniteSet(answers) /\ \A r \in answers : r.sid \in DOMAIN sessions

(* The inductive invariant of the proofs: the walk of every session stays  *)
(* inside its scenario version and its score and answers agree.            *)
IInv == TypeOK /\ Standing /\ Stored /\ OneActive /\ ScoreIsSum /\ AnswersFormPath

-----------------------------------------------------------------------------
(* Liveness.                                                               *)

(* Under FairSpec every attempt ends, by completion or abandonment: the    *)
(* walk through the scenario reaches a terminal step.                      *)
EveryWalkEnds ==
  \A s \in SessionId :
    (s \in DOMAIN sessions)
      ~> (s \in DOMAIN sessions /\ sessions[s].status # "in_progress")

=============================================================================
