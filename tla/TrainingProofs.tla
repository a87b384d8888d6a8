--------------------------- MODULE TrainingProofs ---------------------------
(***************************************************************************)
(* Proofs about Training, for any number of concurrent requests: stale     *)
(* handlers are harmless, and whatever statements interleave the committed *)
(* tables change as Attempt says, one operation at a time.                 *)
(***************************************************************************)
EXTENDS Training, FiniteSetTheorems, TLAPS

(* The facts proved about Attempt, of the same tables.                     *)
Proved == INSTANCE AttemptProofs

-----------------------------------------------------------------------------
(* What a handler that is at work has read.                                *)
Located(h) ==
  LET l == loc[h]
  IN  /\ pc[h] \in Starting => /\ l.owner \in Owner /\ l.code \in Code
                               /\ l.version \in Version(l.code)
                               /\ l.version \in 1..active[l.code]
      /\ pc[h] \in Submitting \cup {"abandonOld", "abandon"} => l.sid \in DOMAIN sessions
      /\ pc[h] \in Submitting \ {"check"} => l.status = "in_progress"
      /\ pc[h] \in {"ready", "inserted", "updated"} => l.option \in Outcome
      /\ pc[h] # "done" => l.reply = "none"
      /\ pc[h] = "cardStats" => l.owner \in User /\ l.attempts = {} /\ l.sid = None
      /\ pc[h] = "cardActive" => CardHolds(l) /\ l.owner \in User /\ l.sid = None

(* Two open transactions are never on the same session.                    *)
Exclusive ==
  \A h, k \in Handler :
    /\ pc[h] \in {"inserted", "updated"} /\ pc[k] \in {"inserted", "updated"}
    /\ loc[h].sid = loc[k].sid
    => h = k

HandlersOK == \A h \in Handler : Located(h) /\ Fresh(h) /\ Confirmed(loc[h])

(* A claim under way: of the sessions the guest had when it began, those it*)
(* has left behind are an account's, those it has moved are still the      *)
(* guest's to everybody else, and nothing of the account is in the way of  *)
(* the entries made so far.                                                *)
Claims(l) ==
  /\ l.owner \in User /\ l.guest \in Guest
  /\ l.attempts \subseteq DOMAIN sessions
  /\ l.rows \subseteq l.attempts /\ l.moved \subseteq l.attempts
  /\ l.rows \cap l.moved = {} /\ l.sid \notin l.rows
  /\ \A s \in l.attempts : sessions[s].owner \in User \cup {l.guest}
  /\ \A s \in l.attempts \ (l.rows \cup l.moved) : s = l.sid \/ sessions[s].owner \in User
  /\ \A s \in l.moved : sessions[s].owner = l.guest
  /\ \A s \in l.moved \ {l.sid} :
       sessions[s].status = "in_progress" => ActiveSessions(l.owner, sessions[s].code) = {}

ClaimOK(h) ==
  LET l == loc[h]
  IN  /\ pc[h] \in Claiming => Claims(l) /\ l.reply = "none"
      /\ pc[h] = "claimRow" => l.sid \in l.attempts \ l.moved
      /\ pc[h] = "claimKey" => l.sid \in l.moved /\ sessions[l.sid].status = "in_progress"
      /\ pc[h] = "claimCommit" => l.rows = {} /\ l.sid = None

(* A row is locked by one transaction only, and two claims for one account *)
(* have made entries for different scenarios.                              *)
RowsExclusive ==
  \A h, k \in Handler, s \in SessionId : HoldsRow(h, s) /\ HoldsRow(k, s) => h = k

EntriesExclusive ==
  \A h, k \in Handler :
    /\ h # k /\ pc[h] \in Claiming /\ pc[k] \in Claiming
    /\ loc[h].owner = loc[k].owner
    => \A s \in loc[h].moved \ {loc[h].sid}, t \in loc[k].moved \ {loc[k].sid} :
         /\ sessions[s].status = "in_progress" /\ sessions[t].status = "in_progress"
         => sessions[s].code # sessions[t].code

ClaimsOK == (\A h \in Handler : ClaimOK(h)) /\ RowsExclusive /\ EntriesExclusive

(* The part of Attempt's invariant the handlers rely on, and what they add.*)
Walking == \A s \in DOMAIN sessions :
             sessions[s].status # "completed" => sessions[s].step \in ScenarioOf(s).dialog

TablesOK == TypeOK /\ Walking /\ IsFiniteSet(answers)

HInv == LocalsOK /\ HandlersOK /\ Exclusive /\ ClaimsOK

-----------------------------------------------------------------------------
(* Attempt's theorems, of the tables of this module.                       *)
LEMMA FiniteSame == ASSUME NEW S PROVE Proved!IsFiniteSet(S) <=> IsFiniteSet(S)
  BY DEF Proved!IsFiniteSet, IsFiniteSet

LEMMA AssumptionsSame ==
  /\ Proved!IsFiniteSet(SessionId) /\ None \notin SessionId
  /\ \A c \in Code : /\ Len(Content[c]) \in Nat \ {0}
                     /\ \A v \in 1..Len(Content[c]) : Proved!IsScenario(Content[c][v])
  <1>1. Proved!IsFiniteSet(SessionId) /\ None \notin SessionId
    BY SessionIdAssumption, FiniteSame
  <1>2. \A c \in Code : /\ Len(Content[c]) \in Nat \ {0}
                        /\ \A v \in 1..Len(Content[c]) : Proved!IsScenario(Content[c][v])
    BY ContentAssumption DEF Proved!IsScenario, IsScenario, Proved!Outcome, Outcome
  <1> QED BY <1>1, <1>2

LEMMA InvStep == Proved!IInv /\ [Proved!Next]_(Proved!tables) => Proved!IInv'
  BY Proved!IInvStep, AssumptionsSame, NoneIsNoStep, OwnersAssumption

LEMMA InvInit == Proved!InitTables => Proved!IInv
  BY Proved!IInvInit, AssumptionsSame, NoneIsNoStep, OwnersAssumption

LEMMA TablesFromInv == Proved!IInv => TablesOK
  <1> SUFFICES ASSUME Proved!IInv
               PROVE  TablesOK
    OBVIOUS
  <1>1. Proved!TypeOK /\ Proved!Standing /\ Proved!Stored
    BY DEF Proved!IInv
  <1>2. TypeOK
    BY <1>1 DEF Proved!TypeOK, TypeOK, Proved!SessionRow, SessionRow, Proved!AnswerRow,
       AnswerRow, Proved!Version, Version, Proved!Status, Status, Proved!Owner, Owner,
       Proved!Outcome, Outcome
  <1>3. Walking
    BY <1>1 DEF Proved!Standing, Walking, Proved!ScenarioOf, ScenarioOf
  <1>4. IsFiniteSet(answers)
    BY <1>1, FiniteSame DEF Proved!Stored
  <1> QED BY <1>2, <1>3, <1>4 DEF TablesOK

LEMMA InitSame == InitTables => Proved!InitTables /\ Attempts!InitTables
  BY DEF InitTables, Proved!InitTables, Attempts!InitTables

LEMMA NextSame == [Attempts!Next]_(Attempts!tables) => [Proved!Next]_(Proved!tables)
  <1> USE DEF Attempts!ActiveSessions, Proved!ActiveSessions, Attempts!AnswersOf,
          Proved!AnswersOf, Attempts!AnswersTo, Proved!AnswersTo, Attempts!ScenarioOf,
          Proved!ScenarioOf, Attempts!tables, Proved!tables
  <1>1. CASE UNCHANGED Attempts!tables
    BY <1>1
  <1>2. ASSUME NEW s \in SessionId, NEW o \in Attempts!Owner, NEW c \in Code,
               NEW v \in Attempts!Version(c), Attempts!Start(s, o, c, v)
        PROVE  o \in Proved!Owner /\ v \in Proved!Version(c) /\ Proved!Start(s, o, c, v)
    BY <1>2 DEF Attempts!Owner, Proved!Owner, Attempts!Version, Proved!Version,
       Attempts!Start, Proved!Start, Attempts!InsertSession, Proved!InsertSession
  <1>3. ASSUME NEW s \in SessionId, NEW option \in Attempts!Outcome,
               Attempts!Answer(s, option)
        PROVE  option \in Proved!Outcome /\ Proved!Answer(s, option)
    <2>1. Attempts!PathPosition(Attempts!Cardinality(Attempts!AnswersOf(s)))
            = Proved!PathPosition(Proved!Cardinality(Proved!AnswersOf(s)))
      BY DEF Attempts!PathPosition, Proved!PathPosition, Attempts!Cardinality,
         Proved!Cardinality
    <2> QED BY <1>3, <2>1 DEF Attempts!Outcome, Proved!Outcome, Attempts!Answer,
            Proved!Answer, Attempts!ApplyAnswer, Proved!ApplyAnswer, Attempts!ResolveNext,
            Proved!ResolveNext, Attempts!IsTerminal, Proved!IsTerminal, Attempts!Advanced,
            Proved!Advanced, Attempts!Weights, Proved!Weights
  <1>4. ASSUME NEW s \in SessionId, Attempts!Abandon(s)
        PROVE  Proved!Abandon(s)
    BY <1>4 DEF Attempts!Abandon, Proved!Abandon, Attempts!UpdateAbandoned,
       Proved!UpdateAbandoned
  <1>5. ASSUME NEW g \in Guest, NEW u \in User, Attempts!Claim(g, u)
        PROVE  Proved!Claim(g, u)
    BY <1>5 DEF Attempts!Claim, Proved!Claim, Attempts!Move, Proved!Move,
       Attempts!SessionsOf, Proved!SessionsOf, Attempts!ClaimConflict, Proved!ClaimConflict,
       Attempts!UpdateOwner, Proved!UpdateOwner
  <1>6. ASSUME NEW c \in Code, Attempts!Publish(c)
        PROVE  Proved!Publish(c)
    BY <1>6 DEF Attempts!Publish, Proved!Publish, Attempts!PublishNext, Proved!PublishNext
  <1> QED BY <1>1, <1>2, <1>3, <1>4, <1>5, <1>6 DEF Attempts!Next, Proved!Next

-----------------------------------------------------------------------------
(* Each action on the tables is one of Attempt's.                          *)
LEMMA CreateStarts ==
  ASSUME HInv, TablesOK, NEW h \in Handler, StartCreate(h), ~UNCHANGED tables
  PROVE  Attempts!Next
  <1> DEFINE l == loc[h]
  <1>1. l.owner \in Owner /\ l.code \in Code /\ l.version \in Version(l.code)
        /\ l.version \in 1..active[l.code]
    BY DEF HInv, HandlersOK, Located, StartCreate, Starting
  <1>2. PICK s \in SessionId \ DOMAIN sessions :
          /\ ActiveSessions(l.owner, l.code) = {}
          /\ InsertSession(s, l.owner, l.code, l.version)
          /\ UNCHANGED <<answers, active>>
    BY DEF StartCreate
  <1>3. Attempts!Start(s, l.owner, l.code, l.version)
    BY <1>1, <1>2 DEF Attempts!Start, ActiveSessions, Attempts!ActiveSessions, InsertSession,
       Attempts!InsertSession
  <1> QED BY <1>1, <1>3 DEF Attempts!Next, Owner, Attempts!Owner, Version, Attempts!Version

LEMMA CommitAnswers ==
  ASSUME HInv, TablesOK, NEW h \in Handler, SaveCommit(h)
  PROVE  LET l == loc[h]
         IN  /\ Attempts!Next
             /\ l.sid \in DOMAIN sessions
             /\ l.step = sessions[l.sid].step
             /\ l.option \in Outcome
             /\ sessions[l.sid].status # "completed"
             /\ AnswersTo(l.sid, l.step) = {}
             /\ l.position = PathPosition(Cardinality(AnswersOf(l.sid)))
  <1> DEFINE l == loc[h]
  <1>1. /\ Located(h) /\ Fresh(h) /\ pc[h] = "updated"
        /\ ApplyAnswer(l.sid, l.step, l.option, l.position) /\ UNCHANGED active
    BY DEF HInv, HandlersOK, SaveCommit
  <1>2. /\ l.sid \in DOMAIN sessions /\ l.option \in Outcome /\ l.status = "in_progress"
        /\ AnswersTo(l.sid, l.step) = {}
    BY <1>1 DEF Located, Fresh, Submitting
  <1>3. /\ l.step = sessions[l.sid].step
        /\ sessions[l.sid].status # "completed"
        /\ l.position = PathPosition(Cardinality(AnswersOf(l.sid)))
    BY <1>1, <1>2 DEF Fresh, Submitting
  <1>4. Attempts!PathPosition(Attempts!Cardinality(Attempts!AnswersOf(l.sid)))
          = PathPosition(Cardinality(AnswersOf(l.sid)))
    BY DEF Attempts!PathPosition, PathPosition, Attempts!AnswersOf, AnswersOf,
       Attempts!Cardinality, Cardinality
  <1>5. l.sid \in SessionId
    BY <1>2 DEF TablesOK, TypeOK
  <1>6. Attempts!Answer(l.sid, l.option)
    BY <1>1, <1>2, <1>3, <1>4 DEF Attempts!Answer, Attempts!AnswersTo, AnswersTo, ApplyAnswer,
       Attempts!ApplyAnswer, ScenarioOf, Attempts!ScenarioOf, ResolveNext,
       Attempts!ResolveNext, IsTerminal, Attempts!IsTerminal, Advanced, Attempts!Advanced,
       Weights, Attempts!Weights
  <1> QED BY <1>2, <1>3, <1>5, <1>6 DEF Attempts!Next, Outcome, Attempts!Outcome

LEMMA OldAbandons ==
  ASSUME HInv, TablesOK, NEW h \in Handler, StartAbandonOld(h), ~UNCHANGED tables
  PROVE  Attempts!Next
  <1>1. loc[h].sid \in DOMAIN sessions
    BY DEF HInv, HandlersOK, Located, StartAbandonOld
  <1>2. Attempts!Abandon(loc[h].sid)
    BY <1>1 DEF StartAbandonOld, Attempts!Abandon, UpdateAbandoned, Attempts!UpdateAbandoned
  <1> QED BY <1>1, <1>2 DEF Attempts!Next, TablesOK, TypeOK

LEMMA ExecAbandons ==
  ASSUME HInv, TablesOK, NEW h \in Handler, AbandonExec(h), ~UNCHANGED tables
  PROVE  Attempts!Next
  <1>1. loc[h].sid \in DOMAIN sessions
    BY DEF HInv, HandlersOK, Located, AbandonExec
  <1>2. Attempts!Abandon(loc[h].sid)
    BY <1>1 DEF AbandonExec, Attempts!Abandon, UpdateAbandoned, Attempts!UpdateAbandoned
  <1> QED BY <1>1, <1>2 DEF Attempts!Next, TablesOK, TypeOK

(* A claim that commits finds its rows as they were when it passed them.   *)
LEMMA GuestClaims ==
  ASSUME HInv, TablesOK, NEW h \in Handler, ClaimCommit(h)
  PROVE  /\ Attempts!Next
         /\ \A s \in loc[h].attempts : s \in DOMAIN sessions' /\ sessions'[s].owner \in User
  <1> DEFINE l == loc[h]
  <1>1. /\ Claims(l) /\ l.rows = {} /\ l.sid = None
        /\ UpdateOwner(l.moved, l.owner) /\ UNCHANGED <<answers, active>>
    BY DEF HInv, ClaimsOK, ClaimOK, ClaimCommit, Claiming
  <1>2. None \notin l.attempts
    BY SessionIdAssumption DEF HInv, LocalsOK, Local
  <1>3. l.moved \in SUBSET Attempts!SessionsOf(l.guest)
    BY <1>1 DEF Claims, Attempts!SessionsOf
  <1>4. \A s \in l.moved : sessions[s].status = "in_progress" =>
                             ActiveSessions(l.owner, sessions[s].code) = {}
    BY <1>1, <1>2 DEF Claims
  <1>5. Attempts!Move(l.moved, l.owner)
    BY <1>1, <1>4 DEF Attempts!Move, Attempts!ClaimConflict, ActiveSessions,
       Attempts!ActiveSessions, UpdateOwner, Attempts!UpdateOwner
  <1>6. Attempts!Claim(l.guest, l.owner) /\ l.guest \in Guest /\ l.owner \in User
    BY <1>1, <1>3, <1>5 DEF Attempts!Claim, Claims
  <1>7. Attempts!Next
    BY <1>6 DEF Attempts!Next
  <1>8. ASSUME NEW s \in l.attempts
        PROVE  s \in DOMAIN sessions' /\ sessions'[s].owner \in User
    <2>1. s \in DOMAIN sessions /\ (s \in l.moved \/ sessions[s].owner \in User)
      BY <1>1, <1>2 DEF Claims
    <2>2. DOMAIN sessions' = DOMAIN sessions
      BY <1>1 DEF UpdateOwner
    <2>3. CASE s \in l.moved
      <3>1. sessions'[s] = [sessions[s] EXCEPT !.owner = l.owner]
        BY <1>1, <2>1, <2>3 DEF UpdateOwner
      <3>2. sessions[s] \in SessionRow
        BY <2>1 DEF TablesOK, TypeOK
      <3>3. sessions'[s].owner = l.owner
        BY <3>1, <3>2 DEF SessionRow
      <3> QED BY <1>1, <2>1, <2>2, <3>3 DEF Claims
    <2>4. CASE s \notin l.moved
      BY <1>1, <2>1, <2>2, <2>4 DEF UpdateOwner
    <2> QED BY <2>3, <2>4
  <1> QED BY <1>7, <1>8

(* The other actions of a handler only read.                               *)
Reads(h) ==
  \/ StartLoad(h) \/ StartFind(h) \/ StartConflict(h) \/ SubmitGet(h) \/ SubmitCheck(h)
  \/ SubmitResolve(h) \/ SaveInsert(h) \/ SaveUpdate(h) \/ AbandonGet(h)
  \/ ClaimStart(h) \/ ClaimRow(h) \/ ClaimKey(h)
  \/ CardLoad(h) \/ CardStats(h) \/ CardActive(h)
  \/ Finish(h) \/ Fail(h) \/ DeadlockDetected(h)

LEMMA Reading ==
  ASSUME NEW h \in Handler, Reads(h)
  PROVE  UNCHANGED tables
  BY DEF Reads, StartLoad, StartFind, StartConflict, SubmitGet, SubmitCheck, SubmitResolve,
     SaveInsert, SaveUpdate, AbandonGet, ClaimStart, ClaimRow, ClaimKey, CardLoad, CardStats,
     CardActive, Finish, Fail, DeadlockDetected

LEMMA TablesStep ==
  ASSUME HInv, TablesOK, [Next]_vars
  PROVE  [Attempts!Next]_(Attempts!tables)
  <1> USE DEF tables, Attempts!tables
  <1>1. ASSUME NEW c \in Code, Publish(c)
        PROVE  Attempts!Next
    BY <1>1 DEF Publish, Attempts!Publish, PublishNext, Attempts!PublishNext, Attempts!Next
  <1>2. ASSUME NEW h \in Handler, Arrive(h) \/ Proceed(h) \/ Fail(h)
        PROVE  [Attempts!Next]_(Attempts!tables)
    <2>1. CASE Reads(h)
      BY <2>1, Reading
    <2>2. CASE ClaimCommit(h) \/ StartAbandonOld(h) \/ StartCreate(h) \/ SaveCommit(h)
               \/ AbandonExec(h)
      BY <2>2, CreateStarts, CommitAnswers, OldAbandons, ExecAbandons, GuestClaims
    <2> QED BY <1>2, <2>1, <2>2 DEF Arrive, Proceed, Reads
  <1>3. CASE UNCHANGED vars
    BY <1>3 DEF vars
  <1> QED BY <1>1, <1>2, <1>3 DEF Next

-----------------------------------------------------------------------------
(* What a step leaves to the handlers that do not take it.                 *)
Kept(s) ==
  /\ s \in DOMAIN sessions'
  /\ sessions'[s].step = sessions[s].step
  /\ (sessions'[s].status = "completed") <=> (sessions[s].status = "completed")
  /\ AnswersOf(s)' = AnswersOf(s)

Older == \A c \in Code : 1..active[c] \subseteq 1..active'[c]

LEMMA AnswersToFromOf ==
  /\ \A s, st : AnswersTo(s, st) = {r \in AnswersOf(s) : r.step = st}
  /\ \A s, st : AnswersTo(s, st)' = {r \in AnswersOf(s)' : r.step = st}
  BY DEF AnswersTo, AnswersOf

(* What a step leaves to the cards that show a session.                    *)
Lasting(s) ==
  /\ s \in DOMAIN sessions'
  /\ sessions'[s].code = sessions[s].code
  /\ sessions[s].owner \in User => sessions'[s].owner = sessions[s].owner
  /\ sessions'[s].owner = sessions[s].owner \/ sessions'[s].owner \in User
  /\ sessions[s].status = "completed" => sessions'[s].status = "completed"
  /\ sessions'[s].status = "in_progress" => sessions[s].status = "in_progress"

LEMMA AllLast ==
  ASSUME TablesOK, [Attempts!Next]_(Attempts!tables)
  PROVE  \A s \in DOMAIN sessions : Lasting(s)
  <1> SUFFICES ASSUME NEW s \in DOMAIN sessions
               PROVE  Lasting(s)
    OBVIOUS
  <1>1. sessions[s] \in SessionRow
    BY DEF TablesOK, TypeOK
  <1>2. CASE sessions' = sessions
    BY <1>2 DEF Lasting
  <1>3. ASSUME NEW n \in SessionId, NEW o, NEW c, NEW v, Attempts!Start(n, o, c, v)
        PROVE  Lasting(s)
    BY <1>3 DEF Attempts!Start, Attempts!InsertSession, Lasting
  <1>4. ASSUME NEW n \in SessionId, NEW option, Attempts!Answer(n, option)
        PROVE  Lasting(s)
    BY <1>1, <1>4 DEF Attempts!Answer, Attempts!ApplyAnswer, Attempts!Advanced, SessionRow,
       Lasting
  <1>5. ASSUME NEW n \in SessionId, Attempts!Abandon(n)
        PROVE  Lasting(s)
    BY <1>1, <1>5 DEF Attempts!Abandon, Attempts!UpdateAbandoned, SessionRow, Lasting
  <1>6. ASSUME NEW g \in Guest, NEW u \in User, Attempts!Claim(g, u)
        PROVE  Lasting(s)
    <2>1. PICK S \in SUBSET Attempts!SessionsOf(g) : Attempts!UpdateOwner(S, u)
      BY <1>6 DEF Attempts!Claim, Attempts!Move
    <2>2. s \in S => sessions[s].owner = g
      BY DEF Attempts!SessionsOf
    <2> QED BY <1>1, <2>1, <2>2, OwnersAssumption DEF Attempts!UpdateOwner, SessionRow, Lasting
  <1>7. ASSUME NEW c \in Code, Attempts!Publish(c)
        PROVE  Lasting(s)
    BY <1>2, <1>7 DEF Attempts!Publish
  <1> QED BY <1>2, <1>3, <1>4, <1>5, <1>6, <1>7 DEF Attempts!Next, Attempts!tables

LEMMA CardStable ==
  ASSUME TablesOK, NEW l, CardHolds(l), \A s \in DOMAIN sessions : Lasting(s)
  PROVE  CardHolds(l)'
  <1>1. ASSUME NEW s \in SessionsOf(l.owner), l.owner \in User
        PROVE  /\ s \in SessionsOf(l.owner)'
               /\ sessions'[s].code = sessions[s].code
               /\ sessions[s].status = "completed" => sessions'[s].status = "completed"
    BY <1>1 DEF SessionsOf, Lasting
  <1>2. None \notin DOMAIN sessions
    BY SessionIdAssumption DEF TablesOK, TypeOK
  <1>3. CASE l.owner \in User
    BY <1>1, <1>3 DEF CardHolds
  <1>4. CASE l.attempts \cup {l.sid} = {None}
    <2>1. l.sid = None /\ None \notin l.attempts
      BY <1>2, <1>4 DEF CardHolds, SessionsOf
    <2>2. l.attempts = {}
      BY <1>4, <2>1
    <2> QED BY <2>1, <2>2 DEF CardHolds
  <1> QED BY <1>3, <1>4 DEF CardHolds

HandlerOK(h) == Located(h) /\ Fresh(h) /\ Confirmed(loc[h])

LEMMA StableHandler ==
  ASSUME TablesOK, NEW h \in Handler, HandlerOK(h), pc'[h] = pc[h], loc'[h] = loc[h],
         Older, answers \subseteq answers',
         \A s \in DOMAIN sessions : Lasting(s),
         pc[h] \in Submitting /\ loc[h].status = "in_progress" =>
           Kept(loc[h].sid) \/ AnswersTo(loc[h].sid, loc[h].step)' # {},
         pc[h] \in {"inserted", "updated"} => Kept(loc[h].sid)
  PROVE  HandlerOK(h)'
  <1> DEFINE l == loc[h]
  <1> PICK c : c = loc[h]
    OBVIOUS
  <1>0. c = loc'[h] /\ (CardHolds(c) => CardHolds(c)')
    BY CardStable
  <1>1. Located(h)'
    <2>1. pc[h] = "cardActive" => CardHolds(c)'
      BY <1>0 DEF HandlerOK, Located
    <2> QED BY <1>0, <2>1 DEF HandlerOK, Located, Older, Version, Lasting
  <1>2. Fresh(h)'
    <2>1. ASSUME pc[h] \in Submitting, l.status = "in_progress",
                 AnswersTo(l.sid, l.step)' = {}
          PROVE  /\ sessions'[l.sid].step = l.step
                 /\ sessions'[l.sid].status # "completed"
                 /\ pc[h] \in {"ready", "inserted", "updated"} =>
                      l.position = PathPosition(Cardinality(AnswersOf(l.sid)'))
      <3>1. Kept(l.sid)
        BY <2>1
      <3>2. AnswersTo(l.sid, l.step) = {} /\ AnswersOf(l.sid)' = AnswersOf(l.sid)
        BY <2>1, <3>1, AnswersToFromOf DEF Kept
      <3>3. Cardinality(AnswersOf(l.sid)') = Cardinality(AnswersOf(l.sid))
        BY <3>2
      <3> QED BY <2>1, <3>1, <3>2, <3>3 DEF HandlerOK, Fresh, Kept
    <2>2. pc[h] \in {"inserted", "updated"} => AnswersTo(l.sid, l.step)' = {}
      BY AnswersToFromOf DEF HandlerOK, Fresh, Kept
    <2> QED BY <2>1, <2>2 DEF Fresh
  <1>3. Confirmed(loc[h])'
    <2>1. c.reply = "card" => CardHolds(c)'
      BY <1>0 DEF HandlerOK, Confirmed
    <2>2. c.reply = "claimed" =>
            \A s \in c.attempts : s \in DOMAIN sessions' /\ sessions'[s].owner \in User
      BY <1>0 DEF HandlerOK, Confirmed, Lasting
    <2> QED BY <1>0, <2>1, <2>2 DEF HandlerOK, Confirmed, AnswersTo
  <1> QED BY <1>1, <1>2, <1>3 DEF HandlerOK

(* Every action but SaveCommit keeps the walk of every session.            *)
AllKept ==
  /\ answers' = answers
  /\ Older
  /\ \A s \in DOMAIN sessions : Kept(s)

LEMMA SameKept ==
  ASSUME UNCHANGED <<answers, active>>,
         \A s \in DOMAIN sessions : s \in DOMAIN sessions' /\ sessions'[s] = sessions[s]
  PROVE  AllKept
  BY DEF AllKept, Kept, Older, AnswersOf

LEMMA AbandonKept ==
  ASSUME TablesOK, NEW s \in DOMAIN sessions, sessions[s].status = "in_progress",
         UpdateAbandoned(s), UNCHANGED <<answers, active>>
  PROVE  AllKept
  <1>1. sessions[s] \in SessionRow
    BY DEF TablesOK, TypeOK
  <1>2. /\ sessions'[s].step = sessions[s].step /\ sessions'[s].status = "abandoned"
        /\ DOMAIN sessions' = DOMAIN sessions
        /\ \A t \in DOMAIN sessions \ {s} : sessions'[t] = sessions[t]
    BY <1>1 DEF UpdateAbandoned, SessionRow
  <1> QED BY <1>2 DEF AllKept, Kept, Older, AnswersOf

LEMMA ClaimKept ==
  ASSUME TablesOK, NEW S, NEW u, UpdateOwner(S, u), UNCHANGED <<answers, active>>
  PROVE  AllKept
  <1>1. ASSUME NEW s \in DOMAIN sessions
        PROVE  /\ s \in DOMAIN sessions'
               /\ sessions'[s].step = sessions[s].step
               /\ sessions'[s].status = sessions[s].status
    <2>1. sessions[s] \in SessionRow
      BY DEF TablesOK, TypeOK
    <2> QED BY <2>1 DEF UpdateOwner, SessionRow
  <1> QED BY <1>1 DEF AllKept, Kept, Older, AnswersOf

LEMMA PublishKept ==
  ASSUME TablesOK, NEW c \in Code, Publish(c)
  PROVE  AllKept
  <1>1. Older
    BY ContentAssumption DEF Publish, PublishNext, Older, TablesOK, TypeOK, Version
  <1> QED BY <1>1 DEF AllKept, Kept, AnswersOf, Publish

LEMMA StepKept ==
  ASSUME TablesOK, HInv, NEW h \in Handler, Arrive(h) \/ Proceed(h) \/ Fail(h),
         ~SaveCommit(h)
  PROVE  AllKept
  <1>1. CASE Reads(h)
    BY <1>1, Reading, SameKept DEF tables
  <1>2. CASE ClaimCommit(h)
    BY <1>2, ClaimKept DEF ClaimCommit
  <1>3. CASE StartAbandonOld(h)
    <2>1. loc[h].sid \in DOMAIN sessions
      BY <1>3 DEF HInv, HandlersOK, Located, StartAbandonOld
    <2> QED BY <1>3, <2>1, AbandonKept, SameKept DEF StartAbandonOld, tables
  <1>4. CASE StartCreate(h)
    BY <1>4, SameKept DEF StartCreate, InsertSession, tables
  <1>5. CASE AbandonExec(h)
    <2>1. loc[h].sid \in DOMAIN sessions
      BY <1>5 DEF HInv, HandlersOK, Located, AbandonExec
    <2> QED BY <1>5, <2>1, AbandonKept, SameKept DEF AbandonExec, tables
  <1> QED BY <1>1, <1>2, <1>3, <1>4, <1>5 DEF Arrive, Proceed, Reads

(* SaveCommit answers the step its session stands at.                      *)
LEMMA CommitKept ==
  ASSUME TablesOK, HInv, NEW h \in Handler, SaveCommit(h)
  PROVE  LET l == loc[h]
             new == [sid |-> l.sid, step |-> l.step, option |-> l.option,
                     position |-> l.position]
         IN  /\ Older
             /\ answers' = answers \cup {new}
             /\ \A s \in DOMAIN sessions : s \in DOMAIN sessions'
             /\ \A s \in DOMAIN sessions \ {l.sid} : Kept(s)
  <1> DEFINE l == loc[h]
  <1>1. ApplyAnswer(l.sid, l.step, l.option, l.position) /\ UNCHANGED active
    BY DEF SaveCommit
  <1>2. /\ answers' = answers \cup {[sid |-> l.sid, step |-> l.step, option |-> l.option,
                                     position |-> l.position]}
        /\ DOMAIN sessions' = DOMAIN sessions
        /\ \A s \in DOMAIN sessions \ {l.sid} : sessions'[s] = sessions[s]
    BY <1>1 DEF ApplyAnswer
  <1>3. \A s \in DOMAIN sessions \ {l.sid} : AnswersOf(s)' = AnswersOf(s)
    BY <1>2 DEF AnswersOf
  <1> QED BY <1>1, <1>2, <1>3 DEF Kept, Older

(* The other handlers are not disturbed.                                   *)
LEMMA OthersOK ==
  ASSUME TablesOK, HInv, NEW h \in Handler, Arrive(h) \/ Proceed(h) \/ Fail(h),
         NEW k \in Handler \ {h}, pc'[k] = pc[k], loc'[k] = loc[k]
  PROVE  HandlerOK(k)'
  <1>0. \A s \in DOMAIN sessions : Lasting(s)
    BY TablesStep, AllLast DEF Next
  <1>1. HandlerOK(k)
    BY DEF HInv, HandlersOK, HandlerOK
  <1>2. pc[k] \in Submitting => loc[k].sid \in DOMAIN sessions
    BY DEF HInv, HandlersOK, Located
  <1>3. CASE ~SaveCommit(h)
    <2>1. AllKept
      BY <1>3, StepKept
    <2> QED BY <1>0, <1>1, <1>2, <2>1, StableHandler DEF AllKept, Submitting, Kept
  <1>4. CASE SaveCommit(h)
    <2>1. pc[k] \in {"inserted", "updated"} => loc[k].sid # loc[h].sid
      BY <1>4 DEF HInv, Exclusive, SaveCommit
    <2>2. pc[k] \in {"inserted", "updated"} => Kept(loc[k].sid)
      BY <1>2, <1>4, <2>1, CommitKept DEF Submitting
    <2>3. ASSUME pc[k] \in Submitting, loc[k].status = "in_progress",
                 loc[k].sid = loc[h].sid
          PROVE  AnswersTo(loc[k].sid, loc[k].step)' # {}
      <3>1. CASE AnswersTo(loc[k].sid, loc[k].step) = {}
        <4>1. sessions[loc[k].sid].step = loc[k].step
          BY <1>1, <2>3, <3>1 DEF HandlerOK, Fresh
        <4>2. loc[k].step = loc[h].step
          BY <1>4, <2>3, <4>1, CommitAnswers
        <4> DEFINE new == [sid |-> loc[h].sid, step |-> loc[h].step,
                           option |-> loc[h].option, position |-> loc[h].position]
        <4>3. new \in answers' /\ new.sid = loc[k].sid /\ new.step = loc[k].step
          BY <1>4, <2>3, <4>2, CommitKept
        <4> HIDE DEF new
        <4> QED BY <4>3 DEF AnswersTo
      <3>2. CASE AnswersTo(loc[k].sid, loc[k].step) # {}
        BY <1>4, <3>2, CommitKept DEF AnswersTo
      <3> QED BY <3>1, <3>2
    <2> QED BY <1>0, <1>1, <1>2, <1>4, <2>2, <2>3, CommitKept, StableHandler DEF Submitting
  <1> QED BY <1>3, <1>4

-----------------------------------------------------------------------------
(* What a step does to the handler that takes it.                          *)
Moved(h, to, l) ==
  /\ pc' = [pc EXCEPT ![h] = to]
  /\ loc' = [loc EXCEPT ![h] = l]

LEMMA MovedOK ==
  ASSUME LocalsOK, NEW h \in Handler, NEW to \in PC, NEW l \in Local, Moved(h, to, l)
  PROVE  /\ LocalsOK'
         /\ pc'[h] = to /\ loc'[h] = l
         /\ \A k \in Handler \ {h} : pc'[k] = pc[k] /\ loc'[k] = loc[k]
  BY DEF LocalsOK, Moved

LEMMA NoLocalOK ==
  /\ NoLocal \in Local
  /\ NoLocal.reply = "none"
  BY DEF NoLocal, Local, Reply

(* A handler that responds or is idle has nothing left to go wrong but its *)
(* reply.                                                                  *)
LEMMA RestOK ==
  ASSUME NEW h \in Handler, pc'[h] \in {"idle", "done"}, Confirmed(loc[h])',
         pc'[h] = "idle" => loc'[h].reply = "none"
  PROVE  HandlerOK(h)'
  BY DEF HandlerOK, Located, Fresh, Starting, Submitting

(* The step of handler h is fine for h itself.                             *)
OwnOK(h) ==
  /\ LocalsOK'
  /\ \A k \in Handler \ {h} : pc'[k] = pc[k] /\ loc'[k] = loc[k]
  /\ HandlerOK(h)'

(* Replies that confirm nothing.                                           *)
Plain == Reply \ {"saved", "alreadyAnswered", "card", "claimed"}

LEMMA PlainReply ==
  ASSUME LocalsOK, NEW h \in Handler, NEW reply \in Plain,
         \/ Respond(h, reply, NoLocal)
         \/ \E s \in SessionId : Respond(h, reply, [NoLocal EXCEPT !.sid = s])
  PROVE  OwnOK(h)
  <1>1. PICK l \in Local : Moved(h, "done", l) /\ l.reply = reply
    <2>1. ASSUME NEW s \in SessionId \cup {None}
          PROVE  /\ [[NoLocal EXCEPT !.sid = s] EXCEPT !.reply = reply] \in Local
                 /\ [[NoLocal EXCEPT !.sid = s] EXCEPT !.reply = reply].reply = reply
      BY DEF NoLocal, Local, Plain
    <2>2. /\ [NoLocal EXCEPT !.reply = reply] \in Local
          /\ [NoLocal EXCEPT !.reply = reply].reply = reply
      BY DEF NoLocal, Local, Plain
    <2> QED BY <2>1, <2>2 DEF Respond, Goto, Set, Moved
  <1>2. LocalsOK' /\ pc'[h] = "done" /\ loc'[h] = l
        /\ \A k \in Handler \ {h} : pc'[k] = pc[k] /\ loc'[k] = loc[k]
    BY <1>1, MovedOK DEF PC
  <1>3. Confirmed(loc[h])'
    BY <1>1, <1>2 DEF Confirmed, Plain
  <1> QED BY <1>2, <1>3, RestOK DEF OwnOK

LEMMA OwnLoad ==
  ASSUME TablesOK, HInv, NEW h \in Handler, StartLoad(h)
  PROVE  OwnOK(h)
  <1>1. PICK to \in {"find", "create"}, o \in Owner, c \in Code :
          Moved(h, to, [NoLocal EXCEPT !.owner = o, !.code = c, !.version = active[c]])
    BY DEF StartLoad, Goto, Set, Moved
  <1> DEFINE l == [NoLocal EXCEPT !.owner = o, !.code = c, !.version = active[c]]
  <1>2. active[c] \in Nat /\ active[c] \in Version(c) /\ active[c] \in 1..active[c]
    BY ContentAssumption DEF TablesOK, TypeOK, Version
  <1>3. l \in Local /\ l.owner = o /\ l.code = c /\ l.version = active[c] /\ l.reply = "none"
    BY <1>2 DEF NoLocal, Local, Reply
  <1>4. OwnOK(h) <=> HandlerOK(h)'
    BY <1>1, <1>3, MovedOK DEF OwnOK, PC, Starting, HInv
  <1>5. pc'[h] = to /\ loc'[h] = l /\ active' = active
    BY <1>1, <1>3, MovedOK DEF PC, Starting, HInv, StartLoad, tables
  <1> HIDE DEF l
  <1> QED BY <1>2, <1>3, <1>4, <1>5 DEF HandlerOK, Located, Fresh, Confirmed, Starting,
          Submitting

LEMMA OwnFind ==
  ASSUME TablesOK, HInv, NEW h \in Handler, StartFind(h)
  PROVE  OwnOK(h)
  <1>1. /\ loc[h] \in Local /\ pc[h] = "find" /\ Located(h) /\ Confirmed(loc[h])
        /\ UNCHANGED tables
    BY DEF HInv, HandlersOK, LocalsOK, StartFind
  <1>2. ASSUME NEW s \in ActiveSessions(loc[h].owner, loc[h].code),
               Moved(h, "abandonOld", [loc[h] EXCEPT !.sid = s])
        PROVE  OwnOK(h)
    <2> DEFINE l == [loc[h] EXCEPT !.sid = s]
    <2>1. s \in DOMAIN sessions /\ s \in SessionId
      BY DEF ActiveSessions, TablesOK, TypeOK
    <2>2. /\ l \in Local /\ l.owner = loc[h].owner /\ l.code = loc[h].code
          /\ l.version = loc[h].version /\ l.sid = s
      BY <1>1, <2>1 DEF Local
    <2>3. l.reply = "none"
      BY <1>1 DEF Local, Located
    <2>4. /\ LocalsOK' /\ pc'[h] = "abandonOld" /\ loc'[h] = l
          /\ \A k \in Handler \ {h} : pc'[k] = pc[k] /\ loc'[k] = loc[k]
      BY <1>2, <2>2, MovedOK DEF PC, Starting, HInv
    <2> HIDE DEF l
    <2> QED BY <1>1, <2>1, <2>2, <2>3, <2>4 DEF OwnOK, HandlerOK, Located, Fresh, Confirmed,
            Starting, Submitting, tables
  <1>3. ASSUME Moved(h, "create", loc[h])
        PROVE  OwnOK(h)
    <2>1. /\ LocalsOK' /\ pc'[h] = "create" /\ loc'[h] = loc[h]
          /\ \A k \in Handler \ {h} : pc'[k] = pc[k] /\ loc'[k] = loc[k]
      BY <1>1, <1>3, MovedOK DEF PC, Starting, HInv
    <2> QED BY <1>1, <2>1 DEF OwnOK, HandlerOK, Located, Fresh, Confirmed, AnswersTo,
            Starting, Submitting, tables
  <1>4. loc' = loc => loc' = [loc EXCEPT ![h] = loc[h]]
    BY DEF HInv, LocalsOK
  <1> QED BY <1>2, <1>3, <1>4 DEF StartFind, Goto, Set, Moved

LEMMA OwnAbandonOld ==
  ASSUME TablesOK, HInv, NEW h \in Handler, StartAbandonOld(h)
  PROVE  OwnOK(h)
  <1> DEFINE l == [loc[h] EXCEPT !.sid = None]
  <1>1. loc[h] \in Local /\ pc[h] = "abandonOld" /\ Located(h) /\ UNCHANGED active
    BY DEF HInv, HandlersOK, LocalsOK, StartAbandonOld, tables
  <1>2. ASSUME Moved(h, "create", l)
        PROVE  OwnOK(h)
    <2>1. /\ l \in Local /\ l.owner = loc[h].owner /\ l.code = loc[h].code
          /\ l.version = loc[h].version /\ l.reply = "none"
      BY <1>1 DEF Local, Located
    <2>2. /\ LocalsOK' /\ pc'[h] = "create" /\ loc'[h] = l
          /\ \A k \in Handler \ {h} : pc'[k] = pc[k] /\ loc'[k] = loc[k]
      BY <1>2, <2>1, MovedOK DEF PC, Starting, HInv
    <2> HIDE DEF l
    <2> QED BY <1>1, <2>1, <2>2 DEF OwnOK, HandlerOK, Located, Fresh, Confirmed, Starting,
            Submitting
  <1>3. CASE Respond(h, "notFound", NoLocal)
    BY <1>3, PlainReply DEF HInv, Plain, Reply
  <1> QED BY <1>2, <1>3 DEF StartAbandonOld, Goto, Set, Moved

LEMMA OwnCreate ==
  ASSUME TablesOK, HInv, NEW h \in Handler, StartCreate(h)
  PROVE  OwnOK(h)
  <1>1. loc[h] \in Local /\ pc[h] = "create" /\ Located(h) /\ UNCHANGED active
    BY DEF HInv, HandlersOK, LocalsOK, StartCreate, tables
  <1>2. CASE \E s \in SessionId : Respond(h, "created", [NoLocal EXCEPT !.sid = s])
    BY <1>2, PlainReply DEF HInv, Plain, Reply
  <1>3. ASSUME Moved(h, "conflict", loc[h])
        PROVE  OwnOK(h)
    <2>1. /\ LocalsOK' /\ pc'[h] = "conflict" /\ loc'[h] = loc[h]
          /\ \A k \in Handler \ {h} : pc'[k] = pc[k] /\ loc'[k] = loc[k]
      BY <1>1, <1>3, MovedOK DEF PC, Starting, HInv
    <2> QED BY <1>1, <2>1 DEF OwnOK, HandlerOK, Located, Fresh, Confirmed, Starting,
            Submitting
  <1>4. loc' = loc => loc' = [loc EXCEPT ![h] = loc[h]]
    BY DEF HInv, LocalsOK
  <1> QED BY <1>2, <1>3, <1>4 DEF StartCreate, Goto, Moved

LEMMA OwnConflict ==
  ASSUME TablesOK, HInv, NEW h \in Handler, StartConflict(h)
  PROVE  OwnOK(h)
  <1>1. ActiveSessions(loc[h].owner, loc[h].code) \subseteq SessionId
    BY DEF ActiveSessions, TablesOK, TypeOK
  <1> QED BY <1>1, PlainReply DEF StartConflict, HInv, Plain, Reply

LEMMA OwnGet ==
  ASSUME TablesOK, HInv, NEW h \in Handler, NEW to \in {"check", "abandon"}, Get(h, to),
         UNCHANGED tables
  PROVE  OwnOK(h)
  <1>1. CASE Respond(h, "notFound", NoLocal)
    BY <1>1, PlainReply DEF HInv, Plain, Reply
  <1>2. ASSUME NEW s \in DOMAIN sessions,
               Moved(h, to, [NoLocal EXCEPT !.sid = s, !.status = sessions[s].status,
                                            !.step = sessions[s].step])
        PROVE  OwnOK(h)
    <2> DEFINE l == [NoLocal EXCEPT !.sid = s, !.status = sessions[s].status,
                                    !.step = sessions[s].step]
    <2>1. s \in SessionId /\ sessions[s].status \in Status /\ sessions[s].step \in Step \cup {None}
      BY DEF TablesOK, TypeOK, SessionRow
    <2>2. /\ l \in Local /\ l.sid = s /\ l.status = sessions[s].status
          /\ l.step = sessions[s].step /\ l.reply = "none"
      BY <2>1 DEF NoLocal, Local, Reply
    <2>3. /\ LocalsOK' /\ pc'[h] = to /\ loc'[h] = l
          /\ \A k \in Handler \ {h} : pc'[k] = pc[k] /\ loc'[k] = loc[k]
      BY <1>2, <2>2, MovedOK DEF PC, Submitting, HInv
    <2>4. sessions' = sessions
      BY DEF tables
    <2> HIDE DEF l
    <2> QED BY <2>2, <2>3, <2>4 DEF OwnOK, HandlerOK, Located, Fresh, Confirmed, Starting,
            Submitting
  <1> QED BY <1>1, <1>2 DEF Get, Goto, Set, Moved

(* A reply that shows a stored answer.                                     *)
LEMMA StoredReply ==
  ASSUME LocalsOK, NEW h \in Handler, NEW reply \in {"saved", "alreadyAnswered"},
         NEW s \in SessionId, NEW st \in Step \cup {None}, NEW option \in Outcome,
         Respond(h, reply, [NoLocal EXCEPT !.sid = s, !.step = st, !.option = option]),
         \E r \in answers' : r.sid = s /\ r.step = st /\ r.option = option
  PROVE  OwnOK(h)
  <1> DEFINE l == [[NoLocal EXCEPT !.sid = s, !.step = st, !.option = option]
                     EXCEPT !.reply = reply]
  <1>1. /\ l \in Local /\ l.sid = s /\ l.step = st /\ l.option = option
        /\ l.reply = reply
    BY DEF NoLocal, Local, Reply
  <1>2. Moved(h, "done", l)
    BY DEF Respond, Goto, Set, Moved
  <1>3. /\ LocalsOK' /\ pc'[h] = "done" /\ loc'[h] = l
        /\ \A k \in Handler \ {h} : pc'[k] = pc[k] /\ loc'[k] = loc[k]
    BY <1>1, <1>2, MovedOK DEF PC
  <1> HIDE DEF l
  <1>4. Confirmed(loc[h])'
    BY <1>1, <1>3 DEF Confirmed, AnswersTo
  <1> QED BY <1>3, <1>4, RestOK DEF OwnOK

(* Going on with the same locals.                                          *)
LEMMA SameLocals ==
  ASSUME HInv, NEW h \in Handler, NEW to \in PC, Goto(h, to), UNCHANGED loc
  PROVE  /\ LocalsOK' /\ pc'[h] = to /\ loc'[h] = loc[h]
         /\ \A k \in Handler \ {h} : pc'[k] = pc[k] /\ loc'[k] = loc[k]
  <1>1. LocalsOK /\ loc[h] \in Local /\ loc' = [loc EXCEPT ![h] = loc[h]]
    BY DEF HInv, LocalsOK
  <1>2. Moved(h, to, loc[h])
    BY <1>1 DEF Goto, Moved
  <1> QED BY <1>1, <1>2, MovedOK

LEMMA OwnCheck ==
  ASSUME TablesOK, HInv, NEW h \in Handler, SubmitCheck(h)
  PROVE  OwnOK(h)
  <1>1. /\ Located(h) /\ Fresh(h) /\ pc[h] = "check" /\ UNCHANGED tables
        /\ loc[h].sid \in DOMAIN sessions /\ loc[h].sid \in SessionId
    BY DEF HInv, HandlersOK, SubmitCheck, Located, Submitting, TablesOK, TypeOK
  <1>2. PICK st \in Step :
           \/ \E r \in AnswersTo(loc[h].sid, st) :
                Respond(h, "alreadyAnswered",
                        [NoLocal EXCEPT !.sid = loc[h].sid, !.step = st, !.option = r.option])
           \/ Respond(h, "finished", NoLocal)
           \/ Respond(h, "notCurrent", NoLocal)
           \/ /\ loc[h].status = "in_progress"
              /\ Goto(h, "resolve") /\ UNCHANGED loc
    BY DEF SubmitCheck
  <1>3. ASSUME NEW r \in AnswersTo(loc[h].sid, st),
               Respond(h, "alreadyAnswered",
                       [NoLocal EXCEPT !.sid = loc[h].sid, !.step = st, !.option = r.option])
        PROVE  OwnOK(h)
    <2>1. r.option \in Outcome
      BY DEF AnswersTo, TablesOK, TypeOK, AnswerRow
    <2>2. r \in answers' /\ r.sid = loc[h].sid /\ r.step = st
      BY <1>1 DEF tables, AnswersTo
    <2> QED BY <1>1, <1>3, <2>1, <2>2, StoredReply DEF HInv
  <1>4. CASE Respond(h, "finished", NoLocal) \/ Respond(h, "notCurrent", NoLocal)
    BY <1>4, PlainReply DEF HInv, Plain, Reply
  <1>5. ASSUME loc[h].status = "in_progress", Goto(h, "resolve"), UNCHANGED loc
        PROVE  OwnOK(h)
    <2>1. /\ LocalsOK' /\ pc'[h] = "resolve" /\ loc'[h] = loc[h]
          /\ \A k \in Handler \ {h} : pc'[k] = pc[k] /\ loc'[k] = loc[k]
      BY <1>5, SameLocals DEF PC, Submitting
    <2> QED BY <1>1, <1>5, <2>1 DEF OwnOK, HandlerOK, Located, Fresh, Confirmed, Starting,
            Submitting, tables, AnswersTo
  <1> QED BY <1>2, <1>3, <1>4, <1>5

LEMMA OwnResolve ==
  ASSUME TablesOK, HInv, NEW h \in Handler, SubmitResolve(h)
  PROVE  OwnOK(h)
  <1> DEFINE n == Cardinality(AnswersOf(loc[h].sid))
  <1>1. /\ loc[h] \in Local /\ Located(h) /\ Fresh(h) /\ pc[h] = "resolve"
        /\ UNCHANGED tables
    BY DEF HInv, HandlersOK, LocalsOK, SubmitResolve
  <1>2. n \in Nat
    BY FS_Subset, FS_CardinalityType DEF AnswersOf, TablesOK
  <1>3. ASSUME NEW option \in Pick,
               Goto(h, "ready"),
               Set(h, [loc[h] EXCEPT !.option = option, !.position = PathPosition(n)])
        PROVE  OwnOK(h)
    <2> DEFINE position == PathPosition(n)
               l == [loc[h] EXCEPT !.option = option, !.position = position]
    <2>1. option \in Outcome /\ position \in Nat
      BY <1>2, PickAssumption DEF PathPosition
    <2> HIDE DEF position
    <2>2. /\ l \in Local /\ l.sid = loc[h].sid /\ l.status = loc[h].status
          /\ l.step = loc[h].step /\ l.option = option /\ l.position = position
          /\ l.reply = loc[h].reply
      BY <1>1, <2>1 DEF Local
    <2>3. Moved(h, "ready", l)
      BY <1>3 DEF Goto, Set, Moved, position
    <2>4. /\ LocalsOK' /\ pc'[h] = "ready" /\ loc'[h] = l
          /\ \A k \in Handler \ {h} : pc'[k] = pc[k] /\ loc'[k] = loc[k]
      BY <2>2, <2>3, MovedOK DEF PC, Submitting, HInv
    <2> HIDE DEF l
    <2>5. Located(h)' /\ Confirmed(loc[h])'
      BY <1>1, <2>1, <2>2, <2>4 DEF Located, Confirmed, Starting, Submitting, tables
    <2>6. AnswersTo(loc[h].sid, loc[h].step) = {} =>
            /\ sessions[loc[h].sid].step = loc[h].step
            /\ sessions[loc[h].sid].status # "completed"
      BY <1>1 DEF Fresh, Located, Submitting
    <2>7. Fresh(h)'
      BY <1>1, <2>2, <2>4, <2>6 DEF Fresh, Submitting, tables, AnswersTo, AnswersOf, position
    <2> QED BY <2>4, <2>5, <2>7 DEF OwnOK, HandlerOK
  <1>4. CASE Respond(h, "optionNotFound", NoLocal)
    BY <1>4, PlainReply DEF HInv, Plain, Reply
  <1> QED BY <1>3, <1>4 DEF SubmitResolve

LEMMA OwnInsert ==
  ASSUME TablesOK, HInv, NEW h \in Handler, SaveInsert(h)
  PROVE  OwnOK(h)
  <1>1. Located(h) /\ Fresh(h) /\ pc[h] = "ready" /\ UNCHANGED tables
    BY DEF HInv, HandlersOK, SaveInsert
  <1>2. ASSUME AnswersTo(loc[h].sid, loc[h].step) = {}, Goto(h, "inserted"), UNCHANGED loc
        PROVE  OwnOK(h)
    <2>1. /\ LocalsOK' /\ pc'[h] = "inserted" /\ loc'[h] = loc[h]
          /\ \A k \in Handler \ {h} : pc'[k] = pc[k] /\ loc'[k] = loc[k]
      BY <1>2, SameLocals DEF PC, Submitting
    <2> QED BY <1>1, <1>2, <2>1 DEF OwnOK, HandlerOK, Located, Fresh, Confirmed, Starting,
            Submitting, tables, AnswersTo, AnswersOf
  <1>3. CASE Respond(h, "internal", NoLocal)
    BY <1>3, PlainReply DEF HInv, Plain, Reply
  <1> QED BY <1>2, <1>3 DEF SaveInsert

LEMMA OwnUpdate ==
  ASSUME TablesOK, HInv, NEW h \in Handler, SaveUpdate(h)
  PROVE  OwnOK(h)
  <1>1. Located(h) /\ Fresh(h) /\ pc[h] = "inserted" /\ UNCHANGED tables
    BY DEF HInv, HandlersOK, SaveUpdate
  <1>2. /\ LocalsOK' /\ pc'[h] = "updated" /\ loc'[h] = loc[h]
        /\ \A k \in Handler \ {h} : pc'[k] = pc[k] /\ loc'[k] = loc[k]
    BY SameLocals DEF PC, Submitting, SaveUpdate
  <1> QED BY <1>1, <1>2 DEF OwnOK, HandlerOK, Located, Fresh, Confirmed, Starting,
          Submitting, tables, AnswersTo, AnswersOf

LEMMA OwnCommit ==
  ASSUME TablesOK, HInv, NEW h \in Handler, SaveCommit(h)
  PROVE  OwnOK(h)
  <1> DEFINE l == loc[h]
             new == [sid |-> l.sid, step |-> l.step, option |-> l.option,
                     position |-> l.position]
  <1>1. /\ l.sid \in SessionId /\ l.step \in Step \cup {None} /\ l.option \in Outcome
        /\ LocalsOK
    <2>1. l \in Local /\ LocalsOK
      BY DEF HInv, LocalsOK
    <2> QED BY <2>1, CommitAnswers DEF TablesOK, TypeOK, Local
  <1>2. new \in answers' /\ new.sid = l.sid /\ new.step = l.step /\ new.option = l.option
    BY CommitKept
  <1>3. Respond(h, "saved", [NoLocal EXCEPT !.sid = l.sid, !.step = l.step,
                                            !.option = l.option])
    BY DEF SaveCommit
  <1> HIDE DEF new, l
  <1> QED BY <1>1, <1>2, <1>3, StoredReply

(* A card: the locals so far, and what is shown.                           *)
LEMMA CardReply ==
  ASSUME HInv, NEW h \in Handler, NEW l \in Local, Respond(h, "card", l),
         CardHolds(l)'
  PROVE  OwnOK(h)
  <1> DEFINE m == [l EXCEPT !.reply = "card"]
  <1>1. /\ m \in Local /\ m.reply = "card" /\ m.attempts = l.attempts /\ m.sid = l.sid
        /\ m.owner = l.owner /\ m.code = l.code
    BY DEF Local, Reply
  <1>2. Moved(h, "done", m)
    BY DEF Respond, Goto, Set, Moved
  <1>3. /\ LocalsOK' /\ pc'[h] = "done" /\ loc'[h] = m
        /\ \A k \in Handler \ {h} : pc'[k] = pc[k] /\ loc'[k] = loc[k]
    BY <1>1, <1>2, MovedOK DEF PC, HInv
  <1> HIDE DEF m
  <1>4. Confirmed(loc[h])'
    BY <1>1, <1>3 DEF Confirmed, CardHolds
  <1> QED BY <1>3, <1>4, RestOK DEF OwnOK

LEMMA OwnCardLoad ==
  ASSUME TablesOK, HInv, NEW h \in Handler, CardLoad(h)
  PROVE  OwnOK(h)
  <1>1. ASSUME NEW u \in User, NEW c \in Code,
               Moved(h, "cardStats", [NoLocal EXCEPT !.owner = u, !.code = c])
        PROVE  OwnOK(h)
    <2> DEFINE l == [NoLocal EXCEPT !.owner = u, !.code = c]
    <2>1. /\ l \in Local /\ l.owner = u /\ l.attempts = {} /\ l.sid = None
          /\ l.reply = "none"
      BY DEF NoLocal, Local, Reply, Owner
    <2>2. /\ LocalsOK' /\ pc'[h] = "cardStats" /\ loc'[h] = l
          /\ \A k \in Handler \ {h} : pc'[k] = pc[k] /\ loc'[k] = loc[k]
      BY <1>1, <2>1, MovedOK DEF PC, HInv
    <2> HIDE DEF l
    <2> QED BY <2>1, <2>2 DEF OwnOK, HandlerOK, Located, Fresh, Confirmed, Starting,
            Submitting
  <1>2. CASE Respond(h, "card", NoLocal)
    <2>1. CardHolds(NoLocal)'
      BY DEF CardHolds, NoLocal
    <2> QED BY <1>2, <2>1, NoLocalOK, CardReply
  <1> QED BY <1>1, <1>2 DEF CardLoad, Goto, Set, Moved

LEMMA OwnCardStats ==
  ASSUME TablesOK, HInv, NEW h \in Handler, CardStats(h)
  PROVE  OwnOK(h)
  <1> DEFINE done == {s \in SessionsOf(loc[h].owner) : /\ sessions[s].code = loc[h].code
                                                       /\ sessions[s].status = "completed"}
  <1>1. PICK l : l = [loc[h] EXCEPT !.attempts = done]
    OBVIOUS
  <1>2. /\ loc[h] \in Local /\ pc[h] = "cardStats" /\ Located(h) /\ UNCHANGED tables
    BY DEF HInv, HandlersOK, LocalsOK, CardStats
  <1>3. done \subseteq SessionId
    BY DEF SessionsOf, TablesOK, TypeOK
  <1>4. /\ l \in Local /\ l.attempts = done /\ l.owner = loc[h].owner /\ l.owner \in User
        /\ l.code = loc[h].code /\ l.sid = None /\ l.reply = "none"
    BY <1>1, <1>2, <1>3 DEF Local, Located
  <1>5. CardHolds(l) /\ CardHolds(l)'
    BY <1>2, <1>4 DEF CardHolds, SessionsOf, tables
  <1>6. CASE Moved(h, "cardActive", l)
    <2>1. /\ LocalsOK' /\ pc'[h] = "cardActive" /\ loc'[h] = l
          /\ \A k \in Handler \ {h} : pc'[k] = pc[k] /\ loc'[k] = loc[k]
      BY <1>4, <1>6, MovedOK DEF PC, HInv
    <2>2. CardHolds(loc[h])'
      BY <1>5, <2>1 DEF CardHolds
    <2> QED BY <1>4, <2>1, <2>2 DEF OwnOK, HandlerOK, Located, Fresh, Confirmed, Starting,
            Submitting
  <1>7. CASE Respond(h, "card", l)
    BY <1>4, <1>5, <1>7, CardReply
  <1> QED BY <1>1, <1>6, <1>7 DEF CardStats, Goto, Set, Moved

LEMMA OwnCardActive ==
  ASSUME TablesOK, HInv, NEW h \in Handler, CardActive(h)
  PROVE  OwnOK(h)
  <1>1. PICK c : c = loc[h]
    OBVIOUS
  <1>2. /\ c \in Local /\ pc[h] = "cardActive" /\ UNCHANGED tables
        /\ CardHolds(c) /\ c.owner \in User /\ c.sid = None
    BY <1>1 DEF HInv, HandlersOK, LocalsOK, CardActive, Located
  <1>3. CardHolds(c)'
    BY <1>2 DEF CardHolds, SessionsOf, tables
  <1>4. ASSUME NEW s \in ActiveSessions(c.owner, c.code),
               Respond(h, "card", [c EXCEPT !.sid = s])
        PROVE  OwnOK(h)
    <2>1. PICK l : l = [c EXCEPT !.sid = s]
      OBVIOUS
    <2>2. /\ s \in SessionId /\ s \in SessionsOf(c.owner)
          /\ sessions[s].status = "in_progress"
      BY DEF ActiveSessions, SessionsOf, TablesOK, TypeOK
    <2>3. /\ l \in Local /\ l.sid = s /\ l.attempts = c.attempts /\ l.owner = c.owner
          /\ l.code = c.code
      BY <1>2, <2>1, <2>2 DEF Local
    <2>4. s \notin c.attempts
      BY <1>2, <2>2 DEF CardHolds
    <2>5. s \in SessionsOf(c.owner)'
      BY <1>2, <2>2 DEF SessionsOf, tables
    <2>6. CardHolds(l)'
      BY <1>2, <1>3, <2>3, <2>4, <2>5 DEF CardHolds
    <2> QED BY <1>4, <2>1, <2>3, <2>6, CardReply
  <1> QED BY <1>1, <1>2, <1>3, <1>4, CardReply DEF CardActive

LEMMA OwnEnd ==
  ASSUME TablesOK, HInv, NEW h \in Handler, Finish(h) \/ Fail(h)
  PROVE  OwnOK(h)
  <1>1. Moved(h, "idle", NoLocal)
    BY DEF Finish, Fail, Goto, Set, Moved
  <1>2. /\ LocalsOK' /\ pc'[h] = "idle" /\ loc'[h] = NoLocal
        /\ \A k \in Handler \ {h} : pc'[k] = pc[k] /\ loc'[k] = loc[k]
    BY <1>1, NoLocalOK, MovedOK DEF PC, HInv
  <1>3. Confirmed(loc[h])'
    BY <1>2, NoLocalOK DEF Confirmed
  <1> QED BY <1>2, <1>3, NoLocalOK, RestOK DEF OwnOK

(* The scan of a claim goes on, from locals l to locals m.                 *)
GoesOn(h, l, m) ==
  /\ LocalsOK' /\ loc'[h] = m
  /\ \A k \in Handler \ {h} : pc'[k] = pc[k] /\ loc'[k] = loc[k]
  /\ m.owner = l.owner /\ m.guest = l.guest /\ m.attempts = l.attempts
  /\ m.moved = l.moved /\ m.reply = l.reply
  /\ \/ pc'[h] = "claimCommit" /\ l.rows = {} /\ m.rows = {} /\ m.sid = None
     \/ pc'[h] = "claimRow" /\ m.sid \in l.rows /\ m.rows = l.rows \ {m.sid}

LEMMA NextRowMoves ==
  ASSUME LocalsOK, NEW h \in Handler, NEW l \in Local, NextRow(h, l)
  PROVE  \E m \in Local : GoesOn(h, l, m)
  <1>1. ASSUME NEW s \in l.rows, NEW m, m = [l EXCEPT !.sid = s, !.rows = @ \ {s}],
               Moved(h, "claimRow", m)
        PROVE  m \in Local /\ GoesOn(h, l, m)
    <2>1. s \in SessionId
      BY DEF Local
    <2>2. /\ m \in Local /\ m.owner = l.owner /\ m.guest = l.guest
          /\ m.attempts = l.attempts /\ m.moved = l.moved /\ m.reply = l.reply
          /\ m.sid = s /\ m.rows = l.rows \ {s}
      BY <1>1, <2>1 DEF Local
    <2>3. /\ LocalsOK' /\ pc'[h] = "claimRow" /\ loc'[h] = m
          /\ \A k \in Handler \ {h} : pc'[k] = pc[k] /\ loc'[k] = loc[k]
      BY <1>1, <2>2, MovedOK DEF PC, Claiming
    <2> QED BY <2>2, <2>3 DEF GoesOn
  <1>2. ASSUME l.rows = {}, NEW m, m = [l EXCEPT !.sid = None], Moved(h, "claimCommit", m)
        PROVE  m \in Local /\ GoesOn(h, l, m)
    <2>1. /\ m \in Local /\ m.owner = l.owner /\ m.guest = l.guest
          /\ m.attempts = l.attempts /\ m.moved = l.moved /\ m.reply = l.reply
          /\ m.sid = None /\ m.rows = {}
      BY <1>2 DEF Local
    <2>2. /\ LocalsOK' /\ pc'[h] = "claimCommit" /\ loc'[h] = m
          /\ \A k \in Handler \ {h} : pc'[k] = pc[k] /\ loc'[k] = loc[k]
      BY <1>2, <2>1, MovedOK DEF PC, Claiming
    <2> QED BY <1>2, <2>1, <2>2 DEF GoesOn
  <1>3. CASE l.rows = {} /\ Goto(h, "claimCommit") /\ Set(h, [l EXCEPT !.sid = None])
    BY <1>2, <1>3 DEF Goto, Set, Moved
  <1>4. CASE \E s \in l.rows : /\ Goto(h, "claimRow")
                               /\ Set(h, [l EXCEPT !.sid = s, !.rows = @ \ {s}])
    BY <1>1, <1>4 DEF Goto, Set, Moved
  <1> QED BY <1>3, <1>4 DEF NextRow

LEMMA GoesOnOK ==
  ASSUME NEW h \in Handler, NEW l, NEW m, l.reply = "none", GoesOn(h, l, m)
  PROVE  OwnOK(h)
  <1>1. /\ pc'[h] \in {"claimRow", "claimCommit"} /\ loc'[h].reply = "none"
        /\ LocalsOK' /\ \A k \in Handler \ {h} : pc'[k] = pc[k] /\ loc'[k] = loc[k]
    BY DEF GoesOn
  <1> QED BY <1>1 DEF OwnOK, HandlerOK, Located, Fresh, Confirmed, Starting, Submitting

(* The locals with which a claim begins its scan, and with which it leaves *)
(* a row it has locked.                                                    *)
FirstScan(g, u) == [NoLocal EXCEPT !.guest = g, !.owner = u,
                      !.attempts = SessionsOf(g), !.rows = SessionsOf(g)]

Taken(l) == [l EXCEPT !.moved = @ \cup {l.sid}]

LEMMA FirstScanOK ==
  ASSUME TablesOK, NEW g \in Guest, NEW u \in User
  PROVE  LET l == FirstScan(g, u)
         IN  /\ l \in Local /\ l.reply = "none" /\ l.owner = u /\ l.guest = g
             /\ l.attempts = SessionsOf(g) /\ l.rows = SessionsOf(g) /\ l.moved = {}
             /\ l.sid = None
  <1>1. SessionsOf(g) \subseteq SessionId /\ g \in Owner /\ u \in Owner
    BY DEF SessionsOf, TablesOK, TypeOK, Owner
  <1> QED BY <1>1 DEF FirstScan, NoLocal, Local, Reply

LEMMA TakenOK ==
  ASSUME TablesOK, HInv, NEW h \in Handler, pc[h] = "claimRow"
  PROVE  LET l == Taken(loc[h])
         IN  /\ loc[h] \in Local /\ loc[h].reply = "none"
             /\ l \in Local /\ l.reply = "none" /\ l.owner = loc[h].owner
             /\ l.guest = loc[h].guest /\ l.attempts = loc[h].attempts
             /\ l.rows = loc[h].rows /\ l.moved = loc[h].moved \cup {loc[h].sid}
             /\ l.sid = loc[h].sid
  <1>1. /\ loc[h] \in Local /\ loc[h].reply = "none" /\ loc[h].sid \in SessionId
    BY DEF HInv, LocalsOK, ClaimsOK, ClaimOK, Claims, Claiming, TablesOK, TypeOK
  <1> QED BY <1>1 DEF Taken, Local

(* Where the actions of a claim lead.                                      *)
LEMMA ClaimMoves ==
  ASSUME TablesOK, HInv, NEW h \in Handler
  PROVE  /\ ClaimStart(h) => \E g \in Guest, u \in User, m \in Local :
                                GoesOn(h, FirstScan(g, u), m)
         /\ ClaimRow(h) =>
              \/ /\ sessions[loc[h].sid].owner # loc[h].guest
                 /\ \E m \in Local : GoesOn(h, loc[h], m)
              \/ /\ sessions[loc[h].sid].owner = loc[h].guest
                 /\ sessions[loc[h].sid].status # "in_progress"
                 /\ \E m \in Local : GoesOn(h, Taken(loc[h]), m)
              \/ /\ sessions[loc[h].sid].owner = loc[h].guest
                 /\ sessions[loc[h].sid].status = "in_progress"
                 /\ pc'[h] = "claimKey" /\ loc'[h] = Taken(loc[h]) /\ LocalsOK'
                 /\ \A k \in Handler \ {h} : pc'[k] = pc[k] /\ loc'[k] = loc[k]
         /\ ClaimKey(h) =>
              \/ /\ ActiveSessions(loc[h].owner, sessions[loc[h].sid].code) = {}
                 /\ \E m \in Local : GoesOn(h, loc[h], m)
              \/ Respond(h, "claimFailed", NoLocal)
  <1>0. LocalsOK /\ loc[h] \in Local
    BY DEF HInv, LocalsOK
  <1>1. ASSUME ClaimStart(h)
        PROVE  \E g \in Guest, u \in User, m \in Local : GoesOn(h, FirstScan(g, u), m)
    <2>1. PICK g \in Guest, u \in User : NextRow(h, FirstScan(g, u))
      BY <1>1 DEF ClaimStart, FirstScan
    <2> QED BY <1>0, <2>1, FirstScanOK, NextRowMoves
  <1>2. CASE ClaimRow(h)
    <2>1. pc[h] = "claimRow"
      BY <1>2 DEF ClaimRow
    <2>2. ASSUME sessions[loc[h].sid].status = "in_progress",
                 Moved(h, "claimKey", Taken(loc[h]))
          PROVE  /\ pc'[h] = "claimKey" /\ loc'[h] = Taken(loc[h]) /\ LocalsOK'
                 /\ \A k \in Handler \ {h} : pc'[k] = pc[k] /\ loc'[k] = loc[k]
      <3>1. "claimKey" \in PC /\ Taken(loc[h]) \in Local
        BY <2>1, TakenOK DEF PC, Claiming
      <3> QED BY <1>0, <2>2, <3>1, MovedOK
    <2> DEFINE l == Taken(loc[h])
    <2>3. l \in Local
      BY <2>1, TakenOK
    <2>4. \/ sessions[loc[h].sid].owner # loc[h].guest /\ NextRow(h, loc[h])
          \/ /\ sessions[loc[h].sid].owner = loc[h].guest
             /\ \/ /\ sessions[loc[h].sid].status = "in_progress"
                   /\ Goto(h, "claimKey") /\ Set(h, l)
                \/ sessions[loc[h].sid].status # "in_progress" /\ NextRow(h, l)
      BY <1>2 DEF ClaimRow, Taken
    <2>5. Goto(h, "claimKey") /\ Set(h, l) => Moved(h, "claimKey", l)
      BY DEF Goto, Set, Moved
    <2>6. NextRow(h, loc[h]) => \E m \in Local : GoesOn(h, loc[h], m)
      BY <1>0, NextRowMoves
    <2>7. NextRow(h, l) => \E m \in Local : GoesOn(h, l, m)
      BY <1>0, <2>3, NextRowMoves
    <2>8. pc[h] # "idle" /\ pc[h] # "claimKey"
      BY <2>1
    <2> QED BY <2>2, <2>4, <2>5, <2>6, <2>7, <2>8 DEF ClaimStart, ClaimKey
  <1>3. CASE ClaimKey(h)
    <2>1. pc[h] # "idle" /\ pc[h] # "claimRow"
      BY <1>3 DEF ClaimKey
    <2> QED BY <1>0, <1>3, <2>1, NextRowMoves DEF ClaimKey, ClaimStart, ClaimRow
  <1> QED BY <1>1, <1>2, <1>3 DEF ClaimStart, ClaimRow, ClaimKey

LEMMA OwnClaimScan ==
  ASSUME TablesOK, HInv, NEW h \in Handler, ClaimStart(h) \/ ClaimRow(h) \/ ClaimKey(h)
  PROVE  OwnOK(h)
  <1>1. CASE ClaimStart(h)
    <2>1. PICK g \in Guest, u \in User, m \in Local : GoesOn(h, FirstScan(g, u), m)
      BY <1>1, ClaimMoves
    <2> QED BY <2>1, FirstScanOK, GoesOnOK
  <1>2. CASE ClaimRow(h)
    <2>1. pc[h] = "claimRow"
      BY <1>2 DEF ClaimRow
    <2>2. ASSUME pc'[h] = "claimKey", loc'[h] = Taken(loc[h]), LocalsOK',
                 \A k \in Handler \ {h} : pc'[k] = pc[k] /\ loc'[k] = loc[k]
          PROVE  OwnOK(h)
      <3>1. loc'[h].reply = "none"
        BY <2>1, <2>2, TakenOK
      <3> QED BY <2>2, <3>1 DEF OwnOK, HandlerOK, Located, Fresh, Confirmed, Starting,
              Submitting
    <2> QED BY <1>2, <2>1, <2>2, TakenOK, ClaimMoves, GoesOnOK
  <1>3. CASE ClaimKey(h)
    <2>1. loc[h].reply = "none" /\ LocalsOK
      BY <1>3 DEF ClaimKey, HInv, ClaimsOK, ClaimOK, Claiming
    <2>2. CASE Respond(h, "claimFailed", NoLocal)
      BY <2>1, <2>2, PlainReply DEF Plain, Reply
    <2> QED BY <1>3, <2>1, <2>2, ClaimMoves, GoesOnOK
  <1> QED BY <1>1, <1>2, <1>3

LEMMA OwnClaimCommit ==
  ASSUME TablesOK, HInv, NEW h \in Handler, ClaimCommit(h)
  PROVE  OwnOK(h)
  <1> DEFINE attempts == loc[h].attempts
             l == [[NoLocal EXCEPT !.attempts = attempts] EXCEPT !.reply = "claimed"]
  <1>1. attempts \subseteq SessionId /\ LocalsOK
    BY DEF HInv, LocalsOK, Local
  <1>2. l \in Local /\ l.attempts = attempts /\ l.reply = "claimed"
    BY <1>1 DEF NoLocal, Local, Reply
  <1>3. Moved(h, "done", l)
    BY DEF ClaimCommit, Respond, Goto, Set, Moved
  <1>4. /\ LocalsOK' /\ pc'[h] = "done" /\ loc'[h] = l
        /\ \A k \in Handler \ {h} : pc'[k] = pc[k] /\ loc'[k] = loc[k]
    BY <1>1, <1>2, <1>3, MovedOK DEF PC
  <1>5. \A s \in attempts : s \in DOMAIN sessions' /\ sessions'[s].owner \in User
    BY GuestClaims
  <1> HIDE DEF l
  <1>6. Confirmed(loc[h])'
    BY <1>2, <1>4, <1>5 DEF Confirmed
  <1> QED BY <1>4, <1>6, RestOK DEF OwnOK

LEMMA OwnDeadlock ==
  ASSUME HInv, NEW h \in Handler, DeadlockDetected(h)
  PROVE  OwnOK(h)
  BY PlainReply DEF DeadlockDetected, HInv, Plain, Reply

LEMMA OwnStep ==
  ASSUME TablesOK, HInv, NEW h \in Handler, Arrive(h) \/ Proceed(h) \/ Fail(h)
  PROVE  OwnOK(h)
  <1>1. CASE Arrive(h)
    <2>1. CASE SubmitGet(h) \/ AbandonGet(h)
      BY <2>1, OwnGet DEF SubmitGet, AbandonGet
    <2> QED BY <1>1, <2>1, OwnLoad, OwnClaimScan, OwnCardLoad DEF Arrive
  <1>2. CASE AbandonExec(h)
    BY <1>2, PlainReply DEF AbandonExec, HInv, Plain, Reply
  <1> QED BY <1>1, <1>2, OwnFind, OwnAbandonOld, OwnCreate, OwnConflict, OwnCheck,
          OwnResolve, OwnInsert, OwnUpdate, OwnCommit, OwnClaimScan, OwnClaimCommit,
          OwnCardStats, OwnCardActive, OwnEnd, OwnDeadlock DEF Proceed

-----------------------------------------------------------------------------
(* Only these statements lead into a transaction.                          *)
LEMMA Entering ==
  ASSUME HInv, NEW h \in Handler, Arrive(h) \/ Proceed(h) \/ Fail(h),
         pc'[h] \in {"inserted", "updated"} \cup Claiming
  PROVE  SaveInsert(h) \/ SaveUpdate(h) \/ ClaimStart(h) \/ ClaimRow(h) \/ ClaimKey(h)
  <1> DEFINE Elsewhere == {"idle", "done", "find", "create", "abandonOld", "conflict", "check",
                           "resolve", "ready", "abandon", "cardStats", "cardActive"}
             Leads == \E to \in Elsewhere : Goto(h, to)
  <1>1. ~Leads
    BY DEF Goto, HInv, LocalsOK, Claiming
  <1>2. \A reply, shown : Respond(h, reply, shown) => Leads
    BY DEF Respond
  <1>3. Get(h, "check") \/ Get(h, "abandon") => Leads
    BY <1>2 DEF Get
  <1>4. StartLoad(h) \/ StartFind(h) \/ StartAbandonOld(h) \/ StartCreate(h)
        \/ StartConflict(h) => Leads
    BY <1>2 DEF StartLoad, StartFind, StartAbandonOld, StartCreate, StartConflict
  <1>5. SubmitGet(h) \/ SubmitCheck(h) \/ SubmitResolve(h) \/ SaveCommit(h) => Leads
    BY <1>2, <1>3 DEF SubmitGet, SubmitCheck, SubmitResolve, SaveCommit
  <1>6. AbandonGet(h) \/ AbandonExec(h) \/ ClaimCommit(h) => Leads
    BY <1>2, <1>3 DEF AbandonGet, AbandonExec, ClaimCommit
  <1>7. CardLoad(h) \/ CardStats(h) \/ CardActive(h) => Leads
    BY <1>2 DEF CardLoad, CardStats, CardActive
  <1>8. Finish(h) \/ Fail(h) \/ DeadlockDetected(h) => Leads
    BY <1>2 DEF Finish, Fail, DeadlockDetected, Goto
  <1> HIDE DEF Leads
  <1> QED BY <1>1, <1>4, <1>5, <1>6, <1>7, <1>8 DEF Arrive, Proceed

(* A transaction on a session is open only once: whoever inserts finds no  *)
(* answer to the step the session stands at, and no lock on that key.      *)
LEMMA ExclusiveStep ==
  ASSUME TablesOK, HInv, NEW h \in Handler, Arrive(h) \/ Proceed(h) \/ Fail(h)
  PROVE  Exclusive'
  <1> DEFINE Open(k) == pc[k] \in {"inserted", "updated"}
  <1>1. \A k \in Handler \ {h} : pc'[k] = pc[k] /\ loc'[k] = loc[k]
    BY OwnStep DEF OwnOK
  <1>2. ASSUME pc'[h] \in {"inserted", "updated"}, NEW k \in Handler \ {h}, Open(k),
               loc[k].sid = loc'[h].sid
        PROVE  FALSE
    <2>1. CASE SaveUpdate(h)
      BY <1>2, <2>1 DEF SaveUpdate, HInv, Exclusive
    <2>2. CASE SaveInsert(h) /\ pc'[h] = "inserted"
      <3>1. /\ loc' = loc /\ AnswersTo(loc[h].sid, loc[h].step) = {} /\ pc[h] = "ready"
            /\ ~HoldsKey(k, loc[h].sid, loc[h].step)
        <4>1. ASSUME NEW reply, NEW shown
              PROVE  ~Respond(h, reply, shown)
          BY <2>2 DEF Respond, Goto, HInv, LocalsOK
        <4> QED BY <2>2, <4>1 DEF SaveInsert, Granted, Waits
      <3>2. Located(h) /\ Fresh(h) /\ Located(k) /\ Fresh(k)
        BY DEF HInv, HandlersOK
      <3>3. sessions[loc[h].sid].step = loc[h].step
        BY <3>1, <3>2 DEF Located, Fresh, Submitting
      <3>4. sessions[loc[k].sid].step = loc[k].step
        BY <1>2, <3>2 DEF Located, Fresh, Submitting
      <3>5. loc[k].sid = loc[h].sid /\ loc[k].step = loc[h].step
        BY <1>2, <3>1, <3>3, <3>4
      <3> QED BY <1>2, <3>1, <3>5 DEF HoldsKey
    <2>3. CASE SaveInsert(h) /\ pc'[h] # "inserted"
      BY <1>2, <2>3 DEF SaveInsert, Respond, Goto, HInv, LocalsOK
    <2>4. CASE ClaimStart(h) \/ ClaimRow(h) \/ ClaimKey(h)
      <3>1. CASE \E l, m : GoesOn(h, l, m)
        BY <1>2, <3>1 DEF GoesOn
      <3>2. CASE Respond(h, "claimFailed", NoLocal)
        BY <1>2, <3>2 DEF Respond, Goto, HInv, LocalsOK
      <3>3. CASE pc'[h] = "claimKey"
        BY <1>2, <3>3
      <3> QED BY <2>4, <3>1, <3>2, <3>3, ClaimMoves
    <2> QED BY <1>2, <2>1, <2>2, <2>3, <2>4, Entering
  <1>3. ASSUME NEW j \in Handler, NEW k \in Handler,
               pc'[j] \in {"inserted", "updated"}, pc'[k] \in {"inserted", "updated"},
               loc'[j].sid = loc'[k].sid
        PROVE  j = k
    <2>1. CASE j # h /\ k # h
      BY <1>1, <1>3, <2>1 DEF HInv, Exclusive
    <2>2. CASE j = h \/ k = h
      BY <1>1, <1>2, <1>3, <2>2
    <2> QED BY <2>1, <2>2
  <1> QED BY <1>3 DEF Exclusive

-----------------------------------------------------------------------------
(* What the locks of a claim protect.                                      *)

LEMMA OwnersStay ==
  ASSUME TablesOK, HInv, NEW h \in Handler, Arrive(h) \/ Proceed(h) \/ Fail(h),
         ~ClaimCommit(h), NEW t \in DOMAIN sessions
  PROVE  sessions'[t].owner = sessions[t].owner
  <1>0. sessions[t] \in SessionRow
    BY DEF TablesOK, TypeOK
  <1>1. CASE Reads(h)
    BY <1>1, Reading DEF tables
  <1>2. CASE StartAbandonOld(h) \/ AbandonExec(h)
    BY <1>0, <1>2 DEF StartAbandonOld, AbandonExec, UpdateAbandoned, SessionRow, tables
  <1>3. CASE StartCreate(h)
    BY <1>3 DEF StartCreate, InsertSession, tables
  <1>4. CASE SaveCommit(h)
    BY <1>0, <1>4 DEF SaveCommit, ApplyAnswer, Advanced, SessionRow
  <1> QED BY <1>1, <1>2, <1>3, <1>4 DEF Arrive, Proceed, Reads

LEMMA NewRow ==
  ASSUME TablesOK, HInv, NEW h \in Handler, Arrive(h) \/ Proceed(h) \/ Fail(h),
         NEW t \in DOMAIN sessions' \ DOMAIN sessions
  PROVE  /\ pc[h] = "create" /\ Granted(h)
         /\ sessions'[t].owner = loc[h].owner /\ sessions'[t].code = loc[h].code
  <1>1. CASE Reads(h)
    BY <1>1, Reading DEF tables
  <1>2. CASE StartAbandonOld(h) \/ AbandonExec(h)
    BY <1>2 DEF StartAbandonOld, AbandonExec, UpdateAbandoned, tables
  <1>3. CASE StartCreate(h)
    <2>1. pc[h] = "create" /\ Granted(h) /\ sessions' # sessions
      BY <1>3 DEF StartCreate
    <2>2. PICK s \in SessionId :
            InsertSession(s, loc[h].owner, loc[h].code, loc[h].version)
      BY <1>3, <2>1 DEF StartCreate, tables
    <2>3. t = s
      BY <2>2 DEF InsertSession
    <2>4. sessions'[s] = [owner |-> loc[h].owner, code |-> loc[h].code,
                          version |-> loc[h].version, status |-> "in_progress",
                          step |-> Content[loc[h].code][loc[h].version].start, score |-> 0]
      BY <2>2 DEF InsertSession
    <2> QED BY <2>1, <2>3, <2>4
  <1>4. CASE SaveCommit(h)
    BY <1>4 DEF SaveCommit, ApplyAnswer
  <1>5. CASE ClaimCommit(h)
    BY <1>5 DEF ClaimCommit, UpdateOwner
  <1> QED BY <1>1, <1>2, <1>3, <1>4, <1>5 DEF Arrive, Proceed, Reads

(* Nobody else changes a row that a claim has locked.                      *)
LEMMA LockedRowsStay ==
  ASSUME TablesOK, HInv, NEW h \in Handler, Arrive(h) \/ Proceed(h) \/ Fail(h),
         NEW k \in Handler \ {h}, pc[k] \in Claiming, NEW s \in loc[k].moved
  PROVE  s \in DOMAIN sessions /\ s \in DOMAIN sessions' /\ sessions'[s] = sessions[s]
  <1>1. s \in SessionId /\ s \in DOMAIN sessions /\ HoldsRow(k, s) /\ ~HoldsRow(h, s)
    <2>1. s \in DOMAIN sessions
      BY DEF HInv, ClaimsOK, ClaimOK, Claims
    <2>2. s \in SessionId /\ HoldsRow(k, s)
      BY <2>1 DEF TablesOK, TypeOK, HoldsRow
    <2> QED BY <2>1, <2>2 DEF HInv, ClaimsOK, RowsExclusive
  <1>2. CASE Reads(h)
    BY <1>1, <1>2, Reading DEF tables
  <1>3. CASE StartAbandonOld(h) \/ AbandonExec(h)
    <2>1. CASE UNCHANGED tables
      BY <1>1, <2>1 DEF tables
    <2>2. CASE UpdateAbandoned(loc[h].sid) /\ loc[h].sid # s
      BY <1>1, <2>2 DEF UpdateAbandoned
    <2>3. CASE /\ Granted(h) /\ sessions[loc[h].sid].status = "in_progress"
               /\ pc[h] \in {"abandonOld", "abandon"} /\ loc[h].sid = s
      BY <1>1, <2>3 DEF Granted, Waits
    <2> QED BY <1>3, <2>1, <2>2, <2>3 DEF StartAbandonOld, AbandonExec
  <1>4. CASE StartCreate(h)
    BY <1>1, <1>4 DEF StartCreate, InsertSession, tables
  <1>5. CASE SaveCommit(h)
    <2>1. loc[h].sid # s
      BY <1>1, <1>5 DEF SaveCommit, HoldsRow
    <2> QED BY <1>1, <1>5, <2>1 DEF SaveCommit, ApplyAnswer
  <1>6. CASE ClaimCommit(h)
    <2>1. s \notin loc[h].moved
      BY <1>1, <1>6 DEF ClaimCommit, HoldsRow, Claiming
    <2> QED BY <1>1, <1>6, <2>1 DEF ClaimCommit, UpdateOwner
  <1> QED BY <1>2, <1>3, <1>4, <1>5, <1>6 DEF Arrive, Proceed, Reads

(* Nobody makes an entry that a claim has made before.                     *)
LEMMA EntriesStay ==
  ASSUME TablesOK, HInv, NEW h \in Handler, Arrive(h) \/ Proceed(h) \/ Fail(h),
         NEW k \in Handler \ {h}, pc[k] \in Claiming,
         NEW s \in loc[k].moved \ {loc[k].sid}, sessions[s].status = "in_progress"
  PROVE  ActiveSessions(loc[k].owner, sessions[s].code)' = {}
  <1> DEFINE o == loc[k].owner
             c == sessions[s].code
  <1>0. /\ sessions'[s] = sessions[s] /\ Claims(loc[k]) /\ ActiveSessions(o, c) = {}
        /\ loc'[k] = loc[k]
    BY LockedRowsStay, OwnStep DEF HInv, ClaimsOK, ClaimOK, Claims, OwnOK
  <1>1. ASSUME NEW t \in DOMAIN sessions', sessions'[t].owner = o, sessions'[t].code = c,
               sessions'[t].status = "in_progress"
        PROVE  FALSE
    <2>1. CASE t \notin DOMAIN sessions
      <3>1. pc[h] = "create" /\ Granted(h) /\ o = loc[h].owner /\ c = loc[h].code
        BY <1>1, <2>1, NewRow
      <3>2. HoldsEntry(k, o, c)
        BY DEF HoldsEntry
      <3>3. Waits(h, k)
        BY <3>1, <3>2 DEF Waits
      <3> QED BY <3>1, <3>3 DEF Granted
    <2>2. CASE t \in DOMAIN sessions
      <3>1. /\ sessions[t].code = c /\ sessions[t].status = "in_progress"
        BY <1>1, <2>2, TablesStep, AllLast DEF Lasting, Next
      <3>2. sessions[t].owner # o
        BY <1>0, <2>2, <3>1 DEF ActiveSessions
      <3>3. ClaimCommit(h)
        BY <1>1, <2>2, <3>2, OwnersStay
      <3>4. t \in loc[h].moved /\ loc[h].owner = o
        <4>1. UpdateOwner(loc[h].moved, loc[h].owner) /\ sessions[t] \in SessionRow
          BY <2>2, <3>3 DEF ClaimCommit, TablesOK, TypeOK
        <4> QED BY <1>1, <2>2, <3>2, <4>1 DEF UpdateOwner, SessionRow
      <3>5. loc[h].sid = None /\ t # None /\ pc[h] \in Claiming
        BY <2>2, <3>3, SessionIdAssumption
           DEF HInv, ClaimsOK, ClaimOK, ClaimCommit, Claiming, TablesOK, TypeOK
      <3> QED BY <3>1, <3>4, <3>5 DEF HInv, ClaimsOK, EntriesExclusive
    <2> QED BY <2>1, <2>2
  <1> HIDE DEF o, c
  <1>2. {t \in DOMAIN sessions' : /\ sessions'[t].owner = o /\ sessions'[t].code = c
                                 /\ sessions'[t].status = "in_progress"} = {}
    BY <1>1
  <1> QED BY <1>0, <1>2 DEF ActiveSessions, o, c

(* A claim of another handler finds what it has read as it was.            *)
LEMMA OtherClaims ==
  ASSUME TablesOK, HInv, NEW h \in Handler, Arrive(h) \/ Proceed(h) \/ Fail(h),
         NEW k \in Handler \ {h}
  PROVE  ClaimOK(k)'
  <1>1. pc'[k] = pc[k] /\ loc'[k] = loc[k] /\ ClaimOK(k)
    BY OwnStep DEF OwnOK, HInv, ClaimsOK
  <1>2. ASSUME pc[k] \in Claiming
        PROVE  Claims(loc[k])'
    <2>1. PICK c : c = loc[k]
      OBVIOUS
    <2>2. Claims(c) /\ loc'[k] = c
      BY <1>1, <1>2, <2>1 DEF ClaimOK
    <2>3. \A s \in DOMAIN sessions : Lasting(s)
      BY TablesStep, AllLast DEF Next
    <2>4. \A s \in c.moved : sessions'[s] = sessions[s]
      BY <1>2, <2>1, LockedRowsStay
    <2>5. \A s \in c.moved \ {c.sid} :
            sessions[s].status = "in_progress" => ActiveSessions(c.owner, sessions[s].code)' = {}
      <3> SUFFICES ASSUME NEW s \in c.moved \ {c.sid}, sessions[s].status = "in_progress"
                   PROVE  ActiveSessions(c.owner, sessions[s].code)' = {}
        OBVIOUS
      <3>1. ActiveSessions(loc[k].owner, sessions[s].code)' = {}
        BY <1>2, <2>1, EntriesStay
      <3> QED BY <2>1, <2>2, <3>1 DEF ActiveSessions
    <2>6. \A s \in c.moved \ {c.sid} :
            sessions'[s].status = "in_progress" =>
              {t \in DOMAIN sessions' : /\ sessions'[t].owner = c.owner
                                       /\ sessions'[t].code = sessions'[s].code
                                       /\ sessions'[t].status = "in_progress"} = {}
      BY <2>4, <2>5 DEF ActiveSessions
    <2>7. \A s \in c.attempts : /\ s \in DOMAIN sessions'
                                /\ sessions'[s].owner \in User \cup {c.guest}
                                /\ sessions[s].owner \in User => sessions'[s].owner \in User
      BY <2>2, <2>3 DEF Claims, Lasting
    <2>8. Claims(c)'
      BY <2>2, <2>4, <2>6, <2>7 DEF Claims, ActiveSessions
    <2> QED BY <2>2, <2>8 DEF Claims, ActiveSessions
  <1>3. pc[k] = "claimKey" => sessions'[loc[k].sid].status = "in_progress"
    BY <1>1, LockedRowsStay DEF ClaimOK, Claiming
  <1> QED BY <1>1, <1>2, <1>3 DEF ClaimOK

(* The claim that takes the step itself.                                   *)
LEMMA GoesOnClaims ==
  ASSUME NEW h \in Handler, NEW l, NEW m, GoesOn(h, l, m), l.reply = "none",
         UNCHANGED tables, l.owner \in User, l.guest \in Guest,
         l.attempts \subseteq DOMAIN sessions, l.rows \subseteq l.attempts,
         l.moved \subseteq l.attempts, l.rows \cap l.moved = {}, None \notin l.attempts,
         \A s \in l.attempts : sessions[s].owner \in User \cup {l.guest},
         \A s \in l.attempts \ (l.rows \cup l.moved) : sessions[s].owner \in User,
         \A s \in l.moved : sessions[s].owner = l.guest,
         \A s \in l.moved : sessions[s].status = "in_progress" =>
                              ActiveSessions(l.owner, sessions[s].code) = {}
  PROVE  ClaimOK(h)'
  <1>1. Claims(m)
    BY DEF GoesOn, Claims
  <1>2. Claims(m)'
    BY <1>1 DEF Claims, ActiveSessions, tables
  <1>3. Claims(loc[h])'
    BY <1>2 DEF GoesOn, Claims, ActiveSessions
  <1>4. /\ pc'[h] = "claimRow" => loc'[h].sid \in loc'[h].attempts \ loc'[h].moved
        /\ pc'[h] = "claimCommit" => loc'[h].rows = {} /\ loc'[h].sid = None
        /\ pc'[h] # "claimKey" /\ loc'[h].reply = "none"
    BY DEF GoesOn
  <1> QED BY <1>3, <1>4 DEF ClaimOK

LEMMA OwnClaims ==
  ASSUME TablesOK, HInv, NEW h \in Handler, Arrive(h) \/ Proceed(h) \/ Fail(h)
  PROVE  ClaimOK(h)'
  <1>0. ClaimOK(h) /\ None \notin loc[h].attempts
    BY SessionIdAssumption DEF HInv, ClaimsOK, LocalsOK, Local
  <1>1. CASE pc'[h] \notin Claiming
    BY <1>1 DEF ClaimOK, Claiming
  <1>2. CASE ClaimStart(h)
    <2>1. PICK g \in Guest, u \in User, m \in Local : GoesOn(h, FirstScan(g, u), m)
      BY <1>2, ClaimMoves
    <2>2. None \notin SessionsOf(g) /\ SessionsOf(g) \subseteq DOMAIN sessions
          /\ \A s \in SessionsOf(g) : sessions[s].owner = g
      BY SessionIdAssumption DEF SessionsOf, TablesOK, TypeOK
    <2> DEFINE l == FirstScan(g, u)
    <2>3. /\ l.reply = "none" /\ l.owner = u /\ l.guest = g
          /\ l.attempts = SessionsOf(g) /\ l.rows = SessionsOf(g) /\ l.moved = {}
      BY FirstScanOK
    <2>4. UNCHANGED tables
      BY <1>2 DEF ClaimStart
    <2> HIDE DEF l
    <2>5. GoesOn(h, l, m)
      BY <2>1 DEF l
    <2> QED BY <2>2, <2>3, <2>4, <2>5, GoesOnClaims
  <1>3. CASE ClaimRow(h)
    <2>1. /\ pc[h] = "claimRow" /\ UNCHANGED tables /\ Claims(loc[h])
          /\ loc[h].sid \in loc[h].attempts \ loc[h].moved /\ loc[h].reply = "none"
      BY <1>0, <1>3 DEF ClaimRow, ClaimOK, Claiming
    <2>2. ASSUME sessions[loc[h].sid].owner # loc[h].guest,
                 NEW m \in Local, GoesOn(h, loc[h], m)
          PROVE  ClaimOK(h)'
      BY <1>0, <2>1, <2>2, GoesOnClaims DEF Claims
    <2> PICK l : l = Taken(loc[h])
      OBVIOUS
    <2>3. /\ l.reply = "none" /\ l.owner = loc[h].owner
          /\ l.guest = loc[h].guest /\ l.attempts = loc[h].attempts
          /\ l.rows = loc[h].rows /\ l.moved = loc[h].moved \cup {loc[h].sid}
          /\ l.sid = loc[h].sid
      BY <2>1, TakenOK
    <2>4. ASSUME sessions[loc[h].sid].owner = loc[h].guest,
                 sessions[loc[h].sid].status # "in_progress",
                 NEW m \in Local, GoesOn(h, l, m)
          PROVE  ClaimOK(h)'
      BY <1>0, <2>1, <2>3, <2>4, GoesOnClaims DEF Claims
    <2>5. ASSUME sessions[loc[h].sid].owner = loc[h].guest,
                 sessions[loc[h].sid].status = "in_progress",
                 pc'[h] = "claimKey", loc'[h] = l
          PROVE  ClaimOK(h)'
      <3>1. Claims(l)
        BY <2>1, <2>3, <2>5 DEF Claims
      <3>2. Claims(l)'
        BY <2>1, <3>1 DEF Claims, ActiveSessions, tables
      <3>3. Claims(loc[h])'
        BY <2>5, <3>2 DEF Claims, ActiveSessions
      <3> QED BY <2>1, <2>3, <2>5, <3>3 DEF ClaimOK, tables
    <2> QED BY <1>3, <2>2, <2>4, <2>5, ClaimMoves
  <1>4. CASE ClaimKey(h)
    <2>1. /\ pc[h] = "claimKey" /\ UNCHANGED tables /\ Claims(loc[h])
          /\ loc[h].sid \in loc[h].moved /\ loc[h].reply = "none"
      BY <1>0, <1>4 DEF ClaimKey, ClaimOK, Claiming
    <2>2. ASSUME ActiveSessions(loc[h].owner, sessions[loc[h].sid].code) = {},
                 NEW m \in Local, GoesOn(h, loc[h], m)
          PROVE  ClaimOK(h)'
      BY <1>0, <2>1, <2>2, GoesOnClaims DEF Claims
    <2>3. CASE Respond(h, "claimFailed", NoLocal)
      BY <1>1, <2>3 DEF Respond, Goto, HInv, LocalsOK, Claiming
    <2> QED BY <1>4, <2>2, <2>3, ClaimMoves
  <1>5. CASE SaveInsert(h) \/ SaveUpdate(h)
    BY <1>1, <1>5 DEF SaveInsert, SaveUpdate, Respond, Goto, HInv, LocalsOK, Claiming
  <1> QED BY <1>1, <1>2, <1>3, <1>4, <1>5, Entering

(* The row and the entry a handler comes to hold by a step.                *)
LEMMA RowTaken ==
  ASSUME TablesOK, HInv, NEW h \in Handler, Arrive(h) \/ Proceed(h) \/ Fail(h),
         NEW s, HoldsRow(h, s)', ~HoldsRow(h, s)
  PROVE  pc[h] \in {"inserted", "claimRow"} /\ Granted(h) /\ loc[h].sid = s
  <1>1. pc'[h] = "updated" \/ pc'[h] \in Claiming
    BY DEF HoldsRow
  <1>2. CASE SaveInsert(h)
    BY <1>1, <1>2 DEF SaveInsert, Respond, Goto, HInv, LocalsOK, Claiming
  <1>3. CASE SaveUpdate(h)
    BY <1>3 DEF SaveUpdate, Goto, HInv, LocalsOK, HoldsRow, Claiming
  <1>4. CASE ClaimStart(h)
    <2>1. PICK g \in Guest, u \in User, m \in Local : GoesOn(h, FirstScan(g, u), m)
      BY <1>4, ClaimMoves
    <2>2. loc'[h].moved = {} /\ pc'[h] # "updated"
      BY <2>1, FirstScanOK DEF GoesOn
    <2> QED BY <2>2 DEF HoldsRow
  <1>5. CASE ClaimRow(h)
    <2>1. pc[h] = "claimRow" /\ Granted(h) /\ Taken(loc[h]).moved = loc[h].moved \cup {loc[h].sid}
      BY <1>5, TakenOK DEF ClaimRow
    <2>2. loc'[h].moved \subseteq loc[h].moved \cup {loc[h].sid} /\ pc'[h] # "updated"
      BY <1>5, <2>1, ClaimMoves DEF GoesOn
    <2> QED BY <2>1, <2>2 DEF HoldsRow, Claiming
  <1>6. CASE ClaimKey(h)
    <2>1. CASE Respond(h, "claimFailed", NoLocal)
      BY <1>1, <2>1 DEF Respond, Goto, HInv, LocalsOK, Claiming
    <2>2. loc'[h].moved = loc[h].moved /\ pc'[h] # "updated" /\ pc[h] \in Claiming
      BY <1>6, <2>1, ClaimMoves DEF GoesOn, ClaimKey, Claiming
    <2> QED BY <2>2 DEF HoldsRow
  <1> QED BY <1>1, <1>2, <1>3, <1>4, <1>5, <1>6, Entering

LEMMA RowsStep ==
  ASSUME TablesOK, HInv, NEW h \in Handler, Arrive(h) \/ Proceed(h) \/ Fail(h)
  PROVE  RowsExclusive'
  <1>1. ASSUME NEW k \in Handler \ {h}, NEW s
        PROVE  HoldsRow(k, s)' <=> HoldsRow(k, s)
    BY OwnStep DEF OwnOK, HoldsRow
  <1>2. ASSUME NEW k \in Handler \ {h}, NEW s \in SessionId, HoldsRow(k, s)
        PROVE  ~HoldsRow(h, s)'
    <2>1. ~HoldsRow(h, s)
      BY <1>2 DEF HInv, ClaimsOK, RowsExclusive
    <2>2. ~(pc[h] \in {"inserted", "claimRow"} /\ Granted(h) /\ loc[h].sid = s)
      BY <1>2 DEF Granted, Waits
    <2> QED BY <2>1, <2>2, RowTaken
  <1>3. ASSUME NEW j \in Handler, NEW k \in Handler, NEW s \in SessionId,
               HoldsRow(j, s)', HoldsRow(k, s)'
        PROVE  j = k
    <2>1. CASE j # h /\ k # h
      BY <1>1, <1>3, <2>1 DEF HInv, ClaimsOK, RowsExclusive
    <2>2. CASE j = h \/ k = h
      BY <1>1, <1>2, <1>3, <2>2
    <2> QED BY <2>1, <2>2
  <1> QED BY <1>3 DEF RowsExclusive

(* The rows whose entries a claim has made.                                *)
Entered(h) == {s \in loc[h].moved \ {loc[h].sid} : sessions[s].status = "in_progress"}

LEMMA EntryMade ==
  ASSUME TablesOK, HInv, NEW h \in Handler, Arrive(h) \/ Proceed(h) \/ Fail(h),
         pc'[h] \in Claiming, NEW s \in Entered(h)'
  PROVE  /\ sessions'[s] = sessions[s]
         /\ \/ pc[h] \in Claiming /\ loc[h].owner = loc'[h].owner /\ s \in Entered(h)
            \/ pc[h] = "claimKey" /\ Granted(h) /\ loc[h].sid = s /\ loc[h].owner = loc'[h].owner
  <1>0. ClaimOK(h)
    BY DEF HInv, ClaimsOK
  <1>1. CASE SaveInsert(h) \/ SaveUpdate(h)
    BY <1>1 DEF SaveInsert, SaveUpdate, Respond, Goto, HInv, LocalsOK, Claiming
  <1>2. CASE ClaimStart(h)
    <2>1. PICK g \in Guest, u \in User, m \in Local : GoesOn(h, FirstScan(g, u), m)
      BY <1>2, ClaimMoves
    <2>2. loc'[h].moved = {}
      BY <2>1, FirstScanOK DEF GoesOn
    <2> QED BY <2>2 DEF Entered
  <1>3. CASE ClaimRow(h)
    <2>1. /\ pc[h] = "claimRow" /\ UNCHANGED tables /\ loc[h].sid \notin loc[h].moved
          /\ Taken(loc[h]).moved = loc[h].moved \cup {loc[h].sid}
          /\ Taken(loc[h]).owner = loc[h].owner /\ Taken(loc[h]).sid = loc[h].sid
      BY <1>0, <1>3, TakenOK DEF ClaimRow, ClaimOK
    <2>2. /\ loc'[h].owner = loc[h].owner /\ s \in loc'[h].moved /\ s # loc'[h].sid
          /\ sessions' = sessions /\ sessions[s].status = "in_progress"
      BY <1>3, <2>1, ClaimMoves DEF GoesOn, Entered, tables
    <2>3. s \in loc[h].moved
      BY <1>3, <2>1, <2>2, ClaimMoves DEF GoesOn
    <2> QED BY <2>1, <2>2, <2>3 DEF Entered, Claiming
  <1>4. CASE ClaimKey(h)
    <2>1. ~Respond(h, "claimFailed", NoLocal)
      BY DEF Respond, Goto, HInv, LocalsOK, Claiming
    <2>2. pc[h] = "claimKey" /\ Granted(h) /\ sessions' = sessions
      BY <1>4 DEF ClaimKey, tables
    <2>3. loc'[h].owner = loc[h].owner /\ loc'[h].moved = loc[h].moved
      BY <1>4, <2>1, ClaimMoves DEF GoesOn
    <2>4. s \in loc[h].moved /\ sessions[s].status = "in_progress"
      BY <2>2, <2>3 DEF Entered
    <2> QED BY <2>2, <2>3, <2>4 DEF Entered, Claiming
  <1> QED BY <1>1, <1>2, <1>3, <1>4, Entering

LEMMA EntriesStep ==
  ASSUME TablesOK, HInv, NEW h \in Handler, Arrive(h) \/ Proceed(h) \/ Fail(h)
  PROVE  EntriesExclusive'
  <1>1. ASSUME NEW k \in Handler \ {h}
        PROVE  pc'[k] = pc[k] /\ loc'[k] = loc[k]
    BY OwnStep DEF OwnOK
  <1>2. ASSUME NEW k \in Handler \ {h}, pc[k] \in Claiming, NEW s \in Entered(k)'
        PROVE  s \in Entered(k) /\ sessions'[s] = sessions[s]
    BY <1>1, <1>2, LockedRowsStay DEF Entered
  <1>3. ASSUME NEW j \in Handler \ {h}, NEW k \in Handler \ {h}, j # k,
               pc[j] \in Claiming, pc[k] \in Claiming, loc[j].owner = loc[k].owner,
               NEW s \in Entered(j)', NEW t \in Entered(k)'
        PROVE  sessions'[s].code # sessions'[t].code
    BY <1>2, <1>3 DEF HInv, ClaimsOK, EntriesExclusive, Entered
  <1>4. ASSUME NEW k \in Handler \ {h}, pc'[h] \in Claiming, pc[k] \in Claiming,
               loc'[h].owner = loc[k].owner, NEW s \in Entered(h)', NEW t \in Entered(k)'
        PROVE  sessions'[s].code # sessions'[t].code
    <2>1. sessions'[s] = sessions[s] /\ sessions'[t] = sessions[t] /\ t \in Entered(k)
      BY <1>2, <1>4, EntryMade
    <2>2. CASE pc[h] \in Claiming /\ loc[h].owner = loc'[h].owner /\ s \in Entered(h)
      BY <1>4, <2>1, <2>2 DEF HInv, ClaimsOK, EntriesExclusive, Entered
    <2>3. CASE /\ pc[h] = "claimKey" /\ Granted(h) /\ loc[h].sid = s
               /\ loc[h].owner = loc'[h].owner
      <3>1. ~HoldsEntry(k, loc[h].owner, sessions[s].code)
        BY <2>3 DEF Granted, Waits
      <3> QED BY <1>4, <2>1, <2>3, <3>1 DEF HoldsEntry, Entered
    <2> QED BY <1>4, <2>2, <2>3, EntryMade
  <1>5. ASSUME NEW j \in Handler, NEW k \in Handler, j # k,
               pc'[j] \in Claiming, pc'[k] \in Claiming, loc'[j].owner = loc'[k].owner,
               NEW s \in Entered(j)', NEW t \in Entered(k)'
        PROVE  sessions'[s].code # sessions'[t].code
    <2>1. CASE j # h /\ k # h
      BY <1>1, <1>3, <1>5, <2>1
    <2>2. CASE j = h
      BY <1>1, <1>4, <1>5, <2>2
    <2>3. CASE k = h
      BY <1>1, <1>4, <1>5, <2>3
    <2> QED BY <2>1, <2>2, <2>3
  <1> QED BY <1>5 DEF EntriesExclusive, Entered

LEMMA ClaimsStep ==
  ASSUME TablesOK, HInv, NEW h \in Handler, Arrive(h) \/ Proceed(h) \/ Fail(h)
  PROVE  ClaimsOK'
  <1>1. \A k \in Handler : ClaimOK(k)'
    BY OwnClaims, OtherClaims
  <1> QED BY <1>1, RowsStep, EntriesStep DEF ClaimsOK

-----------------------------------------------------------------------------
LEMMA HInvInit == Init => HInv
  <1> SUFFICES ASSUME Init
               PROVE  HInv
    OBVIOUS
  <1>1. \A h \in Handler : pc[h] = "idle" /\ loc[h] = NoLocal
    BY DEF Init
  <1>2. LocalsOK
    BY NoLocalOK DEF Init, LocalsOK, PC
  <1>3. HandlersOK
    BY <1>1, NoLocalOK DEF HandlersOK, Located, Fresh, Confirmed, Starting, Submitting
  <1>4. Exclusive
    BY <1>1 DEF Exclusive
  <1>5. ClaimsOK
    BY <1>1 DEF ClaimsOK, ClaimOK, RowsExclusive, EntriesExclusive, HoldsRow, Claiming
  <1> QED BY <1>2, <1>3, <1>4, <1>5 DEF HInv

LEMMA HInvStep == TablesOK /\ HInv /\ [Next]_vars => HInv'
  <1> SUFFICES ASSUME TablesOK, HInv, [Next]_vars
               PROVE  HInv'
    OBVIOUS
  <1>1. ASSUME NEW h \in Handler, Arrive(h) \/ Proceed(h) \/ Fail(h)
        PROVE  HInv'
    <2>1. LocalsOK' /\ HandlerOK(h)'
          /\ \A k \in Handler \ {h} : pc'[k] = pc[k] /\ loc'[k] = loc[k]
      BY <1>1, OwnStep DEF OwnOK
    <2>2. \A k \in Handler : HandlerOK(k)'
      BY <1>1, <2>1, OthersOK
    <2>3. HandlersOK'
      BY <2>2 DEF HandlersOK, HandlerOK
    <2> QED BY <1>1, <2>1, <2>3, ExclusiveStep, ClaimsStep DEF HInv
  <1>2. ASSUME AllKept, UNCHANGED <<sessions, pc, loc>>
        PROVE  HInv'
    <2>0. \A s \in DOMAIN sessions : Lasting(s)
      BY TablesStep, AllLast
    <2>1. ASSUME NEW h \in Handler
          PROVE  HandlerOK(h)'
      <3>1. HandlerOK(h) /\ (pc[h] \in Submitting => loc[h].sid \in DOMAIN sessions)
        BY DEF HInv, HandlersOK, HandlerOK, Located
      <3>2. pc'[h] = pc[h] /\ loc'[h] = loc[h]
        BY <1>2
      <3> QED BY <1>2, <2>0, <3>1, <3>2, StableHandler DEF AllKept, Submitting, Kept
    <2>2. HandlersOK'
      BY <2>1 DEF HandlersOK, HandlerOK
    <2>3. LocalsOK' /\ Exclusive'
      BY <1>2 DEF HInv, LocalsOK, Exclusive
    <2>4. ClaimsOK'
      BY <1>2 DEF HInv, ClaimsOK, ClaimOK, Claims, ActiveSessions, RowsExclusive, HoldsRow,
         EntriesExclusive
    <2> QED BY <2>2, <2>3, <2>4 DEF HInv
  <1>3. ASSUME NEW c \in Code, Publish(c)
        PROVE  HInv'
    BY <1>2, <1>3, PublishKept DEF Publish
  <1>4. CASE UNCHANGED vars
    BY <1>2, <1>4, SameKept DEF vars
  <1> QED BY <1>1, <1>3, <1>4 DEF Next

-----------------------------------------------------------------------------
(* Together.                                                               *)
Inv == Proved!IInv /\ HInv

LEMMA InvHolds == Spec => []Inv
  <1>1. Init => Inv
    BY HInvInit, InitSame, InvInit DEF Init, Inv
  <1>2. Inv /\ [Next]_vars => Inv'
    BY HInvStep, TablesFromInv, TablesStep, NextSame, InvStep DEF Inv
  <1> QED BY <1>1, <1>2, PTL DEF Spec

(* The handlers, whatever their statements interleave with, implement the  *)
(* attempts that happen in one step.                                       *)
THEOREM Implementation == Spec => ImplementsAttempt
  <1>1. Init => Attempts!InitTables
    BY InitSame DEF Init
  <1>2. Inv /\ [Next]_vars => [Attempts!Next]_(Attempts!tables)
    BY TablesFromInv, TablesStep DEF Inv
  <1> QED BY <1>1, <1>2, InvHolds, PTL DEF Spec, ImplementsAttempt, Attempts!Spec

(* Tables and handlers are well typed.                                     *)
THEOREM TypeInvHolds == Spec => []TypeInv
  <1>1. Inv => TypeInv
    BY TablesFromInv DEF Inv, HInv, TablesOK, TypeInv
  <1> QED BY <1>1, InvHolds, PTL

(* What a handler read before is still right when it matters, or the       *)
(* unique index rejects its INSERT.                                        *)
THEOREM HandlerFreshHolds == Spec => []HandlerFresh
  <1>1. Inv => HandlerFresh
    BY DEF Inv, HInv, HandlersOK, HandlerFresh
  <1> QED BY <1>1, InvHolds, PTL

(* A reply that confirms an answer shows the stored one.                   *)
THEOREM ReplyIsStoredHolds == Spec => []ReplyIsStored
  <1>1. Inv => ReplyIsStored
    BY DEF Inv, HInv, HandlersOK, ReplyIsStored
  <1> QED BY <1>1, InvHolds, PTL

(* Every session walks the version it was started on, position by position *)
(* (SaveAnswer), although requests interleave and versions are published.  *)
THEOREM WalksHold == Spec => []AnswersFormPath
  <1>1. Proved!IInv => AnswersFormPath
    <2> SUFFICES ASSUME Proved!AnswersFormPath, NEW s \in DOMAIN sessions
                 PROVE  Attempts!PathOf(s)
      BY DEF Proved!IInv, AnswersFormPath, Attempts!AnswersFormPath
    <2>1. Proved!PathOf(s)
      BY DEF Proved!AnswersFormPath
    <2>2. Attempts!Cardinality(Attempts!AnswersOf(s)) = Proved!Cardinality(Proved!AnswersOf(s))
      BY DEF Attempts!AnswersOf, Proved!AnswersOf, Attempts!Cardinality, Proved!Cardinality
    <2> QED BY <2>1, <2>2 DEF Proved!PathOf, Attempts!PathOf, Proved!ScenarioOf,
            Attempts!ScenarioOf, Proved!AnswersOf, Attempts!AnswersOf, Proved!ResolveNext,
            Attempts!ResolveNext, Proved!IsTerminal, Attempts!IsTerminal
  <1> QED BY <1>1, InvHolds, PTL DEF Inv

-----------------------------------------------------------------------------
(* What Attempt guarantees holds of the committed tables, although each    *)
(* operation is several statements that interleave with others.            *)
LEMMA CardinalitySame == ASSUME NEW S PROVE Proved!Cardinality(S) = Attempts!Cardinality(S)
  BY DEF Proved!Cardinality, Attempts!Cardinality

LEMMA SpecSame == Spec => Proved!Spec
  <1>1. Init => Proved!InitTables
    BY InitSame DEF Init
  <1>2. Inv /\ [Next]_vars => [Proved!Next]_(Proved!tables)
    BY TablesFromInv, TablesStep, NextSame DEF Inv
  <1> QED BY <1>1, <1>2, InvHolds, PTL DEF Spec, Proved!Spec

LEMMA FiniteHere == ASSUME NEW S PROVE Proved!IsFiniteSet(S) <=> Attempts!IsFiniteSet(S)
  BY DEF Proved!IsFiniteSet, Attempts!IsFiniteSet

LEMMA QueriesSame ==
  ASSUME NEW s
  PROVE  /\ Proved!AnswersOf(s) = Attempts!AnswersOf(s)
         /\ Proved!ScenarioOf(s) = Attempts!ScenarioOf(s)
         /\ \A st : Proved!AnswersTo(s, st) = Attempts!AnswersTo(s, st)
         /\ \A o, c : Proved!ActiveSessions(o, c) = Attempts!ActiveSessions(o, c)
  BY DEF Proved!AnswersOf, Attempts!AnswersOf, Proved!ScenarioOf, Attempts!ScenarioOf,
     Proved!AnswersTo, Attempts!AnswersTo, Proved!ActiveSessions, Attempts!ActiveSessions

(* An owner never has two unfinished sessions of a scenario, although two  *)
(* starts, a restart and a claim may overlap (sessions_single_active_idx). *)
THEOREM OneActiveHere == Spec => []Attempts!OneActive
  <1>1. Proved!IInv => Attempts!OneActive
    <2> SUFFICES ASSUME Proved!OneActive
                 PROVE  Attempts!OneActive
      BY DEF Proved!IInv
    <2> QED BY QueriesSame DEF Proved!OneActive, Attempts!OneActive, Proved!Owner,
            Attempts!Owner
  <1> QED BY <1>1, InvHolds, PTL DEF Inv

(* The score of a session is the sum of the weights of its committed       *)
(* answers, although SaveAnswer adds to it by an UPDATE of its own.        *)
THEOREM ScoreIsSumHere == Spec => []Attempts!ScoreIsSum
  <1>1. Proved!IInv => Attempts!ScoreIsSum
    <2> SUFFICES ASSUME Proved!ScoreIsSum
                 PROVE  Attempts!ScoreIsSum
      BY DEF Proved!IInv
    <2>1. ASSUME NEW s, NEW o
          PROVE  Proved!CountOf(s, o) = Attempts!CountOf(s, o)
      BY QueriesSame, CardinalitySame DEF Proved!CountOf, Attempts!CountOf
    <2> QED BY <2>1 DEF Proved!ScoreIsSum, Attempts!ScoreIsSum, Proved!ScoreOf,
            Attempts!ScoreOf, Proved!Weights, Attempts!Weights
  <1> QED BY <1>1, InvHolds, PTL DEF Inv

(* The step an unfinished session stands at has no committed answer, for   *)
(* content without a way back.                                             *)
THEOREM NeverStuckHere ==
  ASSUME \A c \in Code : \A v \in Version(c) : Attempts!NoWayBack(Content[c][v])
  PROVE  Spec => []Attempts!NeverStuck
  <1>1. \A c \in Code : \A v \in Proved!Version(c) : Proved!NoWayBack(Content[c][v])
    BY DEF Version, Proved!Version, Proved!NoWayBack, Attempts!NoWayBack,
       Proved!ResolveNext, Attempts!ResolveNext, Proved!Outcome, Attempts!Outcome
  <1>2. Proved!IInv => Proved!NeverStuck
    BY <1>1, Proved!NeverStuckFromIInv, AssumptionsSame, NoneIsNoStep, OwnersAssumption
  <1>3. Proved!NeverStuck => Attempts!NeverStuck
    BY QueriesSame DEF Proved!NeverStuck, Attempts!NeverStuck
  <1> QED BY <1>2, <1>3, InvHolds, PTL DEF Inv

(* A completed attempt is final whatever late requests still do.           *)
THEOREM CompletedFrozenHere == Spec => Attempts!CompletedFrozen
  <1> DEFINE AbstractFrozen ==
               \A s \in DOMAIN sessions :
                 sessions[s].status = "completed" =>
                   /\ s \in DOMAIN sessions'
                   /\ [sessions'[s] EXCEPT !.owner = sessions[s].owner] = sessions[s]
                   /\ Proved!AnswersOf(s)' = Proved!AnswersOf(s)
             Frozen ==
               \A s \in DOMAIN sessions :
                 sessions[s].status = "completed" =>
                   /\ s \in DOMAIN sessions'
                   /\ [sessions'[s] EXCEPT !.owner = sessions[s].owner] = sessions[s]
                   /\ Attempts!AnswersOf(s)' = Attempts!AnswersOf(s)
  <1>1. Proved!Spec => Proved!CompletedFrozen
    BY Proved!CompletedFrozenHolds, AssumptionsSame, NoneIsNoStep, OwnersAssumption
  <1>2. [AbstractFrozen]_(Proved!tables) => [Frozen]_(Attempts!tables)
    BY DEF Proved!AnswersOf, Attempts!AnswersOf, Proved!tables, Attempts!tables
  <1> QED BY <1>1, <1>2, SpecSame, PTL DEF Proved!CompletedFrozen, Attempts!CompletedFrozen

(* No answer is lost, no session changes its version, none is reopened.    *)
THEOREM RecordKeptHere == Spec => Attempts!RecordKept
  <1> DEFINE Record ==
               /\ answers \subseteq answers'
               /\ \A s \in DOMAIN sessions :
                    /\ s \in DOMAIN sessions'
                    /\ sessions'[s].code = sessions[s].code
                    /\ sessions'[s].version = sessions[s].version
                    /\ sessions[s].status # "in_progress" =>
                         sessions'[s].status # "in_progress"
  <1>1. Proved!Spec => Proved!RecordKept
    BY Proved!RecordKeptHolds, AssumptionsSame, NoneIsNoStep, OwnersAssumption
  <1>2. [Record]_(Proved!tables) => [Record]_(Attempts!tables)
    BY DEF Proved!tables, Attempts!tables
  <1> QED BY <1>1, <1>2, SpecSame, PTL DEF Proved!RecordKept, Attempts!RecordKept

(* A session never has more answers than its version has dialog steps,     *)
(* however often a step is submitted (the unique index on answers).        *)
THEOREM WalkBoundedHere == Spec => []Attempts!WalkBounded
  <1>1. Proved!Spec => []Proved!WalkBounded
    BY Proved!WalkBoundedHolds, AssumptionsSame, NoneIsNoStep, OwnersAssumption
  <1>2. Proved!WalkBounded => Attempts!WalkBounded
    BY QueriesSame, CardinalitySame, FiniteHere DEF Proved!WalkBounded, Attempts!WalkBounded
  <1> QED BY <1>1, <1>2, SpecSame, PTL

-----------------------------------------------------------------------------
(* Waiting.                                                                *)

(* An open INSERT is held up by the UPDATE of another answer or by a claim,*)
(* an UPDATE by nothing, and a claim by these two: so what is not a claim  *)
(* is in no circle.  A claim finds the row it waits for with its own guest *)
(* as the owner, and the entry it waits for made for its own account.      *)
THEOREM OnlyClaimsDeadlockHolds == Spec => []OnlyClaimsDeadlock
  <1>1. Inv => OnlyClaimsDeadlock
    <2> SUFFICES ASSUME LocalsOK, ClaimsOK, NEW h \in Handler, InCircle(h)
                 PROVE  /\ pc[h] \in Claiming
                        /\ \A k \in Handler :
                             Waits(h, k) /\ pc[k] \in Claiming =>
                               loc[k].guest = loc[h].guest \/ loc[k].owner = loc[h].owner
      BY DEF Inv, HInv, OnlyClaimsDeadlock
    <2> DEFINE Holding   == {k \in Handler : pc[k] \in Claiming \cup {"updated"}}
               Inserting == {k \in Handler : pc[k] \in Claiming \cup {"updated", "inserted"}}
    <2>1. ASSUME NEW j \in Handler, NEW k \in Handler, Waits(j, k)
          PROVE  /\ k \in Inserting
                 /\ pc[j] # "updated"
                 /\ pc[j] \in Claiming \cup {"inserted"} => k \in Holding
      BY <2>1 DEF Waits, HoldsKey, HoldsRow, HoldsEntry, Claiming
    <2>2. ClosedUnderWaiting(Holding) /\ ClosedUnderWaiting(Inserting)
          /\ ClosedUnderWaiting({})
      BY <2>1 DEF ClosedUnderWaiting
    <2>3. Holding \in SUBSET Handler /\ Inserting \in SUBSET Handler /\ {} \in SUBSET Handler
      OBVIOUS
    <2>4. pc[h] \in Claiming \cup {"updated", "inserted"}
      BY <2>1, <2>2, <2>3 DEF InCircle
    <2>5. pc[h] # "updated"
      BY <2>1, <2>2, <2>3 DEF InCircle
    <2>6. pc[h] \in Claiming
      BY <2>1, <2>2, <2>3, <2>4, <2>5 DEF InCircle
    <2>7. ASSUME NEW k \in Handler, Waits(h, k), pc[k] \in Claiming
          PROVE  loc[k].guest = loc[h].guest \/ loc[k].owner = loc[h].owner
      <3>1. Claims(loc[h]) /\ Claims(loc[k]) /\ ClaimOK(h)
        BY <2>6, <2>7 DEF ClaimsOK, ClaimOK
      <3>2. CASE pc[h] = "claimRow"
        <4>1. HoldsRow(k, loc[h].sid) /\ loc[h].sid \in loc[h].attempts
          BY <2>7, <3>1, <3>2 DEF Waits, ClaimOK
        <4>2. loc[h].sid \in loc[k].moved
          BY <2>7, <4>1 DEF HoldsRow, Claiming
        <4>3. sessions[loc[h].sid].owner = loc[k].guest
          BY <3>1, <4>2 DEF Claims
        <4>4. sessions[loc[h].sid].owner \in User \cup {loc[h].guest}
          BY <3>1, <4>1 DEF Claims
        <4> QED BY <3>1, <4>3, <4>4, OwnersAssumption DEF Claims
      <3>3. CASE pc[h] = "claimKey"
        <4>1. HoldsEntry(k, loc[h].owner, sessions[loc[h].sid].code)
          BY <2>7, <3>3 DEF Waits
        <4>2. ASSUME NEW s \in ActiveSessions(loc[h].owner, sessions[loc[h].sid].code),
                     HoldsRow(k, s)
              PROVE  FALSE
          <5>1. s \in loc[k].moved /\ sessions[s].owner = loc[h].owner
            BY <2>7, <4>2 DEF HoldsRow, Claiming, ActiveSessions
          <5> QED BY <3>1, <5>1, OwnersAssumption DEF Claims
        <4> QED BY <4>1, <4>2 DEF HoldsEntry
      <3>4. CASE pc[h] = "claimCommit"
        BY <2>7, <3>4 DEF Waits
      <3> QED BY <2>6, <3>2, <3>3, <3>4 DEF Claiming
    <2> QED BY <2>6, <2>7
  <1> QED BY <1>1, InvHolds, PTL

-----------------------------------------------------------------------------
(* The work of a handler.                                                  *)
LEMMA RowsFinite ==
  ASSUME LocalsOK, NEW h \in Handler
  PROVE  IsFiniteSet(loc[h].rows) /\ Cardinality(loc[h].rows) \in Nat
  <1>1. loc[h].rows \subseteq SessionId
    BY DEF LocalsOK, Local
  <1>2. IsFiniteSet(loc[h].rows)
    BY <1>1, SessionIdAssumption, FS_Subset
  <1> QED BY <1>2, FS_CardinalityType

(* A step that leaves the claiming statements, or is not of a claim.       *)
LEMMA ShorterPath ==
  ASSUME LocalsOK, NEW h \in Handler, NEW to \in PC \ Claiming, pc'[h] = to,
         StatementsLeft[to] < StatementsLeft[pc[h]]
  PROVE  WorkLeft(h)' < WorkLeft(h)
  <1>1. Cardinality(loc[h].rows) \in Nat
    BY RowsFinite
  <1>2. StatementsLeft[to] \in Nat /\ StatementsLeft[pc[h]] \in Nat
    BY DEF LocalsOK, PC, Starting, Submitting, Claiming, StatementsLeft
  <1>3. WorkLeft(h)' = StatementsLeft[to]
    BY <1>2 DEF WorkLeft
  <1>4. StatementsLeft[pc[h]] <= WorkLeft(h)
    BY <1>1, <1>2 DEF WorkLeft
  <1> QED BY <1>1, <1>2, <1>3, <1>4 DEF WorkLeft

(* A claim that goes on has fewer rows to come, or none.                   *)
LEMMA GoesOnShorter ==
  ASSUME LocalsOK, NEW h \in Handler, NEW l, NEW m, GoesOn(h, l, m), l.rows = loc[h].rows,
         pc[h] \in {"claimRow", "claimKey"}
  PROVE  WorkLeft(h)' < WorkLeft(h)
  <1> DEFINE n == Cardinality(loc[h].rows)
  <1>1. IsFiniteSet(loc[h].rows) /\ n \in Nat
    BY RowsFinite
  <1>2. WorkLeft(h) = StatementsLeft[pc[h]] + 2 * n
    BY DEF WorkLeft, Claiming
  <1>3. CASE pc'[h] = "claimCommit" /\ m.rows = {}
    <2>1. Cardinality(loc'[h].rows) = 0
      BY <1>3, FS_EmptySet DEF GoesOn
    <2>2. WorkLeft(h)' = 2
      BY <1>3, <2>1 DEF WorkLeft, Claiming, StatementsLeft
    <2> QED BY <1>1, <1>2, <2>2 DEF StatementsLeft
  <1>4. CASE pc'[h] = "claimRow" /\ m.sid \in l.rows /\ m.rows = l.rows \ {m.sid}
    <2>1. Cardinality(loc'[h].rows) = n - 1
      BY <1>1, <1>4, FS_RemoveElement DEF GoesOn
    <2>2. WorkLeft(h)' = 4 + 2 * (n - 1)
      BY <1>4, <2>1 DEF WorkLeft, Claiming, StatementsLeft
    <2> QED BY <1>1, <1>2, <2>2 DEF StatementsLeft
  <1> QED BY <1>3, <1>4 DEF GoesOn

LEMMA ArriveMoves ==
  ASSUME LocalsOK, NEW h \in Handler, Arrive(h)
  PROVE  /\ pc[h] = "idle"
         /\ \A k \in Handler \ {h} : pc'[k] = pc[k] /\ loc'[k] = loc[k]
  <1>1. /\ pc[h] = "idle" /\ \E to : pc' = [pc EXCEPT ![h] = to]
        /\ \E l : loc' = [loc EXCEPT ![h] = l]
    BY DEF Arrive, StartLoad, SubmitGet, AbandonGet, ClaimStart, NextRow, CardLoad, Get,
       Respond, Goto, Set
  <1> QED BY <1>1 DEF LocalsOK

(* Where the statements of a request lead.                                 *)
LEMMA ProceedMoves ==
  ASSUME TablesOK, HInv, NEW h \in Handler, Proceed(h)
  PROVE  WorkLeft(h)' < WorkLeft(h)
  <1> DEFINE Moves(at, S) == pc[h] = at /\ \E to \in S : Goto(h, to)
  <1>0. LocalsOK
    BY DEF HInv
  <1>1. StartFind(h) => Moves("find", {"abandonOld", "create"})
    BY DEF StartFind
  <1>2. StartAbandonOld(h) => Moves("abandonOld", {"create", "done"})
    BY DEF StartAbandonOld, Respond
  <1>3. StartCreate(h) => Moves("create", {"conflict", "done"})
    BY DEF StartCreate, Respond
  <1>4. StartConflict(h) => Moves("conflict", {"done"})
    BY DEF StartConflict, Respond
  <1>5. SubmitCheck(h) => Moves("check", {"resolve", "done"})
    BY DEF SubmitCheck, Respond
  <1>6. SubmitResolve(h) => Moves("resolve", {"ready", "done"})
    BY DEF SubmitResolve, Respond
  <1>7. SaveInsert(h) => Moves("ready", {"inserted", "done"})
    BY DEF SaveInsert, Respond
  <1>8. SaveUpdate(h) => Moves("inserted", {"updated"})
    BY DEF SaveUpdate
  <1>9. SaveCommit(h) => Moves("updated", {"done"})
    BY DEF SaveCommit, Respond
  <1>10. AbandonExec(h) => Moves("abandon", {"done"})
    BY DEF AbandonExec, Respond
  <1>11. CardStats(h) => Moves("cardStats", {"cardActive", "done"})
    BY DEF CardStats, Respond
  <1>12. CardActive(h) => Moves("cardActive", {"done"})
    BY DEF CardActive, Respond
  <1>13. Finish(h) => Moves("done", {"idle"})
    BY DEF Finish
  <1>14. ClaimCommit(h) => Moves("claimCommit", {"done"})
    BY DEF ClaimCommit, Respond
  <1>15. CASE ClaimRow(h)
    <2>1. pc[h] = "claimRow" /\ Taken(loc[h]).rows = loc[h].rows
      BY <1>15, TakenOK DEF ClaimRow
    <2>2. CASE pc'[h] = "claimKey" /\ loc'[h] = Taken(loc[h])
      <3>1. Cardinality(loc[h].rows) \in Nat
        BY <1>0, RowsFinite
      <3> QED BY <2>1, <2>2, <3>1 DEF WorkLeft, Claiming, StatementsLeft
    <2> QED BY <1>0, <1>15, <2>1, <2>2, ClaimMoves, GoesOnShorter
  <1>16. CASE ClaimKey(h)
    <2>1. pc[h] = "claimKey"
      BY <1>16 DEF ClaimKey
    <2>2. CASE Respond(h, "claimFailed", NoLocal)
      <3>1. pc'[h] = "done" /\ StatementsLeft["done"] < StatementsLeft[pc[h]]
        BY <1>0, <2>1, <2>2 DEF Respond, Goto, LocalsOK, StatementsLeft
      <3>2. "done" \in PC \ Claiming
        BY DEF PC, Claiming
      <3> QED BY <1>0, <3>1, <3>2, ShorterPath
    <2> QED BY <1>0, <1>16, <2>1, <2>2, ClaimMoves, GoesOnShorter
  <1>17. CASE DeadlockDetected(h)
    <2>1. \E k \in Handler : Waits(h, k)
      <3>1. {} \in SUBSET Handler /\ ClosedUnderWaiting({})
        BY DEF ClosedUnderWaiting
      <3> QED BY <1>17, <3>1 DEF DeadlockDetected, InCircle
    <2>2. pc[h] \in {"ready", "inserted", "claimRow", "claimKey", "abandonOld", "abandon",
                     "create"}
      BY <2>1 DEF Waits
    <2>3. pc'[h] = "done" /\ StatementsLeft["done"] < StatementsLeft[pc[h]]
      BY <1>0, <1>17, <2>2 DEF DeadlockDetected, Respond, Goto, LocalsOK, StatementsLeft
    <2>4. "done" \in PC \ Claiming
      BY DEF PC, Claiming
    <2> QED BY <1>0, <2>3, <2>4, ShorterPath
  <1>20. ASSUME NEW to \in PC \ Claiming, Goto(h, to),
                StatementsLeft[to] < StatementsLeft[pc[h]]
         PROVE  WorkLeft(h)' < WorkLeft(h)
    <2>1. pc'[h] = to
      BY <1>0, <1>20 DEF Goto, LocalsOK
    <2> QED BY <1>0, <1>20, <2>1, ShorterPath
  <1>21. ASSUME ~ClaimRow(h), ~ClaimKey(h), ~DeadlockDetected(h)
         PROVE  \E to \in PC \ Claiming :
                  Goto(h, to) /\ StatementsLeft[to] < StatementsLeft[pc[h]]
    BY <1>1, <1>2, <1>3, <1>4, <1>5, <1>6, <1>7, <1>8, <1>9, <1>10, <1>11, <1>12, <1>13,
       <1>14, <1>21 DEF Proceed, PC, Starting, Submitting, Claiming, StatementsLeft
  <1> QED BY <1>15, <1>16, <1>17, <1>20, <1>21

(* A request is a few statements, a claim two or three for every session   *)
(* of the guest: each one brings its handler closer to the end and none    *)
(* restarts it (session.go has no retry loop).                             *)
THEOREM FewStatementsHolds == Spec => FewStatements
  <1> DEFINE Closer(h) == pc[h] # "idle" /\ <<pc'[h], loc'[h]>> # <<pc[h], loc[h]>> =>
                            WorkLeft(h)' < WorkLeft(h)
  <1>1. TablesOK /\ HInv /\ [Next]_vars => [\A h \in Handler : Closer(h)]_vars
    <2> SUFFICES ASSUME TablesOK, HInv, Next
                 PROVE  \A h \in Handler : Closer(h)
      OBVIOUS
    <2>0. LocalsOK
      BY DEF HInv
    <2>1. ASSUME NEW h \in Handler, Arrive(h)
          PROVE  \A k \in Handler : Closer(k)
      <3>1. /\ pc[h] = "idle"
            /\ \A k \in Handler \ {h} : pc'[k] = pc[k] /\ loc'[k] = loc[k]
        BY <2>0, <2>1, ArriveMoves
      <3> QED BY <3>1
    <2>2. ASSUME NEW h \in Handler, Proceed(h)
          PROVE  \A k \in Handler : Closer(k)
      <3>1. /\ \A k \in Handler \ {h} : pc'[k] = pc[k] /\ loc'[k] = loc[k]
            /\ WorkLeft(h)' < WorkLeft(h)
        BY <2>2, ProceedMoves, OwnStep DEF OwnOK
      <3> QED BY <3>1
    <2>3. ASSUME NEW h \in Handler, Fail(h)
          PROVE  \A k \in Handler : Closer(k)
      <3>1. /\ pc'[h] = "idle" /\ pc[h] \in PC \ {"idle"}
            /\ \A k \in Handler \ {h} : pc'[k] = pc[k] /\ loc'[k] = loc[k]
        BY <2>0, <2>3, OwnStep DEF Fail, LocalsOK, OwnOK
      <3>2. "idle" \in PC \ Claiming /\ StatementsLeft["idle"] < StatementsLeft[pc[h]]
        BY <3>1 DEF PC, Starting, Submitting, Claiming, StatementsLeft
      <3> QED BY <2>0, <3>1, <3>2, ShorterPath
    <2>4. ASSUME NEW c \in Code, Publish(c)
          PROVE  \A k \in Handler : Closer(k)
      BY <2>4 DEF Publish
    <2> QED BY <2>1, <2>2, <2>3, <2>4 DEF Next
  <1>2. Inv => TablesOK /\ HInv
    BY TablesFromInv DEF Inv
  <1> QED BY <1>1, <1>2, InvHolds, PTL DEF Spec, FewStatements

=============================================================================
