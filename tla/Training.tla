------------------------------ MODULE Training ------------------------------
(***************************************************************************)
(* The training engine as it runs: concurrent HTTP requests, each handled  *)
(* by a goroutine that issues SQL statements one after the other against   *)
(* PostgreSQL (READ COMMITTED).  Between two statements any other request  *)
(* may run, and what a handler read may be stale when it is used.          *)
(*                                                                         *)
(* A handler is at pc[h] with locals loc[h].  SaveAnswer is a transaction  *)
(* and ClaimByGuest a statement on many rows: what they have written is    *)
(* visible to others only as locks until they commit.                      *)
(*   inserted  holds the key (session, step) of the index on answers,      *)
(*   updated   holds in addition the lock on the sessions row,             *)
(*   claim...  holds the rows in moved, and their entries in the index     *)
(*             sessions_single_active_idx.                                 *)
(* Everything else is a single autocommitted statement on one row.         *)
(*                                                                         *)
(* The service between the handlers and the repository is not in the       *)
(* repository: its steps are those its interface (service/service.go) and  *)
(* the API contract describe.                                              *)
(***************************************************************************)
EXTENDS SessionStore

CONSTANTS
  Handler,      \* goroutines serving requests at the same time
  Pick          \* the options clients choose; unknown codes come on top

ASSUME PickAssumption == Pick \subseteq Outcome

VARIABLES
  pc,           \* pc[h]: the statement handler h issues next
  loc           \* loc[h]: what it has been asked and has read

vars == <<sessions, answers, active, pc, loc>>

Attempts == INSTANCE Attempt

Starting   == {"find", "abandonOld", "create", "conflict"}
Submitting == {"check", "resolve", "ready", "inserted", "updated"}
Claiming   == {"claimRow", "claimKey", "claimCommit"}
PC == {"idle", "done", "abandon", "cardStats", "cardActive"}
        \cup Starting \cup Submitting \cup Claiming

Reply == {"none", "created", "activeSession", "startNotFound", "notFound",
          "saved", "alreadyAnswered", "finished", "notCurrent",
          "optionNotFound", "internal", "abandoned", "claimed", "claimFailed", "card"}

Local == [owner: Owner \cup {None}, code: Code \cup {None}, version: Nat,
          sid: SessionId \cup {None}, status: Status \cup {None},
          step: Step \cup {None}, option: Outcome \cup {None},
          position: Nat, attempts: SUBSET SessionId, guest: Guest \cup {None},
          rows: SUBSET SessionId, moved: SUBSET SessionId, reply: Reply]

NoLocal == [owner |-> None, code |-> None, version |-> 0, sid |-> None,
            status |-> None, step |-> None, option |-> None,
            position |-> 0, attempts |-> {}, guest |-> None,
            rows |-> {}, moved |-> {}, reply |-> "none"]

LocalsOK ==
  /\ pc \in [Handler -> PC]
  /\ loc \in [Handler -> Local]

TypeInv == TypeOK /\ LocalsOK

Init ==
  /\ InitTables
  /\ pc = [h \in Handler |-> "idle"]
  /\ loc = [h \in Handler |-> NoLocal]

-----------------------------------------------------------------------------
(* Control of a handler, and the locks of its transaction.                 *)

Goto(h, to) == pc' = [pc EXCEPT ![h] = to]

Set(h, l) == loc' = [loc EXCEPT ![h] = l]

(* Answers the request and forgets the locals but those the reply shows.   *)
Respond(h, reply, shown) ==
  /\ Goto(h, "done")
  /\ Set(h, [shown EXCEPT !.reply = reply])

(* Broken variant: the index on answers is not unique.                     *)
HoldsNoKey(k, s, st) == FALSE

(* A row of answers inserted by a transaction that has not ended makes     *)
(* another INSERT of the same key wait.                                    *)
HoldsKey(k, s, st) ==
  pc[k] \in {"inserted", "updated"} /\ loc[k].sid = s /\ loc[k].step = st

(* A row of sessions updated by a transaction that has not ended makes     *)
(* another UPDATE of it wait.                                              *)
HoldsRow(k, s) ==
  \/ pc[k] = "updated" /\ loc[k].sid = s
  \/ pc[k] \in Claiming /\ s \in loc[k].moved

(* An entry (o, c) of sessions_single_active_idx makes another one wait if *)
(* its row is locked, or is being claimed for o: whether the entry will be *)
(* there is not decided yet.  A claim makes the entries of its rows one by *)
(* one; at claimKey that of its current row is still to come.              *)
HoldsEntry(k, o, c) ==
  \/ \E s \in ActiveSessions(o, c) : HoldsRow(k, s)
  \/ /\ pc[k] \in Claiming /\ loc[k].owner = o
     /\ \E s \in loc[k].moved \ {loc[k].sid} :
          sessions[s].code = c /\ sessions[s].status = "in_progress"

(* The statement of handler h waits for the transaction of k to end.       *)
Waits(h, k) ==
  LET l == loc[h]
  IN  /\ k # h
      /\ \/ pc[h] = "ready" /\ HoldsKey(k, l.sid, l.step)
         \/ pc[h] \in {"inserted", "claimRow"} /\ HoldsRow(k, l.sid)
         \/ /\ pc[h] \in {"abandonOld", "abandon"}
            /\ sessions[l.sid].status = "in_progress"
            /\ HoldsRow(k, l.sid)
         \/ pc[h] = "create" /\ HoldsEntry(k, l.owner, l.code)
         \/ pc[h] = "claimKey" /\ HoldsEntry(k, l.owner, sessions[l.sid].code)

Granted(h) == \A k \in Handler : ~Waits(h, k)

(* h waits for itself, through others: it is in every set of handlers that *)
(* h waits for and that is closed under waiting.                           *)
ClosedUnderWaiting(C) == \A j \in C, k \in Handler : Waits(j, k) => k \in C

InCircle(h) ==
  \A C \in SUBSET Handler :
    /\ \A k \in Handler : Waits(h, k) => k \in C
    /\ ClosedUnderWaiting(C)
    => h \in C

-----------------------------------------------------------------------------
(* Start(owner, code, restart).                                            *)

(* Room for the sessions being created; bounds the table.                  *)
RoomToStart ==
  Cardinality(DOMAIN sessions) + Cardinality({h \in Handler : pc[h] \in Starting})
    < Cardinality(SessionId)

(* The request arrives and the active version of the scenario is read.     *)
StartLoad(h) ==
  /\ pc[h] = "idle"
  /\ RoomToStart
  /\ \E restart \in BOOLEAN : Goto(h, IF restart THEN "find" ELSE "create")
  /\ \E o \in Owner, c \in Code :
       Set(h, [NoLocal EXCEPT !.owner = o, !.code = c, !.version = active[c]])
  /\ UNCHANGED tables

(* restart: looks for the unfinished session to replace.                   *)
StartFind(h) ==
  LET found == ActiveSessions(loc[h].owner, loc[h].code)
  IN  /\ pc[h] = "find"
      /\ \/ \E s \in found : /\ Goto(h, "abandonOld")
                             /\ Set(h, [loc[h] EXCEPT !.sid = s])
         \/ found = {} /\ Goto(h, "create") /\ UNCHANGED loc
      /\ UNCHANGED tables

(* restart: the old session is abandoned by a statement of its own; if it  *)
(* ended meanwhile no row matches and the repository returns ErrNotFound,  *)
(* on which the service may go on or give up.                              *)
StartAbandonOld(h) ==
  LET s == loc[h].sid
  IN  /\ pc[h] = "abandonOld"
      /\ Granted(h)
      /\ \/ /\ sessions[s].status = "in_progress"
            /\ Goto(h, "create")
            /\ Set(h, [loc[h] EXCEPT !.sid = None])
            /\ UpdateAbandoned(s)
            /\ UNCHANGED <<answers, active>>
         \/ /\ sessions[s].status # "in_progress"
            /\ \/ /\ Goto(h, "create")
                  /\ Set(h, [loc[h] EXCEPT !.sid = None])
               \/ Respond(h, "notFound", NoLocal)
            /\ UNCHANGED tables

(* sessionRepository.Create: the unique index turns a second unfinished    *)
(* session into a conflict, after waiting for a transaction it depends on. *)
StartCreate(h) ==
  LET l == loc[h]
      found == ActiveSessions(l.owner, l.code)
  IN  /\ pc[h] = "create"
      /\ Granted(h)
      /\ \/ /\ found = {}
            /\ \E s \in SessionId \ DOMAIN sessions :
                 /\ InsertSession(s, l.owner, l.code, l.version)
                 /\ Respond(h, "created", [NoLocal EXCEPT !.sid = s])
            /\ UNCHANGED <<answers, active>>
         \/ /\ found # {}
            /\ Goto(h, "conflict")
            /\ UNCHANGED <<loc, tables>>

(* Create after a conflict: reads the session it collided with, which may  *)
(* be gone by now; the wrapped ErrNotFound then reaches the client as 404. *)
StartConflict(h) ==
  LET found == ActiveSessions(loc[h].owner, loc[h].code)
  IN  /\ pc[h] = "conflict"
      /\ \/ \E s \in found :
              Respond(h, "activeSession", [NoLocal EXCEPT !.sid = s])
         \/ found = {} /\ Respond(h, "startNotFound", NoLocal)
      /\ UNCHANGED tables

-----------------------------------------------------------------------------
(* SubmitAnswer(owner, session, step, option).                             *)

(* Get and the owner check: a foreign session does not exist for its       *)
(* client.  Shared with Abandon, which goes on with the row it read.       *)
Get(h, to) ==
  \E o \in Owner, s \in SessionId :
    \/ /\ s \in DOMAIN sessions
       /\ sessions[s].owner = o
       /\ Goto(h, to)
       /\ Set(h, [NoLocal EXCEPT !.sid = s, !.status = sessions[s].status,
                                 !.step = sessions[s].step])
    \/ /\ s \in DOMAIN sessions => sessions[s].owner # o
       /\ Respond(h, "notFound", NoLocal)

SubmitGet(h) == pc[h] = "idle" /\ Get(h, "check") /\ UNCHANGED tables

(* Broken variant: the repeated answer is echoed, not read.                *)
SubmitCheckEchoes(h) ==
  LET l == loc[h]
  IN  /\ pc[h] = "check"
      /\ \E st \in Step :
           \/ /\ AnswersTo(l.sid, st) # {}
              /\ \E option \in Pick :
                   Respond(h, "alreadyAnswered",
                           [NoLocal EXCEPT !.sid = l.sid, !.step = st, !.option = option])
           \/ /\ AnswersTo(l.sid, st) = {}
              /\ l.status = "in_progress" /\ st = l.step
              /\ Goto(h, "resolve")
              /\ UNCHANGED loc
      /\ UNCHANGED tables

(* GetAnswer first: an answered step returns the stored result whatever    *)
(* the state of the session.  Then the session as it was read.             *)
SubmitCheck(h) ==
  LET l == loc[h]
  IN  /\ pc[h] = "check"
      /\ \E st \in Step :
           \/ \E r \in AnswersTo(l.sid, st) :
                Respond(h, "alreadyAnswered",
                        [NoLocal EXCEPT !.sid = l.sid, !.step = st, !.option = r.option])
           \/ /\ AnswersTo(l.sid, st) = {}
              /\ \/ /\ l.status # "in_progress"
                    /\ Respond(h, "finished", NoLocal)
                 \/ /\ l.status = "in_progress" /\ st # l.step
                    /\ Respond(h, "notCurrent", NoLocal)
                 \/ /\ l.status = "in_progress" /\ st = l.step
                    /\ Goto(h, "resolve")
                    /\ UNCHANGED loc
      /\ UNCHANGED tables

(* Broken variant: the option of the request is taken as it comes.         *)
SubmitResolveUnchecked(h) ==
  LET l == loc[h]
  IN  /\ pc[h] = "resolve"
      /\ \E option \in Pick \cup {"unknown"} :
           /\ Goto(h, "ready")
           /\ Set(h, [l EXCEPT !.option = option,
                        !.position = PathPosition(Cardinality(AnswersOf(l.sid)))])
      /\ UNCHANGED tables

(* ResolveNext on the pinned version, and the position from the number of  *)
(* answers so far.                                                         *)
SubmitResolve(h) ==
  LET l == loc[h]
  IN  /\ pc[h] = "resolve"
      /\ \/ \E option \in Pick :
              /\ Goto(h, "ready")
              /\ Set(h, [l EXCEPT !.option = option,
                           !.position = PathPosition(Cardinality(AnswersOf(l.sid)))])
         \/ Respond(h, "optionNotFound", NoLocal)
      /\ UNCHANGED tables

(* Broken variants of SaveInsert: INSERT ... ON CONFLICT DO NOTHING, the   *)
(* transaction goes on after a duplicate; a duplicate is tried again.      *)
SaveInsertAnyway(h) ==
  /\ pc[h] = "ready"
  /\ Granted(h)
  /\ Goto(h, "inserted")
  /\ UNCHANGED <<loc, tables>>

SaveInsertRetried(h) ==
  /\ pc[h] = "ready"
  /\ Granted(h)
  /\ Goto(h, IF AnswersTo(loc[h].sid, loc[h].step) = {} THEN "inserted" ELSE "ready")
  /\ UNCHANGED <<loc, tables>>

(* SaveAnswer, INSERT: waits for a transaction that inserted the same key; *)
(* on a committed duplicate the transaction is rolled back.                *)
SaveInsert(h) ==
  LET l == loc[h]
  IN  /\ pc[h] = "ready"
      /\ Granted(h)
      /\ \/ /\ AnswersTo(l.sid, l.step) = {}
            /\ Goto(h, "inserted")
            /\ UNCHANGED loc
         \/ /\ AnswersTo(l.sid, l.step) # {}
            /\ Respond(h, "internal", NoLocal)
      /\ UNCHANGED tables

(* SaveAnswer, UPDATE: takes the lock on the row.                          *)
SaveUpdate(h) ==
  /\ pc[h] = "inserted"
  /\ Granted(h)
  /\ Goto(h, "updated")
  /\ UNCHANGED <<loc, tables>>

(* SaveAnswer, COMMIT: the row and the new answer become visible.          *)
SaveCommit(h) ==
  LET l == loc[h]
  IN  /\ pc[h] = "updated"
      /\ Respond(h, "saved",
                 [NoLocal EXCEPT !.sid = l.sid, !.step = l.step, !.option = l.option])
      /\ ApplyAnswer(l.sid, l.step, l.option, l.position)
      /\ UNCHANGED active

-----------------------------------------------------------------------------
(* Abandon(owner, session): idempotent on an abandoned session, refused on *)
(* a completed one, otherwise one guarded UPDATE.                          *)

AbandonGet(h) == pc[h] = "idle" /\ Get(h, "abandon") /\ UNCHANGED tables

AbandonExec(h) ==
  LET l == loc[h]
  IN  /\ pc[h] = "abandon"
      /\ \/ /\ l.status # "in_progress"
            /\ Respond(h, IF l.status = "abandoned" THEN "abandoned" ELSE "finished", NoLocal)
            /\ UNCHANGED tables
         \/ /\ l.status = "in_progress" /\ Granted(h)
            /\ \/ /\ sessions[l.sid].status = "in_progress"
                  /\ Respond(h, "abandoned", NoLocal)
                  /\ UpdateAbandoned(l.sid)
                  /\ UNCHANGED <<answers, active>>
               \/ /\ sessions[l.sid].status # "in_progress"
                  /\ Respond(h, "notFound", NoLocal)
                  /\ UNCHANGED tables

-----------------------------------------------------------------------------
(* ClaimByGuest after Register or Login: one UPDATE over the rows it finds *)
(* when it begins, in the order of the plan, which the statement leaves    *)
(* open.                                                                   *)

(* Broken variant: a row is skipped while another transaction holds it.    *)
NextRowSkipsHeld(h, l) ==
  LET skipped == {s \in l.rows : \E k \in Handler \ {h} : HoldsRow(k, s)}
  IN  \/ /\ l.rows \subseteq skipped
         /\ Goto(h, "claimCommit")
         /\ Set(h, [l EXCEPT !.sid = None, !.rows = {}])
      \/ \E s \in l.rows \ skipped :
           /\ Goto(h, "claimRow")
           /\ Set(h, [l EXCEPT !.sid = s, !.rows = @ \ {s}])

NextRow(h, l) ==
  \/ /\ l.rows = {}
     /\ Goto(h, "claimCommit")
     /\ Set(h, [l EXCEPT !.sid = None])
  \/ \E s \in l.rows : /\ Goto(h, "claimRow")
                      /\ Set(h, [l EXCEPT !.sid = s, !.rows = @ \ {s}])

ClaimStart(h) ==
  /\ pc[h] = "idle"
  /\ \E g \in Guest, u \in User :
       NextRow(h, [NoLocal EXCEPT !.guest = g, !.owner = u,
                     !.attempts = SessionsOf(g), !.rows = SessionsOf(g)])
  /\ UNCHANGED tables

(* The lock on the row, which may have been claimed by somebody else while *)
(* this statement waited, and then does not match any more.                *)
ClaimRow(h) ==
  LET l     == loc[h]
      taken == [l EXCEPT !.moved = @ \cup {l.sid}]
  IN  /\ pc[h] = "claimRow"
      /\ Granted(h)
      /\ \/ sessions[l.sid].owner # l.guest /\ NextRow(h, l)
         \/ /\ sessions[l.sid].owner = l.guest
            /\ \/ /\ sessions[l.sid].status = "in_progress"
                  /\ Goto(h, "claimKey") /\ Set(h, taken)
               \/ sessions[l.sid].status # "in_progress" /\ NextRow(h, taken)
      /\ UNCHANGED tables

(* The entry of an unfinished session: the account's own unfinished session*)
(* of the scenario fails the statement, and with it all its rows.          *)
ClaimKey(h) ==
  LET l     == loc[h]
      found == ActiveSessions(l.owner, sessions[l.sid].code)
  IN  /\ pc[h] = "claimKey"
      /\ Granted(h)
      /\ \/ found = {} /\ NextRow(h, l)
         \/ found # {} /\ Respond(h, "claimFailed", NoLocal)
      /\ UNCHANGED tables

ClaimCommit(h) ==
  LET l == loc[h]
  IN  /\ pc[h] = "claimCommit"
      /\ UpdateOwner(l.moved, l.owner)
      /\ Respond(h, "claimed", [NoLocal EXCEPT !.attempts = l.attempts])
      /\ UNCHANGED <<answers, active>>

-----------------------------------------------------------------------------
(* catalogService.Get and List: what a card shows of the client's own      *)
(* sessions is read by two queries, after the scenario.                    *)

(* GetActiveByCode.  Only a user has statistics: a guest's card is ready.  *)
CardLoad(h) ==
  /\ pc[h] = "idle"
  /\ \/ \E u \in User, c \in Code : /\ Goto(h, "cardStats")
                                    /\ Set(h, [NoLocal EXCEPT !.owner = u, !.code = c])
     \/ Respond(h, "card", NoLocal)
  /\ UNCHANGED tables

(* scenarioStats: the completed attempts.  List ends here.                 *)
CardStats(h) ==
  LET l == [loc[h] EXCEPT !.attempts = {s \in SessionsOf(loc[h].owner) :
                                          /\ sessions[s].code = loc[h].code
                                          /\ sessions[s].status = "completed"}]
  IN  /\ pc[h] = "cardStats"
      /\ \/ Goto(h, "cardActive") /\ Set(h, l)
         \/ Respond(h, "card", l)
      /\ UNCHANGED tables

(* Broken variant: the session to continue is looked up without its status.*)
CardActiveAny(h) ==
  LET own == {s \in SessionsOf(loc[h].owner) : sessions[s].code = loc[h].code}
  IN  /\ pc[h] = "cardActive"
      /\ \/ \E s \in own : Respond(h, "card", [loc[h] EXCEPT !.sid = s])
         \/ own = {} /\ Respond(h, "card", loc[h])
      /\ UNCHANGED tables

(* Get: the unfinished session the card offers to continue (FR12).         *)
CardActive(h) ==
  LET found == ActiveSessions(loc[h].owner, loc[h].code)
  IN  /\ pc[h] = "cardActive"
      /\ \/ \E s \in found : Respond(h, "card", [loc[h] EXCEPT !.sid = s])
         \/ found = {} /\ Respond(h, "card", loc[h])
      /\ UNCHANGED tables

-----------------------------------------------------------------------------
(* The reply is written, or the client is gone: the same to the server.    *)
Finish(h) == /\ pc[h] = "done"
             /\ Goto(h, "idle")
             /\ Set(h, NoLocal)
             /\ UNCHANGED tables

(* The process dies, the request times out or the connection breaks: an    *)
(* open transaction is rolled back, committed statements stay.             *)
Fail(h) == /\ pc[h] \notin {"idle", "done"}
           /\ pc' = [pc EXCEPT ![h] = "idle"]
           /\ Set(h, NoLocal)
           /\ UNCHANGED tables

(* PostgreSQL ends a circle of waiting transactions by failing one of them.*)
DeadlockDetected(h) ==
  /\ InCircle(h)
  /\ Respond(h, IF pc[h] \in Claiming THEN "claimFailed" ELSE "internal", NoLocal)
  /\ UNCHANGED tables

Publish(c) == PublishNext(c) /\ UNCHANGED <<sessions, answers, pc, loc>>

Arrive(h) ==
  StartLoad(h) \/ SubmitGet(h) \/ AbandonGet(h) \/ ClaimStart(h) \/ CardLoad(h)

Proceed(h) ==
  \/ StartFind(h) \/ StartAbandonOld(h) \/ StartCreate(h) \/ StartConflict(h)
  \/ SubmitCheck(h) \/ SubmitResolve(h)
  \/ SaveInsert(h) \/ SaveUpdate(h) \/ SaveCommit(h)
  \/ AbandonExec(h) \/ ClaimRow(h) \/ ClaimKey(h) \/ ClaimCommit(h)
  \/ CardStats(h) \/ CardActive(h) \/ Finish(h) \/ DeadlockDetected(h)

Next ==
  \/ \E h \in Handler : Arrive(h) \/ Proceed(h) \/ Fail(h)
  \/ \E c \in Code : Publish(c)

Spec == Init /\ [][Next]_vars

(* A goroutine runs, and PostgreSQL grants a lock to its waiters in order: *)
(* a handler that can go on again and again does.                          *)
FairSpec == Spec /\ \A h \in Handler : SF_vars(Proceed(h))

-----------------------------------------------------------------------------
(* Safety, of the committed tables.                                        *)

(* A session walks the version it was started on, although another version *)
(* may be published between the read of the active one and the INSERT.     *)
AnswersFormPath == Attempts!AnswersFormPath

(* Whatever statements interleave, the committed tables change as if each  *)
(* operation had happened in one step; so what Attempt guarantees of one   *)
(* active session, of scores, of completed attempts holds here too.        *)
ImplementsAttempt == Attempts!Spec

(* A stale handler is harmless: as long as the step it is about to answer  *)
(* has no answer, the session still stands at that step, is not completed, *)
(* and the position computed before is the next one; once the step has an  *)
(* answer the unique index rejects the INSERT.                             *)
Fresh(h) ==
  LET l == loc[h]
  IN  /\ pc[h] \in Submitting /\ l.status = "in_progress"
           /\ AnswersTo(l.sid, l.step) = {}
         => /\ sessions[l.sid].step = l.step
            /\ sessions[l.sid].status # "completed"
            /\ pc[h] \in {"ready", "inserted", "updated"} =>
                 l.position = PathPosition(Cardinality(AnswersOf(l.sid)))
      /\ pc[h] \in {"inserted", "updated"} => AnswersTo(l.sid, l.step) = {}

HandlerFresh == \A h \in Handler : Fresh(h)

(* The attempts a card counts are finished ones of the user, and the       *)
(* session it offers to continue is the user's and none of these, although *)
(* the two are read one after the other and sessions end, begin and are    *)
(* claimed in between.  The card of anybody else shows neither (FR4, FR12).*)
CardHolds(l) ==
  /\ l.attempts \cup {l.sid} # {None} => l.owner \in User
  /\ \A s \in l.attempts : /\ s \in SessionsOf(l.owner)
                           /\ sessions[s].code = l.code
                           /\ sessions[s].status = "completed"
  /\ l.sid # None => l.sid \in SessionsOf(l.owner) \ l.attempts

(* What a client has been told is in the database: the choice shown in a   *)
(* reply, new or repeated, is the stored one (FR13), a card agrees with the*)
(* sessions, and after a claim that succeeded all those the guest had when  *)
(* it began belong to accounts, whatever it met on its way through them.   *)
Confirmed(l) ==
  /\ l.reply \in {"saved", "alreadyAnswered"} =>
       \E r \in AnswersTo(l.sid, l.step) : r.option = l.option
  /\ l.reply = "card" => CardHolds(l)
  /\ l.reply = "claimed" =>
       \A s \in l.attempts : s \in DOMAIN sessions /\ sessions[s].owner \in User

ReplyIsStored == \A h \in Handler : Confirmed(loc[h])

(* An abandoned attempt stays abandoned: it takes no part in progress and  *)
(* has no debrief.                                                         *)
AbandonedIsFinal ==
  [][\A s \in DOMAIN sessions :
       sessions[s].status = "abandoned" => sessions'[s].status = "abandoned"]_tables

(* Only claims get into a circle: an answer, a start or an abandonment is  *)
(* held up by transactions that go on, or by a circle of claims, which the *)
(* database breaks.  Claims hold up each other only if they are of one     *)
(* guest, whose rows they take in any order, or for one account, whose     *)
(* entries they make in any order.                                         *)
OnlyClaimsDeadlock ==
  \A h \in Handler :
    InCircle(h) =>
      /\ pc[h] \in Claiming
      /\ \A k \in Handler :
           Waits(h, k) /\ pc[k] \in Claiming =>
             loc[k].guest = loc[h].guest \/ loc[k].owner = loc[h].owner

(* The statements a request may still take, a claim counting two for every *)
(* row to come: no handler retries or loops.                               *)
StatementsLeft ==
  [idle |-> 0, done |-> 1,
   find |-> 6, abandonOld |-> 5, create |-> 4, conflict |-> 3,
   check |-> 6, resolve |-> 5, ready |-> 4, inserted |-> 3, updated |-> 2,
   abandon |-> 2, cardStats |-> 3, cardActive |-> 2,
   claimRow |-> 4, claimKey |-> 3, claimCommit |-> 2]

WorkLeft(h) ==
  StatementsLeft[pc[h]]
    + IF pc[h] \in Claiming THEN 2 * Cardinality(loc[h].rows) ELSE 0

FewStatements ==
  [][\A h \in Handler : pc[h] # "idle" /\ <<pc'[h], loc'[h]>> # <<pc[h], loc[h]>> =>
       WorkLeft(h)' < WorkLeft(h)]_vars

-----------------------------------------------------------------------------
(* Liveness: every request ends, though claims may wait for each other in  *)
(* a circle; and no lock is kept by a handler that is gone.                *)
RequestsEnd == \A h \in Handler : pc[h] # "idle" ~> pc[h] = "idle"

=============================================================================
