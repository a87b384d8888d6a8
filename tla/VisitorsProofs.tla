--------------------------- MODULE VisitorsProofs ---------------------------
(***************************************************************************)
(* Proofs about Visitors, for any number of people, browsers, tokens and   *)
(* requests: nobody gets at another person's session, an orderly browser   *)
(* keeps every session it knows of, a closed account stays closed, and the *)
(* tables change as Attempt allows.                                        *)
(***************************************************************************)
EXTENDS Visitors, AttemptProofs

-----------------------------------------------------------------------------
(* What the steps make of a request.                                       *)

(* One step changes one request.                                           *)
Alone(r) == \A x \in Request \ {r} : req'[x] = req[x]

LEMMA NoRequestType == NoRequest \in RequestState
  BY DEF NoRequest, RequestState, Reply

LEMMA EnteredRequest ==
  ASSUME NEW q \in RequestState, NEW o \in Owner \cup {None}
  PROVE  LET n == Entered(q, o)
         IN  /\ n \in RequestState
             /\ n.pc = "handle" /\ n.owner = o /\ n.cookie = None
             /\ n.token = IF q.group = "auth" THEN q.token ELSE None
             /\ n.by = q.by /\ n.group = q.group /\ n.awaited = q.awaited
             /\ n.newCookie = q.newCookie /\ n.newToken = q.newToken
             /\ n.reply = q.reply /\ n.shown = q.shown /\ n.rows = q.rows
  <1> DEFINE token == IF q.group = "auth" THEN q.token ELSE None
             n == [q EXCEPT !.pc = "handle", !.owner = o, !.cookie = None, !.token = token]
  <1>1. token \in Token \cup {None}
    BY DEF RequestState
  <1>2. n \in RequestState
    <2> HIDE DEF token
    <2> QED BY <1>1, Zenon DEF RequestState
  <1>3. Entered(q, o) = n
    BY Zenon DEF Entered
  <1>4. /\ n.pc = "handle" /\ n.owner = o /\ n.cookie = None
        /\ n.token = token
        /\ n.by = q.by /\ n.group = q.group /\ n.awaited = q.awaited
        /\ n.newCookie = q.newCookie /\ n.newToken = q.newToken
        /\ n.reply = q.reply /\ n.shown = q.shown /\ n.rows = q.rows
    <2> HIDE DEF token
    <2> QED BY DEF RequestState
  <1> HIDE DEF n
  <1> QED BY <1>2, <1>3, <1>4

LEMMA RespondingRequest ==
  ASSUME VisitorsOK, NEW r \in Request, NEW q \in RequestState, Responding(r, q)
  PROVE  /\ req' \in [Request -> RequestState]
         /\ \A x \in Request \ {r} : req'[x] = req[x]
         /\ req'[r].pc \in {"free", "done"} /\ req'[r].owner = None /\ req'[r].rows = {}
         /\ ~q.awaited => req'[r] = NoRequest
         /\ q.awaited =>
              /\ req'[r].pc = "done" /\ req'[r].group = None
              /\ req'[r].token = None /\ req'[r].cookie = None /\ req'[r].owner = None
              /\ req'[r].by = q.by /\ req'[r].awaited
              /\ req'[r].newCookie = q.newCookie /\ req'[r].newToken = q.newToken
              /\ req'[r].reply = q.reply /\ req'[r].shown = q.shown
  <1> DEFINE n == [q EXCEPT !.pc = "done", !.group = None, !.token = None,
                            !.cookie = None, !.owner = None, !.code = None,
                            !.rows = {}, !.step = None]
  <1>1. /\ n \in RequestState
        /\ n.pc = "done" /\ n.group = None /\ n.rows = {}
        /\ n.token = None /\ n.cookie = None /\ n.owner = None
        /\ n.by = q.by /\ n.awaited = q.awaited
        /\ n.newCookie = q.newCookie /\ n.newToken = q.newToken
        /\ n.reply = q.reply /\ n.shown = q.shown
    BY Zenon DEF RequestState
  <1>2. req' = [req EXCEPT ![r] = IF q.awaited THEN n ELSE NoRequest]
    BY DEF Responding
  <1>3. NoRequest.pc = "free" /\ NoRequest.owner = None /\ NoRequest.rows = {}
    BY DEF NoRequest
  <1> HIDE DEF n
  <1> QED BY <1>1, <1>2, <1>3, NoRequestType DEF VisitorsOK

(* The request as it is while one of its handlers replies.                 *)
LEMMA RespondRequest ==
  ASSUME VisitorsOK, NEW r \in Request, NEW reply \in Reply,
         NEW shown \in SUBSET SessionId, Respond(r, reply, shown)
  PROVE  /\ req' \in [Request -> RequestState]
         /\ \A x \in Request \ {r} : req'[x] = req[x]
         /\ req'[r].pc \in {"free", "done"} /\ req'[r].owner = None /\ req'[r].rows = {}
         /\ ~req[r].awaited => req'[r] = NoRequest
         /\ req[r].awaited =>
              /\ req'[r].pc = "done" /\ req'[r].group = None
              /\ req'[r].token = None /\ req'[r].cookie = None /\ req'[r].owner = None
              /\ req'[r].by = req[r].by /\ req'[r].awaited
              /\ req'[r].newCookie = req[r].newCookie
              /\ req'[r].newToken = req[r].newToken
              /\ req'[r].reply = reply /\ req'[r].shown = shown
  <1> DEFINE q == [req[r] EXCEPT !.reply = reply, !.shown = shown]
  <1>1. req[r] \in RequestState
    BY DEF VisitorsOK
  <1>2. q \in RequestState
    BY <1>1, Zenon DEF RequestState
  <1>3. /\ q.awaited = req[r].awaited /\ q.by = req[r].by
        /\ q.newCookie = req[r].newCookie /\ q.newToken = req[r].newToken
        /\ q.reply = reply /\ q.shown = shown
    BY <1>1 DEF RequestState
  <1>4. Responding(r, q)
    BY DEF Respond
  <1> HIDE DEF q
  <1> QED BY <1>2, <1>3, <1>4, RespondingRequest

(* A request goes on: its place, its code and what it has read may change. *)
GoesOn(r) ==
  /\ req' \in [Request -> RequestState]
  /\ Alone(r)
  /\ req'[r].by = req[r].by /\ req'[r].group = req[r].group
  /\ req'[r].token = req[r].token /\ req'[r].cookie = req[r].cookie
  /\ req'[r].awaited = req[r].awaited /\ req'[r].owner = req[r].owner
  /\ req'[r].newCookie = req[r].newCookie /\ req'[r].newToken = req[r].newToken
  /\ req'[r].reply = req[r].reply /\ req'[r].shown = req[r].shown

LEMMA OnwardRequest ==
  ASSUME VisitorsOK, NEW r \in Request, NEW n \in RequestState,
         req' = [req EXCEPT ![r] = n],
         n.by = req[r].by, n.group = req[r].group,
         n.token = req[r].token, n.cookie = req[r].cookie,
         n.awaited = req[r].awaited, n.owner = req[r].owner,
         n.newCookie = req[r].newCookie, n.newToken = req[r].newToken,
         n.reply = req[r].reply, n.shown = req[r].shown
  PROVE  GoesOn(r) /\ req'[r] = n
  BY DEF GoesOn, Alone, VisitorsOK

(* The steps that do so.                                                   *)
Continues(r) ==
  \/ \E c \in Code : HandleRestart(r, c)
  \/ HandleAnswer(r) \/ HandleAbandon(r) \/ WriteRestart(r) \/ ClaimBegin(r)

LEMMA ContinuesRequest ==
  ASSUME TypeInv, NEW r \in Request, Continues(r)
  PROVE  /\ GoesOn(r)
         /\ UNCHANGED <<browser, guestOf, account, tokens, sent, starter>>
         /\ \/ /\ req[r].pc = "handle" /\ req[r].group = "owner"
               /\ req'[r].pc \in {"answer", "abandon", "restart"}
               /\ req'[r].rows \subseteq SessionsOf(req[r].owner)
               /\ UNCHANGED tables
            \/ /\ req[r].pc = "restart"
               /\ req'[r].pc = "create" /\ req'[r].rows = {}
            \/ /\ req[r].pc = "claim" /\ req[r].cookie # None
               /\ req'[r].pc = "move"
               /\ req'[r].rows = SessionsOf(req[r].cookie)
               /\ UNCHANGED tables
  <1> DEFINE q == req[r]
  <1>1. /\ q \in RequestState /\ VisitorsOK
        /\ \A x : SessionsOf(x) \subseteq SessionId
    BY DEF TypeInv, VisitorsOK, TypeOK, SessionsOf
  <1>2. ASSUME NEW c \in Code, HandleRestart(r, c)
        PROVE  /\ GoesOn(r) /\ req'[r].pc = "restart"
               /\ req'[r].rows \subseteq SessionsOf(q.owner)
    <2>1. PICK s \in ActiveSessions(q.owner, c) :
            req' = [req EXCEPT ![r].pc = "restart", ![r].rows = {s}, ![r].code = c]
      BY <1>2 DEF HandleRestart
    <2> DEFINE n == [q EXCEPT !.pc = "restart", !.rows = {s}, !.code = c]
    <2>2. s \in SessionsOf(q.owner) /\ {s} \in SUBSET SessionId
      BY <1>1 DEF ActiveSessions, SessionsOf
    <2>3. n \in RequestState
      BY <1>1, <2>2, Zenon DEF RequestState
    <2>4. /\ n.pc = "restart" /\ n.rows = {s}
           /\ n.by = q.by /\ n.group = q.group /\ n.token = q.token /\ n.cookie = q.cookie
           /\ n.awaited = q.awaited /\ n.owner = q.owner
           /\ n.newCookie = q.newCookie /\ n.newToken = q.newToken
           /\ n.reply = q.reply /\ n.shown = q.shown
      BY <1>1 DEF RequestState
    <2>5. req' = [req EXCEPT ![r] = n]
      BY <2>1, Zenon
    <2> HIDE DEF n
    <2> QED BY <1>1, <2>2, <2>3, <2>4, <2>5, OnwardRequest
  <1>3. ASSUME NEW to \in {"answer", "abandon"}, NEW s \in SessionsOf(q.owner), Reads(r, to, s)
        PROVE  /\ GoesOn(r) /\ req'[r].pc \in {"answer", "abandon"}
               /\ req'[r].rows \subseteq SessionsOf(q.owner)
    <2> DEFINE n == [q EXCEPT !.pc = to, !.rows = {s}, !.step = sessions[s].step]
    <2>1. {s} \in SUBSET SessionId /\ sessions[s].step \in Step \cup {None}
      BY <1>1 DEF SessionsOf, TypeInv, TypeOK, SessionRow
    <2>2. to \in {"free", "sent", "handle", "answer", "abandon", "restart", "create",
                  "claim", "move", "done"}
      OBVIOUS
    <2>3. n \in RequestState
      BY <1>1, <2>1, <2>2, Zenon DEF RequestState
    <2>4. /\ n.pc = to /\ n.rows = {s}
           /\ n.by = q.by /\ n.group = q.group /\ n.token = q.token /\ n.cookie = q.cookie
           /\ n.awaited = q.awaited /\ n.owner = q.owner
           /\ n.newCookie = q.newCookie /\ n.newToken = q.newToken
           /\ n.reply = q.reply /\ n.shown = q.shown
      BY <1>1 DEF RequestState
    <2>5. req' = [req EXCEPT ![r] = n]
      BY <1>3, Zenon DEF Reads
    <2> HIDE DEF n
    <2> QED BY <1>1, <2>3, <2>4, <2>5, OnwardRequest
  <1>4. ASSUME WriteRestart(r)
        PROVE  GoesOn(r) /\ req'[r].pc = "create" /\ req'[r].rows = {}
    <2> DEFINE n == [q EXCEPT !.pc = "create", !.rows = {}]
    <2>1. n \in RequestState
      BY <1>1, Zenon DEF RequestState
    <2>2. /\ n.pc = "create" /\ n.rows = {}
           /\ n.by = q.by /\ n.group = q.group /\ n.token = q.token /\ n.cookie = q.cookie
           /\ n.awaited = q.awaited /\ n.owner = q.owner
           /\ n.newCookie = q.newCookie /\ n.newToken = q.newToken
           /\ n.reply = q.reply /\ n.shown = q.shown
      BY <1>1 DEF RequestState
    <2>3. req' = [req EXCEPT ![r] = n]
      BY <1>4, Zenon DEF WriteRestart
    <2> HIDE DEF n
    <2> QED BY <1>1, <2>1, <2>2, <2>3, OnwardRequest
  <1>5. ASSUME ClaimBegin(r)
        PROVE  GoesOn(r) /\ req'[r].pc = "move" /\ req'[r].rows = SessionsOf(q.cookie)
    <2> DEFINE n == [q EXCEPT !.pc = "move", !.rows = SessionsOf(q.cookie)]
    <2>1. SessionsOf(q.cookie) \in SUBSET SessionId
      BY <1>1
    <2>2. n \in RequestState
      BY <1>1, <2>1, Zenon DEF RequestState
    <2>3. /\ n.pc = "move" /\ n.rows = SessionsOf(q.cookie)
           /\ n.by = q.by /\ n.group = q.group /\ n.token = q.token /\ n.cookie = q.cookie
           /\ n.awaited = q.awaited /\ n.owner = q.owner
           /\ n.newCookie = q.newCookie /\ n.newToken = q.newToken
           /\ n.reply = q.reply /\ n.shown = q.shown
      BY <1>1 DEF RequestState
    <2>4. req' = [req EXCEPT ![r] = n]
      BY <1>5, Zenon DEF ClaimBegin
    <2> HIDE DEF n
    <2> QED BY <1>1, <2>2, <2>3, <2>4, OnwardRequest
  <1>6. CASE \E c \in Code : HandleRestart(r, c)
    BY <1>2, <1>6 DEF HandleRestart, Handles
  <1>7. CASE HandleAnswer(r) \/ HandleAbandon(r)
    BY <1>3, <1>7 DEF HandleAnswer, HandleAbandon, Handles
  <1>8. CASE WriteRestart(r)
    BY <1>4, <1>8 DEF WriteRestart
  <1>9. CASE ClaimBegin(r)
    BY <1>5, <1>9 DEF ClaimBegin
  <1> QED BY <1>6, <1>7, <1>8, <1>9 DEF Continues

-----------------------------------------------------------------------------
(* Type correctness of what Visitors adds to the tables.                   *)
LEMMA NewRequest ==
  ASSUME VisitorsOK, NEW b \in Browser, NEW group \in Group
  PROVE  LET q == Departing(b, group)
         IN  /\ q \in RequestState
             /\ q.pc = "sent" /\ q.by = b /\ q.group = group /\ q.awaited
             /\ q.token = IF group = "signIn" THEN None ELSE browser[b].auth
             /\ q.cookie = IF group = "signIn" \/ (group = "owner" /\ browser[b].auth = None)
                             THEN browser[b].cookie ELSE None
             /\ q.owner = None /\ q.newCookie = None /\ q.newToken = None
             /\ q.reply = "none" /\ q.shown = {} /\ q.rows = {}
  <1> DEFINE token == IF group = "signIn" THEN None ELSE browser[b].auth
             cookie == IF group = "signIn" \/ (group = "owner" /\ browser[b].auth = None)
                         THEN browser[b].cookie ELSE None
             n == [NoRequest EXCEPT !.pc = "sent", !.by = b, !.group = group,
                                    !.token = token, !.cookie = cookie, !.awaited = TRUE]
  <1>1. browser[b] \in BrowserState
    BY DEF VisitorsOK
  <1>2. token \in Token \cup {None} /\ cookie \in Guest \cup {None}
    BY <1>1 DEF BrowserState
  <1>4. Departing(b, group) = n
    BY <1>2 DEF Departing
  <1>5. n \in RequestState
    <2> HIDE DEF token, cookie
    <2> QED BY <1>2, NoRequestType, Zenon DEF RequestState
  <1>6. /\ n.pc = "sent" /\ n.by = b /\ n.group = group /\ n.awaited
        /\ n.token = token /\ n.cookie = cookie
        /\ n.owner = None /\ n.newCookie = None /\ n.newToken = None
        /\ n.reply = "none" /\ n.shown = {} /\ n.rows = {}
    <2> HIDE DEF token, cookie
    <2> QED BY DEF NoRequest
  <1> HIDE DEF n
  <1> QED BY <1>4, <1>5, <1>6

LEMMA TypeSend ==
  ASSUME TypeInv, NEW b \in Browser, NEW r \in Request, Send(b, r)
  PROVE  VisitorsOK'
  <1>1. PICK group \in Group :
          /\ req' = [req EXCEPT ![r] = Departing(b, group)]
          /\ browser' = [browser EXCEPT ![b].orderly =
                           @ /\ ~(Anonymous(Departing(b, group)) /\ AwaitsCookie(b))]
    BY DEF Send
  <1>2. req' \in [Request -> RequestState]
    BY <1>1, NewRequest DEF TypeInv, VisitorsOK
  <1>3. browser' \in [Browser -> BrowserState]
    <2> DEFINE orderly == browser[b].orderly /\ ~(Anonymous(Departing(b, group)) /\ AwaitsCookie(b))
    <2>1. orderly \in BOOLEAN /\ browser[b] \in BrowserState
      BY DEF TypeInv, VisitorsOK
    <2>2. browser' = [browser EXCEPT ![b] = [browser[b] EXCEPT !.orderly = orderly]]
      BY <1>1, Zenon
    <2> HIDE DEF orderly
    <2>3. [browser[b] EXCEPT !.orderly = orderly] \in BrowserState
      BY <2>1, Zenon DEF BrowserState
    <2> QED BY <2>2, <2>3 DEF TypeInv, VisitorsOK
  <1>4. sent' \in 0..MaxSent
    BY VisitorsAssumption DEF Send, TypeInv, VisitorsOK
  <1> QED BY <1>2, <1>3, <1>4 DEF Send, TypeInv, VisitorsOK, tables, tokens

(* A step that changes a request, and nothing else of what Visitors adds.  *)
LEMMA TypeOfRequest ==
  ASSUME TypeInv, req' \in [Request -> RequestState],
         DOMAIN sessions' = DOMAIN sessions,
         UNCHANGED <<browser, guestOf, account, tokens, sent, starter>>
  PROVE  VisitorsOK'
  BY DEF TypeInv, VisitorsOK, tokens

LEMMA TypeEnter ==
  ASSUME TypeInv, NEW r \in Request, NEW o \in Owner \cup {None}, EnterAs(r, o)
  PROVE  req' \in [Request -> RequestState]
  <1>1. req[r] \in RequestState
    BY DEF TypeInv, VisitorsOK
  <1>2. Entered(req[r], o) \in RequestState
    BY <1>1, EnteredRequest
  <1> QED BY <1>2, Zenon DEF EnterAs, TypeInv, VisitorsOK

(* The account of a token is an owner.                                     *)
LEMMA TokenOwner ==
  ASSUME TypeInv, NEW t \in Token
  PROVE  issued[t] \in Owner \cup {None}
  BY DEF TypeInv, VisitorsOK, Owner

LEMMA TypeMiddleware ==
  ASSUME TypeInv, Personal, NEW r \in Request,
         RequireOwner(r) \/ RequireAuth(r) \/ OptionalAuth(r)
  PROVE  VisitorsOK'
  <1> DEFINE q == req[r]
  <1>1. /\ q \in RequestState
        /\ q.token # None => issued[q.token] \in Owner \cup {None}
        /\ q.cookie # None => q.cookie \in Owner
    BY TokenOwner DEF TypeInv, VisitorsOK, RequestState, Owner
  <1>2. ASSUME NEW o \in Owner \cup {None}, EnterAs(r, o)
        PROVE  req' \in [Request -> RequestState]
    BY <1>2, TypeEnter
  <1>3. ASSUME NEW reply \in Reply, Respond(r, reply, {})
        PROVE  req' \in [Request -> RequestState]
    BY <1>3, RespondRequest DEF TypeInv
  <1>4. ASSUME NEW g \in Guest,
               req' = [req EXCEPT ![r] = [Entered(@, g) EXCEPT !.newCookie = g]]
        PROVE  req' \in [Request -> RequestState]
    <2>1. Entered(q, g) \in RequestState
      BY <1>1, EnteredRequest DEF Owner
    <2>2. [Entered(q, g) EXCEPT !.newCookie = g] \in RequestState
      BY <2>1, Zenon DEF RequestState
    <2> QED BY <1>4, <2>2, Zenon DEF TypeInv, VisitorsOK
  <1>5. CASE RequireOwner(r)
    <2>1. CASE \E g \in Guest :
                 /\ guestOf' = [guestOf EXCEPT ![g] = q.by]
                 /\ req' = [req EXCEPT ![r] = [Entered(@, g) EXCEPT !.newCookie = g]]
                 /\ browser' = [browser EXCEPT ![q.by].orderly = @ /\ q.cookie = None]
      <3>1. req' \in [Request -> RequestState]
        BY <2>1, <1>4
      <3>2. guestOf' \in [Guest -> Browser \cup {None}]
        BY <2>1, <1>1 DEF TypeInv, VisitorsOK, RequestState
      <3>3. q.by \in Browser
        BY <1>1, <1>5 DEF Personal, Staged, RequireOwner, RequestState
      <3>4. browser' \in [Browser -> BrowserState]
        <4> DEFINE orderly == browser[q.by].orderly /\ q.cookie = None
        <4>1. orderly \in BOOLEAN /\ browser[q.by] \in BrowserState
          BY <3>3 DEF TypeInv, VisitorsOK
        <4>2. browser' = [browser EXCEPT ![q.by] = [browser[q.by] EXCEPT !.orderly = orderly]]
          BY <2>1, Zenon
        <4> HIDE DEF orderly, q
        <4>3. [browser[q.by] EXCEPT !.orderly = orderly] \in BrowserState
          BY <4>1, Zenon DEF BrowserState
        <4> QED BY <4>2, <4>3 DEF TypeInv, VisitorsOK
      <3> QED BY <3>1, <3>2, <3>4, <1>5 DEF RequireOwner, TypeInv, VisitorsOK, tables, tokens
    <2>2. CASE UNCHANGED <<browser, guestOf>>
      <3>1. \/ \E o \in Owner \cup {None} : EnterAs(r, o)
            \/ \E reply \in Reply : Respond(r, reply, {})
            \/ \E g \in Guest :
                 req' = [req EXCEPT ![r] = [Entered(@, g) EXCEPT !.newCookie = g]]
        BY <1>1, <1>5 DEF RequireOwner, Reply
      <3>2. req' \in [Request -> RequestState]
        BY <3>1, <1>2, <1>3, <1>4
      <3> QED BY <3>2, <2>2, <1>5, TypeOfRequest DEF RequireOwner, tables
    <2> QED BY <2>1, <2>2, <1>5 DEF RequireOwner
  <1>6. CASE RequireAuth(r) \/ OptionalAuth(r)
    <2>1. \/ \E o \in Owner \cup {None} : EnterAs(r, o)
          \/ \E reply \in Reply : Respond(r, reply, {})
      BY <1>1, <1>6 DEF RequireAuth, OptionalAuth, Reply
    <2>2. req' \in [Request -> RequestState]
      BY <2>1, <1>2, <1>3
    <2> QED BY <2>2, <1>6, TypeOfRequest DEF RequireAuth, OptionalAuth, tables
  <1> QED BY <1>5, <1>6

LEMMA TypeReply ==
  ASSUME TypeInv, NEW r \in Request, NEW reply \in Reply, NEW shown \in SUBSET SessionId,
         Respond(r, reply, shown),
         DOMAIN sessions' = DOMAIN sessions,
         UNCHANGED <<browser, guestOf, account, tokens, sent, starter>>
  PROVE  VisitorsOK'
  BY RespondRequest, TypeOfRequest DEF TypeInv

LEMMA TypeHandlers ==
  ASSUME TypeInv, Personal, NEW r \in Request,
         \/ Continues(r)
         \/ \E c \in Code : HandleStart(r, c)
         \/ HandleGet(r) \/ WriteAnswer(r) \/ WriteAbandon(r) \/ HandleProgress(r)
         \/ HandleCatalog(r) \/ HandleLogout(r) \/ Refuse(r)
  PROVE  VisitorsOK'
  <1> DEFINE o == req[r].owner
  <1>1. /\ req[r] \in RequestState
        /\ \A x : SessionsOf(x) \subseteq SessionId
        /\ \A x, c : ActiveSessions(x, c) \subseteq SessionId
        /\ \A s \in DOMAIN sessions : starter[s] \in Browser
    BY DEF TypeInv, VisitorsOK, TypeOK, SessionsOf, ActiveSessions
  <1>2. ASSUME NEW c \in Code, HandleStart(r, c)
        PROVE  VisitorsOK'
    <2>1. CASE /\ Respond(r, "shown", ActiveSessions(o, c))
               /\ UNCHANGED <<tables, starter>>
      BY <2>1, <1>1, <1>2, TypeReply DEF HandleStart, Reply, tables
    <2>2. CASE \E s \in SessionId :
                 /\ Start(s, o, c, active[c])
                 /\ starter' = [x \in DOMAIN sessions \cup {s} |->
                                  IF x = s THEN req[r].by ELSE starter[x]]
                 /\ Respond(r, "created", {s})
      <3>1. PICK s \in SessionId :
              /\ Start(s, o, c, active[c])
              /\ starter' = [x \in DOMAIN sessions \cup {s} |->
                               IF x = s THEN req[r].by ELSE starter[x]]
              /\ Respond(r, "created", {s})
        BY <2>2
      <3>2. req' \in [Request -> RequestState]
        BY <3>1, RespondRequest DEF Reply, TypeInv
      <3>3. req[r].by \in Browser
        BY <1>1, <1>2 DEF HandleStart, Handles, Personal, Staged, RequestState
      <3>4. DOMAIN sessions' = DOMAIN sessions \cup {s}
        BY <3>1 DEF Start, InsertSession
      <3>5. /\ DOMAIN starter' = DOMAIN sessions'
            /\ \A x \in DOMAIN sessions' : starter'[x] \in Browser
        BY <3>1, <3>3, <3>4, <1>1
      <3> QED BY <3>2, <3>5, <1>2 DEF HandleStart, TypeInv, VisitorsOK, tokens
    <2> QED BY <2>1, <2>2, <1>2 DEF HandleStart
  <1>3. CASE Continues(r)
    <2>1. DOMAIN sessions' = DOMAIN sessions
      BY <1>3 DEF Continues, HandleRestart, HandleAnswer, HandleAbandon, WriteRestart, ClaimBegin,
         Abandon, UpdateAbandoned, tables
    <2> QED BY <1>3, <2>1, ContinuesRequest, TypeOfRequest DEF GoesOn
  <1>4. CASE HandleGet(r)
    BY <1>4, <1>1, TypeReply DEF HandleGet, Reply, tables
  <1>5. CASE WriteAnswer(r)
    <2>1. PICK s \in req[r].rows : Respond(r, "shown", {s})
      BY <1>5 DEF WriteAnswer
    <2>2. DOMAIN sessions' = DOMAIN sessions
      BY <1>5 DEF WriteAnswer, Answer, ApplyAnswer
    <2>3. {s} \in SUBSET SessionId
      BY <1>1 DEF RequestState
    <2> QED BY <2>1, <2>2, <2>3, <1>5, TypeReply DEF WriteAnswer, Reply
  <1>6. CASE WriteAbandon(r)
    <2>1. PICK s \in req[r].rows : Respond(r, "shown", {s})
      BY <1>6 DEF WriteAbandon
    <2>2. DOMAIN sessions' = DOMAIN sessions
      BY <1>6 DEF WriteAbandon, Abandon, UpdateAbandoned
    <2>3. {s} \in SUBSET SessionId
      BY <1>1 DEF RequestState
    <2> QED BY <2>1, <2>2, <2>3, <1>6, TypeReply DEF WriteAbandon, Reply
  <1>7. CASE HandleProgress(r)
    BY <1>7, <1>1, TypeReply DEF HandleProgress, Reply, tables
  <1>8. CASE HandleCatalog(r)
    BY <1>8, <1>1, TypeReply DEF HandleCatalog, Reply, tables
  <1>9. CASE HandleLogout(r)
    <2>1. req' \in [Request -> RequestState]
      BY <1>9, RespondRequest DEF HandleLogout, Reply, TypeInv
    <2>2. revoked' \subseteq Token
      BY <1>1, <1>9 DEF HandleLogout, Handles, Personal, Staged, RequestState, TypeInv, VisitorsOK
    <2> QED BY <2>1, <2>2, <1>9 DEF HandleLogout, TypeInv, VisitorsOK, tables
  <1>10. CASE Refuse(r)
    BY <1>10, TypeReply DEF Refuse, Reply, tables
  <1> QED BY <1>2, <1>3, <1>4, <1>5, <1>6, <1>7, <1>8, <1>9, <1>10

(* What Register and Login, SignIn, Receive and the rest make of things,   *)
(* field by field.                                                         *)
LEMMA ToClaimRequest ==
  ASSUME VisitorsOK, NEW r \in Request, NEW u \in User, ToClaim(r, u)
  PROVE  /\ req' \in [Request -> RequestState]
         /\ \A x \in Request \ {r} : req'[x] = req[x]
         /\ req'[r].pc = "claim" /\ req'[r].owner = u
         /\ req'[r].by = req[r].by /\ req'[r].awaited = req[r].awaited
         /\ req'[r].token = req[r].token /\ req'[r].cookie = req[r].cookie
         /\ req'[r].newCookie = req[r].newCookie /\ req'[r].newToken = req[r].newToken
         /\ req'[r].reply = req[r].reply /\ req'[r].shown = req[r].shown
         /\ req'[r].group = req[r].group /\ req'[r].rows = req[r].rows
  <1> DEFINE n == [req[r] EXCEPT !.pc = "claim", !.owner = u]
  <1>1. req[r] \in RequestState
    BY DEF VisitorsOK
  <1>2. n \in RequestState
    BY <1>1, Zenon DEF RequestState, Owner
  <1>3. /\ n.pc = "claim" /\ n.owner = u
        /\ n.by = req[r].by /\ n.awaited = req[r].awaited
        /\ n.token = req[r].token /\ n.cookie = req[r].cookie
        /\ n.newCookie = req[r].newCookie /\ n.newToken = req[r].newToken
        /\ n.reply = req[r].reply /\ n.shown = req[r].shown
        /\ n.group = req[r].group /\ n.rows = req[r].rows
    BY <1>1 DEF RequestState
  <1>4. req' = [req EXCEPT ![r] = n]
    BY Zenon DEF ToClaim
  <1> HIDE DEF n
  <1> QED BY <1>2, <1>3, <1>4 DEF VisitorsOK

LEMMA SignInRequest ==
  ASSUME TypeInv, NEW r \in Request, NEW t \in Token, req[r].owner \in User, SignIn(r, t)
  PROVE  /\ req' \in [Request -> RequestState]
         /\ issued' \in [Token -> User \cup {None}]
         /\ \A x \in Request \ {r} : req'[x] = req[x]
         /\ req'[r].pc \in {"free", "done"} /\ req'[r].owner = None /\ req'[r].rows = {}
         /\ ~req[r].awaited => req'[r] = NoRequest
         /\ req[r].awaited =>
              /\ req'[r].pc = "done" /\ req'[r].group = None
              /\ req'[r].token = None /\ req'[r].cookie = None /\ req'[r].owner = None
              /\ req'[r].by = req[r].by /\ req'[r].awaited
              /\ req'[r].newCookie = req[r].newCookie
              /\ req'[r].newToken = t
              /\ req'[r].reply = "signedIn" /\ req'[r].shown = req[r].shown
  <1> DEFINE q == [req[r] EXCEPT !.reply = "signedIn", !.newToken = t]
  <1>1. req[r] \in RequestState
    BY DEF TypeInv, VisitorsOK
  <1>2. q \in RequestState
    <2>1. "signedIn" \in Reply
      BY DEF Reply
    <2> QED BY <1>1, <2>1, Zenon DEF RequestState
  <1>3. /\ q.awaited = req[r].awaited /\ q.by = req[r].by
        /\ q.newCookie = req[r].newCookie /\ q.newToken = t
        /\ q.reply = "signedIn" /\ q.shown = req[r].shown
    BY <1>1 DEF RequestState
  <1>4. Responding(r, q)
    BY DEF SignIn
  <1>5. issued' \in [Token -> User \cup {None}]
    BY DEF SignIn, TypeInv, VisitorsOK
  <1> HIDE DEF q
  <1> QED BY <1>2, <1>3, <1>4, <1>5, RespondingRequest DEF TypeInv

LEMMA ReceiveReply ==
  ASSUME TypeInv, NEW r \in Request, req[r].by \in Browser, Receive(r)
  PROVE  /\ req' \in [Request -> RequestState]
         /\ req'[r] = NoRequest
         /\ \A x \in Request \ {r} : req'[x] = req[x]
         /\ browser' \in [Browser -> BrowserState]
         /\ \A b \in Browser \ {req[r].by} : browser'[b] = browser[b]
         /\ LET b == req[r].by
            IN  /\ browser'[b].cookie = IF req[r].newCookie # None THEN req[r].newCookie
                                                                 ELSE browser[b].cookie
                /\ browser'[b].auth \in {req[r].newToken, None, browser[b].auth}
                /\ browser'[b].known = IF req[r].reply = "created"
                                         THEN browser[b].known \cup req[r].shown
                                         ELSE browser[b].known
                /\ browser'[b].orderly = browser[b].orderly
  <1> DEFINE q == req[r]
             b == q.by
             cookie == IF q.newCookie # None THEN q.newCookie ELSE browser[b].cookie
             auth == TokenAfter(q, browser[b].auth)
             known == IF q.reply = "created" THEN browser[b].known \cup q.shown
                                             ELSE browser[b].known
             n == [auth |-> auth, cookie |-> cookie, known |-> known,
                   orderly |-> browser[b].orderly]
  <1>1. q \in RequestState /\ browser[b] \in BrowserState
    BY DEF TypeInv, VisitorsOK
  <1>2. auth \in {q.newToken, None, browser[b].auth}
    BY DEF TokenAfter
  <1>3. /\ cookie \in Guest \cup {None} /\ auth \in Token \cup {None}
        /\ known \in SUBSET SessionId
    <2> HIDE DEF auth
    <2> QED BY <1>1, <1>2 DEF RequestState, BrowserState
  <1>4. browser' = [browser EXCEPT ![b] = n]
    BY Zenon DEF Receive
  <1>5. n \in BrowserState
    <2> HIDE DEF cookie, auth, known, b, q
    <2> QED BY <1>1, <1>3, Zenon DEF BrowserState
  <1>6. /\ n.cookie = cookie /\ n.auth = auth /\ n.known = known
        /\ n.orderly = browser[b].orderly
    <2> HIDE DEF cookie, auth, known, b, q
    <2> QED BY <1>1 DEF BrowserState
  <1>7. /\ browser' \in [Browser -> BrowserState]
        /\ browser'[b] = n
        /\ \A x \in Browser \ {b} : browser'[x] = browser[x]
    <2> HIDE DEF n
    <2> QED BY <1>4, <1>5 DEF TypeInv, VisitorsOK
  <1>8. /\ req' \in [Request -> RequestState]
        /\ req'[r] = NoRequest
        /\ \A x \in Request \ {r} : req'[x] = req[x]
    BY NoRequestType DEF Receive, TypeInv, VisitorsOK
  <1> HIDE DEF n, auth
  <1> QED BY <1>2, <1>6, <1>7, <1>8

LEMMA TypeAccounts ==
  ASSUME TypeInv, Personal, NEW r \in Request,
         \/ \E u \in User : Register(r, u) \/ Login(r, u)
         \/ \E t \in Token : ClaimGuest(r, t)
         \/ Receive(r) \/ GiveUp(r) \/ Drop(r)
  PROVE  VisitorsOK'
  <1>1. /\ req[r] \in RequestState
        /\ req[r].pc # "free" => req[r].by \in Browser
        /\ req[r].pc \in {"claim", "move"} => req[r].owner \in User
    BY DEF TypeInv, VisitorsOK, Personal, Staged, RequestState
  <1>2. ASSUME NEW u \in User, Register(r, u)
        PROVE  VisitorsOK'
    <2>1. account' \in [User -> Browser \cup {None}]
      BY <1>2, <1>1 DEF Register, TypeInv, VisitorsOK
    <2> QED BY <2>1, <1>2, ToClaimRequest DEF Register, TypeInv, VisitorsOK, tables, tokens
  <1>3. ASSUME NEW u \in User, Login(r, u)
        PROVE  VisitorsOK'
    BY <1>3, ToClaimRequest, TypeOfRequest DEF Login, TypeInv, tables
  <1>4. ASSUME NEW t \in Token, ClaimGuest(r, t)
        PROVE  VisitorsOK'
    <2>1. DOMAIN sessions' = DOMAIN sessions
      BY <1>4 DEF ClaimGuest, Move, UpdateOwner, tables
    <2>2. /\ req' \in [Request -> RequestState]
          /\ issued' \in [Token -> User \cup {None}]
      BY <1>4, <1>1, SignInRequest DEF ClaimGuest
    <2> QED BY <2>1, <2>2, <1>4 DEF ClaimGuest, TypeInv, VisitorsOK
  <1>5. CASE Receive(r)
    BY <1>5, <1>1, ReceiveReply DEF Receive, TypeInv, VisitorsOK, tables, tokens
  <1>6. CASE GiveUp(r)
    <2>1. [req[r] EXCEPT !.awaited = FALSE] \in RequestState
      BY <1>1, Zenon DEF RequestState
    <2>2. req' = [req EXCEPT ![r] = [req[r] EXCEPT !.awaited = FALSE]]
      BY <1>6, Zenon DEF GiveUp
    <2>3. req' \in [Request -> RequestState]
      BY <2>1, <2>2 DEF TypeInv, VisitorsOK
    <2> QED BY <2>3, <1>6, TypeOfRequest DEF GiveUp, tables
  <1>7. CASE Drop(r)
    <2>1. req' \in [Request -> RequestState]
      BY <1>7, NoRequestType DEF Drop, TypeInv, VisitorsOK
    <2> QED BY <2>1, <1>7, TypeOfRequest DEF Drop, tables
  <1> QED BY <1>2, <1>3, <1>4, <1>5, <1>6, <1>7

LEMMA TypeExpire ==
  ASSUME TypeInv, NEW t \in Token, Expire(t)
  PROVE  VisitorsOK'
  BY DEF Expire, TypeInv, VisitorsOK, tables

LEMMA TypeCookie ==
  ASSUME TypeInv, NEW b \in Browser, CookieExpires(b)
  PROVE  VisitorsOK'
  <1> DEFINE n == [browser[b] EXCEPT !.cookie = None, !.orderly = FALSE]
  <1>1. browser[b] \in BrowserState
    BY DEF TypeInv, VisitorsOK
  <1>2. n \in BrowserState
    BY <1>1, Zenon DEF BrowserState
  <1>3. browser' = [browser EXCEPT ![b] = n]
    BY Zenon DEF CookieExpires
  <1> HIDE DEF n
  <1> QED BY <1>2, <1>3 DEF CookieExpires, TypeInv, VisitorsOK, tables, tokens

LEMMA TypeStep ==
  ASSUME TypeInv, Personal, [VNext]_vars
  PROVE  VisitorsOK'
  <1>1. CASE UNCHANGED vars
    BY <1>1 DEF vars, tables, tokens, TypeInv, VisitorsOK
  <1>2. CASE VNext
    BY <1>2, TypeSend, TypeMiddleware, TypeHandlers, TypeAccounts, TypeExpire,
       TypeCookie DEF VNext, Serve, Continues
  <1> QED BY <1>1, <1>2

-----------------------------------------------------------------------------
(* The tables change as Attempt allows, and sessions stay with the person  *)
(* behind their owner.                                                     *)
LEMMA TablesStep ==
  ASSUME TypeInv, Personal, [VNext]_vars
  PROVE  [Next]_tables
  <1>1. ASSUME NEW r \in Request, NEW c \in Code, HandleStart(r, c)
        PROVE  [Next]_tables
    <2>1. req[r].owner \in Owner /\ active[c] \in Version(c)
      BY <1>1 DEF HandleStart, Handles, Personal, Staged, TypeInv, VisitorsOK, RequestState, TypeOK
    <2> QED BY <1>1, <2>1 DEF HandleStart, Next
  <1>2. ASSUME NEW r \in Request
        PROVE  req[r].rows \subseteq SessionId
    BY DEF TypeInv, VisitorsOK, RequestState
  <1>3. ASSUME NEW r \in Request, WriteAnswer(r)
        PROVE  [Next]_tables
    BY <1>2, <1>3, VisitorsAssumption DEF WriteAnswer, Next
  <1>4. ASSUME NEW r \in Request, WriteRestart(r) \/ WriteAbandon(r)
        PROVE  [Next]_tables
    BY <1>2, <1>4 DEF WriteRestart, WriteAbandon, Next
  <1>5. ASSUME NEW r \in Request, NEW t \in Token, ClaimGuest(r, t)
        PROVE  [Next]_tables
    <2>1. CASE UNCHANGED tables
      BY <2>1
    <2>2. CASE /\ req[r].pc = "move"
               /\ Move(req[r].rows \cap SessionsOf(req[r].cookie), req[r].owner)
      <3>1. req[r].cookie \in Guest /\ req[r].owner \in User
        BY <2>2 DEF Personal, Staged, TypeInv, VisitorsOK, RequestState
      <3>2. Claim(req[r].cookie, req[r].owner)
        BY <2>2 DEF Claim
      <3> QED BY <3>1, <3>2 DEF Next
    <2> QED BY <1>5, <2>1, <2>2 DEF ClaimGuest
  <1>6. ASSUME NEW r \in Request,
               \/ RequireOwner(r) \/ RequireAuth(r) \/ OptionalAuth(r)
               \/ HandleGet(r) \/ HandleAnswer(r) \/ HandleAbandon(r) \/ ClaimBegin(r)
               \/ HandleProgress(r) \/ HandleCatalog(r)
               \/ HandleLogout(r) \/ Refuse(r) \/ Receive(r) \/ GiveUp(r) \/ Drop(r)
        PROVE  UNCHANGED tables
    BY <1>6 DEF RequireOwner, RequireAuth, OptionalAuth, HandleGet, HandleAnswer,
       HandleAbandon, ClaimBegin, HandleProgress, HandleCatalog, HandleLogout, Refuse, Receive, GiveUp, Drop
  <1>7. ASSUME NEW r \in Request,
               \/ \E u \in User : Register(r, u) \/ Login(r, u)
               \/ \E c \in Code : HandleRestart(r, c)
        PROVE  UNCHANGED tables
    BY <1>7 DEF Register, Login, HandleRestart
  <1>8. ASSUME NEW b \in Browser, NEW r \in Request, Send(b, r)
        PROVE  UNCHANGED tables
    BY <1>8 DEF Send
  <1>9. ASSUME \/ \E t \in Token : Expire(t)
               \/ \E b \in Browser : CookieExpires(b)
        PROVE  UNCHANGED tables
    BY <1>9 DEF Expire, CookieExpires
  <1>10. CASE UNCHANGED vars
    BY <1>10 DEF vars
  <1> QED BY <1>1, <1>3, <1>4, <1>5, <1>6, <1>7, <1>8, <1>9, <1>10 DEF VNext, Serve

(* Guests, accounts and tokens never pass to another person.               *)
LEMMA PeopleKept ==
  ASSUME TypeInv, [VNext]_vars
  PROVE  /\ \A g \in Guest : guestOf[g] # None => guestOf'[g] = guestOf[g]
         /\ \A u \in User : account[u] # None => account'[u] = account[u]
         /\ \A t \in Token : issued[t] # None => issued'[t] = issued[t]
  <1> DEFINE Kept == /\ \A g \in Guest : guestOf[g] # None => guestOf'[g] = guestOf[g]
                     /\ \A u \in User : account[u] # None => account'[u] = account[u]
                     /\ \A t \in Token : issued[t] # None => issued'[t] = issued[t]
  <1>1. ASSUME NEW r \in Request, RequireOwner(r)
        PROVE  Kept
    BY <1>1 DEF RequireOwner, tokens, TypeInv, VisitorsOK
  <1>2. ASSUME NEW r \in Request, NEW u \in User, Register(r, u) \/ Login(r, u)
        PROVE  Kept
    BY <1>2 DEF Register, Login, tokens, TypeInv, VisitorsOK
  <1>3. ASSUME NEW r \in Request, NEW t \in Token, ClaimGuest(r, t)
        PROVE  Kept
    BY <1>3 DEF ClaimGuest, SignIn, TypeInv, VisitorsOK
  <1>4. ASSUME NEW r \in Request,
               \/ RequireAuth(r) \/ OptionalAuth(r) \/ HandleGet(r) \/ HandleAnswer(r)
               \/ HandleAbandon(r) \/ HandleProgress(r) \/ HandleCatalog(r)
               \/ HandleLogout(r) \/ Refuse(r) \/ Receive(r) \/ GiveUp(r) \/ Drop(r)
               \/ WriteRestart(r) \/ WriteAnswer(r) \/ WriteAbandon(r) \/ ClaimBegin(r)
        PROVE  UNCHANGED <<guestOf, account, issued>>
    BY <1>4 DEF RequireAuth, OptionalAuth, HandleGet, HandleAnswer, HandleAbandon,
       HandleProgress, HandleCatalog, HandleLogout, Refuse, Receive, GiveUp, Drop,
       WriteRestart, WriteAnswer, WriteAbandon, ClaimBegin, tokens
  <1>5. ASSUME NEW r \in Request, NEW c \in Code, HandleStart(r, c) \/ HandleRestart(r, c)
        PROVE  UNCHANGED <<guestOf, account, issued>>
    BY <1>5 DEF HandleStart, HandleRestart, tokens
  <1>6. ASSUME NEW b \in Browser, NEW r \in Request, Send(b, r)
        PROVE  UNCHANGED <<guestOf, account, issued>>
    BY <1>6 DEF Send, tokens
  <1>7. ASSUME \/ \E t \in Token : Expire(t)
               \/ \E b \in Browser : CookieExpires(b)
        PROVE  UNCHANGED <<guestOf, account, issued>>
    BY <1>7 DEF Expire, CookieExpires, tokens
  <1>8. CASE UNCHANGED vars
    BY <1>8 DEF vars, tokens
  <1> QED BY <1>1, <1>2, <1>3, <1>4, <1>5, <1>6, <1>7, <1>8 DEF VNext, Serve

(* Owners of different kinds.                                              *)
LEMMA OwnerKinds ==
  /\ \A u \in User : u \notin Guest /\ u # None
  /\ \A g \in Guest : g \notin User /\ g # None
  BY OwnersAssumption, VisitorsAssumption

(* How a step may change a session that is there: not at all as far as its *)
(* owner is concerned, or from a guest to an account of the same person,   *)
(* who is signing in.                                                      *)
Handed(s) ==
  \/ sessions'[s].owner = sessions[s].owner
  \/ /\ sessions[s].owner \in Guest /\ sessions'[s].owner \in User
     /\ account[sessions'[s].owner] = guestOf[sessions[s].owner]
     /\ guestOf[sessions[s].owner] \in Browser
     /\ SigningIn(sessions'[s].owner)

SameOwners ==
  /\ DOMAIN sessions' = DOMAIN sessions
  /\ starter' = starter
  /\ \A s \in DOMAIN sessions : sessions'[s].owner = sessions[s].owner

LEMMA OwnersOfTables ==
  ASSUME TypeInv, UNCHANGED <<tables, starter>>
  PROVE  SameOwners
  BY DEF SameOwners, tables

LEMMA OwnersOfAnswer ==
  ASSUME TypeOK, UNCHANGED starter, NEW s \in SessionId, NEW option \in Outcome,
         Answer(s, option)
  PROVE  SameOwners
  <1> DEFINE st == sessions[s].step
             next == ResolveNext(ScenarioOf(s), st, option)
             finished == IsTerminal(ScenarioOf(s), next)
  <1>1. s \in DOMAIN sessions /\ sessions[s] \in SessionRow
    BY DEF Answer, TypeOK
  <1>2. sessions' = [sessions EXCEPT ![s] = Advanced(sessions[s], option, next, finished)]
    BY Zenon DEF Answer, ApplyAnswer
  <1>3. Advanced(sessions[s], option, next, finished).owner = sessions[s].owner
    <2> HIDE DEF next, finished
    <2> QED BY <1>1 DEF Advanced, SessionRow
  <1> HIDE DEF next, finished
  <1> QED BY <1>1, <1>2, <1>3 DEF SameOwners

LEMMA OwnersOfAbandon ==
  ASSUME TypeOK, UNCHANGED starter, NEW s \in SessionId, Abandon(s)
  PROVE  SameOwners
  <1>1. s \in DOMAIN sessions /\ sessions[s] \in SessionRow
    BY DEF Abandon, TypeOK
  <1>2. sessions' = [sessions EXCEPT ![s] = [sessions[s] EXCEPT !.status = "abandoned"]]
    BY Zenon DEF Abandon, UpdateAbandoned
  <1>3. [sessions[s] EXCEPT !.status = "abandoned"].owner = sessions[s].owner
    BY <1>1 DEF SessionRow
  <1> QED BY <1>1, <1>2, <1>3 DEF SameOwners

LEMMA OwnersOfClaim ==
  ASSUME TypeInv, Personal, NEW r \in Request, NEW t \in Token, ClaimGuest(r, t)
  PROVE  /\ DOMAIN sessions' = DOMAIN sessions
         /\ starter' = starter
         /\ \A s \in DOMAIN sessions : Handed(s)
  <1> DEFINE q == req[r]
  <1>1. CASE UNCHANGED tables
    BY <1>1 DEF Handed, tables, ClaimGuest
  <1>2. CASE q.pc = "move" /\ Move(q.rows \cap SessionsOf(q.cookie), q.owner)
    <2>1. /\ q \in RequestState /\ q.cookie \in Guest /\ q.owner \in User
          /\ q.by \in Browser
          /\ guestOf[q.cookie] = q.by
          /\ account[q.owner] = q.by
      BY <1>2, OwnerKinds DEF Personal, Staged, HoldsAll, HoldsGuest, PersonOf,
         TypeInv, VisitorsOK, RequestState
    <2>2. DOMAIN sessions' = DOMAIN sessions
      BY <1>2 DEF Move, UpdateOwner
    <2>3. SigningIn(q.owner)
      <3>1. req'[r].pc \in {"free", "done"}
        BY <2>1, SignInRequest DEF ClaimGuest
      <3> QED BY <1>2, <3>1 DEF SigningIn
    <2>4. ASSUME NEW s \in DOMAIN sessions
          PROVE  Handed(s)
      <3>1. sessions[s] \in SessionRow
        BY DEF TypeInv, TypeOK
      <3>2. CASE s \in q.rows \cap SessionsOf(q.cookie)
        <4>1. sessions'[s] = [sessions[s] EXCEPT !.owner = q.owner]
          BY <1>2, <3>2 DEF Move, UpdateOwner
        <4>2. sessions'[s].owner = q.owner /\ sessions[s].owner = q.cookie
          BY <4>1, <3>1, <3>2 DEF SessionRow, SessionsOf
        <4> QED BY <4>2, <2>1, <2>3 DEF Handed
      <3>3. CASE s \notin q.rows \cap SessionsOf(q.cookie)
        BY <1>2, <3>3 DEF Handed, Move, UpdateOwner
      <3> QED BY <3>2, <3>3
    <2> QED BY <2>2, <2>4 DEF ClaimGuest
  <1> QED BY <1>1, <1>2 DEF ClaimGuest

LEMMA SessionsStep ==
  ASSUME TypeInv, Personal, [VNext]_vars
  PROVE  /\ \A s \in DOMAIN sessions :
              s \in DOMAIN sessions' /\ starter'[s] = starter[s] /\ Handed(s)
         /\ \A s \in DOMAIN sessions' \ DOMAIN sessions :
              \E r \in Request : /\ req[r].owner # None /\ req[r].by # None
                                 /\ sessions'[s].owner = req[r].owner
                                 /\ starter'[s] = req[r].by
  <1> DEFINE Told == /\ \A s \in DOMAIN sessions :
                          s \in DOMAIN sessions' /\ starter'[s] = starter[s] /\ Handed(s)
                     /\ \A s \in DOMAIN sessions' \ DOMAIN sessions :
                          \E r \in Request : /\ req[r].owner # None /\ req[r].by # None
                                             /\ sessions'[s].owner = req[r].owner
                                             /\ starter'[s] = req[r].by
  <1>1. SameOwners => Told
    BY DEF SameOwners, Handed
  <1>2. ASSUME NEW r \in Request, NEW c \in Code, HandleStart(r, c)
        PROVE  Told
    <2>1. CASE UNCHANGED <<tables, starter>>
      BY <1>1, <2>1, OwnersOfTables
    <2>2. CASE \E s \in SessionId :
                 /\ Start(s, req[r].owner, c, active[c])
                 /\ starter' = [x \in DOMAIN sessions \cup {s} |->
                                  IF x = s THEN req[r].by ELSE starter[x]]
      <3>1. PICK s \in SessionId :
              /\ Start(s, req[r].owner, c, active[c])
              /\ starter' = [x \in DOMAIN sessions \cup {s} |->
                               IF x = s THEN req[r].by ELSE starter[x]]
        BY <2>2
      <3>2. /\ s \notin DOMAIN sessions
            /\ DOMAIN sessions' = DOMAIN sessions \cup {s}
            /\ sessions'[s].owner = req[r].owner
            /\ \A x \in DOMAIN sessions : sessions'[x] = sessions[x]
        BY <3>1 DEF Start, InsertSession
      <3>3. req[r].owner # None /\ req[r].by # None
        BY <1>2 DEF HandleStart, Handles, Personal, Staged
      <3> QED BY <3>1, <3>2, <3>3 DEF Handed
    <2> QED BY <2>1, <2>2, <1>2 DEF HandleStart
  <1>3. ASSUME NEW r \in Request, NEW t \in Token, ClaimGuest(r, t)
        PROVE  Told
    BY <1>3, OwnersOfClaim
  <1>4. ASSUME NEW r \in Request, WriteRestart(r) \/ WriteAbandon(r)
        PROVE  Told
    <2>1. UNCHANGED tables \/ \E s \in SessionId : Abandon(s)
      BY <1>4 DEF WriteRestart, WriteAbandon, TypeInv, VisitorsOK, RequestState
    <2>2. UNCHANGED starter
      BY <1>4 DEF WriteRestart, WriteAbandon
    <2> QED BY <1>1, <2>1, <2>2, OwnersOfTables, OwnersOfAbandon DEF TypeInv
  <1>5. ASSUME NEW r \in Request, WriteAnswer(r)
        PROVE  Told
    <2>1. \E s \in SessionId, option \in Outcome : Answer(s, option)
      BY <1>5, VisitorsAssumption DEF WriteAnswer, TypeInv, VisitorsOK, RequestState
    <2> QED BY <1>1, <1>5, <2>1, OwnersOfAnswer DEF WriteAnswer, TypeInv
  <1>6. ASSUME NEW r \in Request, NEW c \in Code, HandleRestart(r, c)
        PROVE  UNCHANGED <<tables, starter>>
    BY <1>6 DEF HandleRestart
  <1>7. ASSUME NEW r \in Request,
               \/ RequireOwner(r) \/ RequireAuth(r) \/ OptionalAuth(r)
               \/ HandleGet(r) \/ HandleAnswer(r) \/ HandleAbandon(r) \/ ClaimBegin(r)
               \/ HandleProgress(r) \/ HandleCatalog(r)
               \/ HandleLogout(r) \/ Refuse(r) \/ Receive(r) \/ GiveUp(r) \/ Drop(r)
        PROVE  UNCHANGED <<tables, starter>>
    BY <1>7 DEF RequireOwner, RequireAuth, OptionalAuth, HandleGet, HandleAnswer,
       HandleAbandon, ClaimBegin, HandleProgress, HandleCatalog, HandleLogout, Refuse, Receive, GiveUp, Drop
  <1>8. ASSUME NEW r \in Request, NEW u \in User, Register(r, u) \/ Login(r, u)
        PROVE  UNCHANGED <<tables, starter>>
    BY <1>8 DEF Register, Login
  <1>9. ASSUME NEW b \in Browser, NEW r \in Request, Send(b, r)
        PROVE  UNCHANGED <<tables, starter>>
    BY <1>9 DEF Send
  <1>10. ASSUME \/ \E t \in Token : Expire(t)
                \/ \E b \in Browser : CookieExpires(b)
         PROVE  UNCHANGED <<tables, starter>>
    BY <1>10 DEF Expire, CookieExpires
  <1>11. CASE UNCHANGED vars
    BY <1>11, <1>1, OwnersOfTables DEF vars
  <1> QED BY <1>1, <1>2, <1>3, <1>4, <1>5, <1>6, <1>7, <1>8, <1>9, <1>10, <1>11, OwnersOfTables
          DEF VNext, Serve

LEMMA PersonKept ==
  ASSUME TypeInv, [VNext]_vars
  PROVE  \A o \in Owner : PersonOf(o) # None => PersonOf(o)' = PersonOf(o)
  BY PeopleKept DEF PersonOf, Owner

(* Sessions stay with the person who started them.                         *)
StaysWithStarter == \A s \in DOMAIN sessions : PersonOf(sessions[s].owner) = starter[s]

LEMMA StarterStep ==
  ASSUME TypeInv, TypeOK', Personal, StaysWithStarter, [VNext]_vars
  PROVE  StaysWithStarter'
  <1> SUFFICES ASSUME NEW s \in DOMAIN sessions'
               PROVE  PersonOf(sessions[s].owner)' = starter'[s]
    BY DEF StaysWithStarter
  <1>1. sessions'[s].owner \in Owner
    BY DEF TypeOK, SessionRow
  <1>2. CASE s \in DOMAIN sessions
    <2>1. /\ starter'[s] = starter[s] /\ starter[s] \in Browser /\ Handed(s)
          /\ PersonOf(sessions[s].owner) = starter[s]
      BY <1>2, SessionsStep DEF TypeInv, VisitorsOK, StaysWithStarter
    <2>2. PersonOf(sessions'[s].owner) = starter[s]
      BY <2>1, OwnerKinds DEF Handed, PersonOf
    <2> QED BY <1>1, <2>1, <2>2, PersonKept, VisitorsAssumption DEF PersonOf
  <1>3. CASE s \notin DOMAIN sessions
    <2>1. PICK r \in Request : /\ req[r].owner # None /\ req[r].by # None
                               /\ sessions'[s].owner = req[r].owner
                               /\ starter'[s] = req[r].by
      BY <1>3, SessionsStep
    <2>2. PersonOf(req[r].owner) = req[r].by
      BY <2>1 DEF Personal, HoldsAll
    <2> QED BY <1>1, <2>1, <2>2, PersonKept DEF PersonOf
  <1> QED BY <1>2, <1>3

-----------------------------------------------------------------------------
(* Requests and browsers hold what belongs to their person; handlers have  *)
(* read and replies show sessions of that person only.                     *)
Proper(r) ==
  /\ Staged(req[r])
  /\ HoldsAll(req[r])
  /\ \A s \in req[r].shown \cup req[r].rows : s \in DOMAIN sessions /\ starter[s] = req[r].by

AllProper == \A r \in Request : Proper(r)

LEMMA ProperNoRequest ==
  ASSUME NEW r \in Request, req'[r] = NoRequest
  PROVE  Proper(r)'
  BY DEF Proper, Staged, HoldsAll, HoldsGuest, HoldsToken, NoRequest

(* Whoever owned something owns it after the step.                         *)
LEMMA HoldsKept ==
  ASSUME TypeInv, [VNext]_vars, NEW b \in Browser
  PROVE  /\ \A g \in Guest : guestOf[g] = b => guestOf'[g] = b
         /\ \A t \in Token : issued[t] # None /\ account[issued[t]] = b =>
                               issued'[t] # None /\ account'[issued'[t]] = b
         /\ \A o \in Owner : PersonOf(o) = b => PersonOf(o)' = b
  <1>1. b # None
    BY VisitorsAssumption
  <1>2. \A o \in Owner : PersonOf(o) = b => PersonOf(o)' = b
    BY <1>1, PersonKept
  <1>3. \A t \in Token : issued[t] # None => issued[t] \in User
    BY DEF TypeInv, VisitorsOK
  <1> QED BY <1>1, <1>2, <1>3, PeopleKept

LEMMA ProperKept ==
  ASSUME TypeInv, Personal, [VNext]_vars, NEW r \in Request, Proper(r), req'[r] = req[r]
  PROVE  Proper(r)'
  <1>1. req[r] \in RequestState
    BY DEF TypeInv, VisitorsOK
  <1>2. CASE req[r].pc = "free"
    BY <1>2, ProperNoRequest DEF Proper, Staged
  <1>3. CASE req[r].pc # "free"
    <2>1. req[r].by \in Browser
      BY <1>1, <1>3 DEF Proper, Staged, RequestState
    <2>2. Staged(req[r])'
      BY DEF Proper, Staged
    <2>3. \A s \in req'[r].shown \cup req'[r].rows : s \in DOMAIN sessions' /\ starter'[s] = req'[r].by
      BY SessionsStep DEF Proper
    <2>4. HoldsAll(req[r])'
      <3>1. req[r].owner # None => PersonOf(req[r].owner)' = req'[r].by
        BY <1>1, <2>1, HoldsKept DEF Proper, HoldsAll, RequestState, PersonOf
      <3>2. /\ HoldsGuest(req[r].by, req[r].cookie)'
            /\ HoldsGuest(req[r].by, req[r].newCookie)'
        BY <1>1, <2>1, HoldsKept DEF Proper, HoldsAll, HoldsGuest, RequestState
      <3>3. /\ HoldsToken(req[r].by, req[r].token)'
            /\ HoldsToken(req[r].by, req[r].newToken)'
        BY <1>1, <2>1, HoldsKept DEF Proper, HoldsAll, HoldsToken, RequestState
      <3> QED BY <3>1, <3>2, <3>3 DEF HoldsAll
    <2> QED BY <2>2, <2>3, <2>4 DEF Proper
  <1> QED BY <1>2, <1>3

LEMMA ProperReply ==
  ASSUME TypeInv, Personal, [VNext]_vars, NEW r \in Request, Proper(r), req[r].pc # "free",
         NEW reply \in Reply, NEW shown \in SUBSET SessionId, Respond(r, reply, shown),
         \A s \in shown : s \in DOMAIN sessions' /\ starter'[s] = req[r].by
  PROVE  Proper(r)'
  <1> DEFINE q == req[r]
             n == req'[r]
  <1>1. q \in RequestState /\ q.by \in Browser
    BY DEF TypeInv, VisitorsOK, Proper, Staged, RequestState
  <1>2. /\ n.rows = {}
        /\ ~q.awaited => n = NoRequest
        /\ q.awaited =>
             /\ n.pc = "done" /\ n.group = None
             /\ n.token = None /\ n.cookie = None /\ n.owner = None
             /\ n.by = q.by /\ n.awaited
             /\ n.newCookie = q.newCookie /\ n.newToken = q.newToken
             /\ n.reply = reply /\ n.shown = shown
    BY RespondRequest DEF TypeInv
  <1>3. CASE ~q.awaited
    BY <1>2, <1>3, ProperNoRequest
  <1>4. CASE q.awaited
    <2>1. Staged(req[r])'
      BY <1>1, <1>2, <1>4, VisitorsAssumption DEF Staged
    <2>2. HoldsAll(req[r])'
      <3>1. HoldsGuest(q.by, q.newCookie) /\ HoldsToken(q.by, q.newToken)
        BY DEF Proper, HoldsAll
      <3>2. HoldsGuest(req[r].by, req[r].newCookie)'
        BY <1>1, <1>2, <1>4, <3>1, HoldsKept DEF HoldsGuest, RequestState
      <3>3. HoldsToken(req[r].by, req[r].newToken)'
        BY <1>1, <1>2, <1>4, <3>1, HoldsKept DEF HoldsToken, RequestState
      <3> QED BY <1>2, <1>4, <3>2, <3>3 DEF HoldsAll, HoldsGuest, HoldsToken
    <2>3. \A s \in n.shown \cup n.rows : s \in DOMAIN sessions' /\ starter'[s] = n.by
      BY <1>2, <1>4
    <2> QED BY <2>1, <2>2, <2>3 DEF Proper
  <1> QED BY <1>3, <1>4

(* A request that goes on with what it has, or with less, and an owner.    *)
LEMMA ProperOnward ==
  ASSUME TypeInv, Personal, [VNext]_vars, NEW r \in Request, Proper(r), req[r].pc # "free",
         req'[r].by = req[r].by,
         req'[r].shown = req[r].shown,
         \A s \in req'[r].rows : s \in DOMAIN sessions' /\ starter'[s] = req[r].by,
         req'[r].cookie \in {req[r].cookie, None},
         req'[r].token \in {req[r].token, None},
         req'[r].newCookie = req[r].newCookie,
         req'[r].newToken = req[r].newToken,
         req'[r].owner \in Owner \cup {None},
         \/ req'[r].owner = None
         \/ PersonOf(req[r].owner)' = req[r].by,
         Staged(req[r])'
  PROVE  Proper(r)'
  <1> DEFINE q == req[r]
             n == req'[r]
  <1>1. q \in RequestState /\ q.by \in Browser
    BY DEF TypeInv, VisitorsOK, Proper, Staged, RequestState
  <1>2. /\ HoldsGuest(q.by, q.cookie) /\ HoldsGuest(q.by, q.newCookie)
        /\ HoldsToken(q.by, q.token) /\ HoldsToken(q.by, q.newToken)
    BY DEF Proper, HoldsAll
  <1>3. HoldsGuest(req[r].by, req[r].cookie)' /\ HoldsGuest(req[r].by, req[r].newCookie)'
    BY <1>1, <1>2, HoldsKept DEF HoldsGuest, RequestState
  <1>4. HoldsToken(req[r].by, req[r].token)' /\ HoldsToken(req[r].by, req[r].newToken)'
    BY <1>1, <1>2, HoldsKept DEF HoldsToken, RequestState
  <1>5. HoldsAll(req[r])'
    BY <1>3, <1>4 DEF HoldsAll
  <1>6. \A s \in n.shown \cup n.rows : s \in DOMAIN sessions' /\ starter'[s] = n.by
    BY SessionsStep DEF Proper
  <1> QED BY <1>5, <1>6 DEF Proper

LEMMA ProperEnter ==
  ASSUME TypeInv, Personal, [VNext]_vars, NEW r \in Request, Proper(r),
         req[r].pc = "sent", NEW o \in Owner \cup {None}, EnterAs(r, o),
         o # None => PersonOf(o) = req[r].by,
         req[r].group = "owner" => o # None,
         req[r].group = "auth" => req[r].token # None
  PROVE  Proper(r)'
  <1>1. req[r] \in RequestState /\ req[r].by \in Browser
    BY DEF TypeInv, VisitorsOK, Proper, Staged, RequestState
  <1>2. /\ req'[r] = Entered(req[r], o)
        /\ req'[r].pc = "handle" /\ req'[r].owner = o /\ req'[r].cookie = None
        /\ req'[r].token = IF req[r].group = "auth" THEN req[r].token ELSE None
        /\ req'[r].by = req[r].by /\ req'[r].group = req[r].group
        /\ req'[r].newCookie = req[r].newCookie /\ req'[r].newToken = req[r].newToken
        /\ req'[r].shown = req[r].shown /\ req'[r].rows = {}
    <2>1. req'[r] = Entered(req[r], o)
      BY Zenon DEF EnterAs, TypeInv, VisitorsOK
    <2>2. req[r].rows = {}
      BY DEF Proper, Staged
    <2> QED BY <2>1, <2>2, <1>1, EnteredRequest
  <1>3. Staged(req[r])'
    BY <1>1, <1>2, VisitorsAssumption DEF Staged
  <1>4. o = None \/ PersonOf(o)' = req[r].by
    BY <1>1, HoldsKept
  <1>5. \/ req'[r].owner = None
        \/ PersonOf(req[r].owner)' = req[r].by
    BY <1>2, <1>4 DEF PersonOf
  <1> QED BY <1>2, <1>3, <1>5, ProperOnward

LEMMA AloneSuffices ==
  ASSUME TypeInv, Personal, AllProper, [VNext]_vars, NEW r \in Request, Alone(r), Proper(r)'
  PROVE  AllProper'
  BY ProperKept DEF Alone, AllProper

LEMMA ProperSend ==
  ASSUME TypeInv, Personal, AllProper, [VNext]_vars,
         NEW b \in Browser, NEW r \in Request, Send(b, r)
  PROVE  AllProper'
  <1>1. PICK group \in Group : req' = [req EXCEPT ![r] = Departing(b, group)]
    BY DEF Send
  <1>2. req'[r] = Departing(b, group) /\ Alone(r)
    BY <1>1 DEF TypeInv, VisitorsOK, Alone
  <1>3. /\ req'[r].pc = "sent" /\ req'[r].by = b
        /\ req'[r].token \in {browser[b].auth, None}
        /\ req'[r].cookie \in {browser[b].cookie, None}
        /\ req'[r].owner = None /\ req'[r].newCookie = None /\ req'[r].newToken = None
        /\ req'[r].shown = {} /\ req'[r].rows = {}
    BY <1>2, NewRequest DEF TypeInv
  <1>4. /\ HoldsGuest(b, browser[b].cookie) /\ HoldsToken(b, browser[b].auth)
        /\ UNCHANGED <<guestOf, account, issued>>
    BY DEF Personal, Send, tokens
  <1>5. HoldsAll(req[r])'
    BY <1>3, <1>4 DEF HoldsAll, HoldsGuest, HoldsToken
  <1>6. Staged(req[r])'
    BY <1>3, VisitorsAssumption DEF Staged
  <1>7. Proper(r)'
    BY <1>3, <1>5, <1>6 DEF Proper
  <1> QED BY <1>2, <1>7, AloneSuffices

LEMMA ProperMiddleware ==
  ASSUME TypeInv, Personal, AllProper, [VNext]_vars, NEW r \in Request,
         RequireOwner(r) \/ RequireAuth(r) \/ OptionalAuth(r)
  PROVE  AllProper'
  <1> DEFINE q == req[r]
  <1>1. /\ q \in RequestState /\ q.pc = "sent" /\ Proper(r)
        /\ q.group \in Group /\ q.rows = {}
        /\ q.token # None => issued[q.token] \in Owner /\ PersonOf(issued[q.token]) = q.by
        /\ q.cookie # None => q.cookie \in Owner /\ PersonOf(q.cookie) = q.by
    <2>1. q \in RequestState /\ q.pc = "sent" /\ Proper(r) /\ q.group \in Group
      BY DEF TypeInv, VisitorsOK, RequireOwner, RequireAuth, OptionalAuth, AllProper, Group
    <2>2. q.token # None => issued[q.token] \in User /\ account[issued[q.token]] = q.by
      BY <2>1 DEF TypeInv, VisitorsOK, RequestState, Proper, HoldsAll, HoldsToken
    <2>3. q.cookie # None => q.cookie \in Guest /\ guestOf[q.cookie] = q.by
      BY <2>1 DEF RequestState, Proper, HoldsAll, HoldsGuest
    <2>4. q.rows = {}
      BY <2>1 DEF Proper, Staged
    <2> QED BY <2>1, <2>2, <2>3, <2>4, OwnerKinds DEF Owner, PersonOf
  <1>2. ASSUME NEW o \in Owner \cup {None}, EnterAs(r, o),
               o # None => PersonOf(o) = q.by,
               q.group = "owner" => o # None,
               q.group = "auth" => q.token # None
        PROVE  AllProper'
    <2>1. Alone(r)
      BY <1>2, Zenon DEF EnterAs, TypeInv, VisitorsOK, Alone
    <2> QED BY <1>1, <1>2, <2>1, ProperEnter, AloneSuffices
  <1>3. ASSUME NEW reply \in Reply, Respond(r, reply, {})
        PROVE  AllProper'
    <2>1. Alone(r)
      BY <1>3, RespondRequest DEF TypeInv, Alone
    <2>2. Proper(r)'
      BY <1>1, <1>3, ProperReply
    <2> QED BY <2>1, <2>2, AloneSuffices
  <1>4. CASE RequireOwner(r)
    <2>1. CASE \E g \in Guest :
                 /\ guestOf[g] = None
                 /\ guestOf' = [guestOf EXCEPT ![g] = q.by]
                 /\ req' = [req EXCEPT ![r] = [Entered(@, g) EXCEPT !.newCookie = g]]
      <3>1. PICK g \in Guest :
              /\ guestOf' = [guestOf EXCEPT ![g] = q.by]
              /\ req' = [req EXCEPT ![r] = [Entered(@, g) EXCEPT !.newCookie = g]]
        BY <2>1
      <3> DEFINE e == Entered(q, g)
                 n == [e EXCEPT !.newCookie = g]
      <3>2. /\ e \in RequestState
            /\ e.pc = "handle" /\ e.owner = g /\ e.cookie = None
            /\ e.token = None
            /\ e.by = q.by /\ e.group = "owner"
            /\ e.newToken = q.newToken
            /\ e.shown = q.shown /\ e.rows = {}
        BY <1>1, <1>4, EnteredRequest DEF RequireOwner, Owner
      <3>3. /\ n.pc = "handle" /\ n.owner = g /\ n.cookie = None
            /\ n.token = None /\ n.newCookie = g
            /\ n.by = q.by /\ n.group = "owner"
            /\ n.newToken = q.newToken
            /\ n.shown = q.shown /\ n.rows = {}
        <4> HIDE DEF e
        <4> QED BY <3>2 DEF RequestState
      <3>4. req'[r] = n /\ Alone(r)
        BY <3>1, Zenon DEF TypeInv, VisitorsOK, Alone
      <3>5. q.by \in Browser /\ guestOf'[g] = q.by
        BY <1>1, <3>1 DEF Proper, Staged, RequestState, TypeInv, VisitorsOK
      <3>6. HoldsToken(q.by, q.newToken) /\ UNCHANGED <<account, issued>>
        BY <1>1, <1>4 DEF Proper, HoldsAll, RequireOwner, tokens
      <3> HIDE DEF n
      <3>7. HoldsAll(req[r])'
        BY <3>3, <3>4, <3>5, <3>6, OwnerKinds DEF HoldsAll, HoldsGuest, HoldsToken, PersonOf
      <3>8. Staged(req[r])'
        BY <3>3, <3>4, <3>5, OwnerKinds, VisitorsAssumption DEF Staged
      <3>9. \A s \in req'[r].shown \cup req'[r].rows : s \in DOMAIN sessions' /\ starter'[s] = req'[r].by
        BY <1>1, <3>3, <3>4, SessionsStep DEF Proper
      <3>10. Proper(r)'
        BY <3>7, <3>8, <3>9 DEF Proper
      <3> QED BY <3>4, <3>10, AloneSuffices
    <2>2. CASE q.token # None /\ EnterAs(r, issued[q.token])
      BY <1>1, <1>2, <1>4, <2>2, OwnerKinds DEF RequireOwner, Owner
    <2>3. CASE \E reply \in Reply : Respond(r, reply, {})
      BY <1>3, <2>3
    <2>4. CASE q.cookie # None /\ EnterAs(r, q.cookie)
      BY <1>1, <1>2, <1>4, <2>4, OwnerKinds DEF RequireOwner, Owner
    <2> QED BY <1>4, <2>1, <2>2, <2>3, <2>4 DEF RequireOwner, Reply
  <1>5. CASE RequireAuth(r)
    <2>1. CASE q.token # None /\ EnterAs(r, issued[q.token])
      BY <1>1, <1>2, <1>5, <2>1, OwnerKinds DEF RequireAuth, Owner
    <2>2. CASE Respond(r, "signedOut", {})
      BY <1>3, <2>2 DEF Reply
    <2> QED BY <1>5, <2>1, <2>2 DEF RequireAuth
  <1>6. CASE OptionalAuth(r)
    <2>1. CASE q.token # None /\ EnterAs(r, issued[q.token])
      BY <1>1, <1>2, <1>6, <2>1, OwnerKinds DEF OptionalAuth, Owner
    <2>2. CASE EnterAs(r, None)
      BY <1>2, <1>6, <2>2 DEF OptionalAuth
    <2> QED BY <1>6, <2>1, <2>2 DEF OptionalAuth
  <1> QED BY <1>4, <1>5, <1>6

(* The sessions of the owner a request is handled for.                     *)
LEMMA OwnSessions ==
  ASSUME TypeInv, Personal, StaysWithStarter, [VNext]_vars, NEW r \in Request, Proper(r),
         NEW s \in SessionsOf(req[r].owner)
  PROVE  /\ s \in SessionId
         /\ s \in DOMAIN sessions' /\ starter'[s] = req[r].by
  <1>1. s \in DOMAIN sessions /\ sessions[s].owner = req[r].owner
    BY DEF SessionsOf
  <1>2. s \in SessionId /\ sessions[s].owner \in Owner
    BY <1>1 DEF TypeInv, TypeOK, SessionRow
  <1>3. PersonOf(req[r].owner) = req[r].by
    BY <1>1, <1>2, OwnerKinds DEF Proper, HoldsAll, Owner
  <1> QED BY <1>1, <1>2, <1>3, SessionsStep DEF StaysWithStarter

(* The sessions of the guest whose cookie a request has.                   *)
LEMMA CookieSessions ==
  ASSUME TypeInv, Personal, StaysWithStarter, [VNext]_vars, NEW r \in Request, Proper(r),
         req[r].cookie # None, NEW s \in SessionsOf(req[r].cookie)
  PROVE  s \in DOMAIN sessions' /\ starter'[s] = req[r].by
  <1>1. s \in DOMAIN sessions /\ sessions[s].owner = req[r].cookie
    BY DEF SessionsOf
  <1>2. req[r].cookie \in Guest /\ guestOf[req[r].cookie] = req[r].by
    BY DEF TypeInv, VisitorsOK, RequestState, Proper, HoldsAll, HoldsGuest
  <1>3. PersonOf(req[r].cookie) = req[r].by
    BY <1>2, OwnerKinds DEF PersonOf
  <1> QED BY <1>1, <1>3, SessionsStep DEF StaysWithStarter

LEMMA ProperContinues ==
  ASSUME TypeInv, Personal, StaysWithStarter, AllProper, [VNext]_vars, NEW r \in Request,
         Continues(r)
  PROVE  AllProper'
  <1> DEFINE q == req[r]
             n == req'[r]
  <1>1. Proper(r) /\ q \in RequestState /\ GoesOn(r) /\ n \in RequestState
    BY ContinuesRequest DEF AllProper, TypeInv, VisitorsOK, GoesOn
  <1>2. /\ q.pc # "free" /\ n.pc \in {"answer", "abandon", "restart", "create", "move"}
        /\ n.pc \in {"answer", "abandon", "restart", "create"} => q.owner # None
        /\ n.pc = "move" => q.owner \in User /\ q.cookie # None
        /\ n.rows # {} => n.pc \in {"answer", "abandon", "restart", "move"}
    BY <1>1, ContinuesRequest DEF Proper, Staged
  <1>3. q.by \in Browser /\ q.by # None
    BY <1>1, <1>2 DEF Proper, Staged, RequestState
  <1>4. q.owner \in Owner /\ PersonOf(q.owner) = q.by
    BY <1>1, <1>2, OwnerKinds DEF RequestState, Owner, Proper, HoldsAll
  <1>5. PersonOf(req[r].owner)' = q.by
    BY <1>1, <1>3, <1>4, HoldsKept DEF GoesOn, PersonOf
  <1>6. Staged(req[r])'
    BY <1>1, <1>2, <1>3 DEF GoesOn, Staged
  <1>7. \A s \in n.rows : s \in DOMAIN sessions' /\ starter'[s] = q.by
    BY <1>1, ContinuesRequest, OwnSessions, CookieSessions
  <1>8. Proper(r)'
    BY <1>1, <1>2, <1>4, <1>5, <1>6, <1>7, ProperOnward DEF GoesOn
  <1> QED BY <1>1, <1>8, AloneSuffices DEF GoesOn

LEMMA ProperHandlers ==
  ASSUME TypeInv, Personal, StaysWithStarter, AllProper, [VNext]_vars, NEW r \in Request,
         \/ \E c \in Code : HandleStart(r, c)
         \/ HandleGet(r) \/ WriteAnswer(r) \/ WriteAbandon(r) \/ HandleProgress(r)
         \/ HandleCatalog(r) \/ HandleLogout(r) \/ Refuse(r)
  PROVE  AllProper'
  <1> DEFINE o == req[r].owner
  <1>1. /\ Proper(r) /\ req[r] \in RequestState
        /\ req[r].pc # "free"
        /\ \A c : ActiveSessions(o, c) \subseteq SessionsOf(o)
    BY DEF AllProper, TypeInv, VisitorsOK, HandleStart, HandleGet,
       WriteAnswer, WriteAbandon, HandleProgress, HandleCatalog, HandleLogout, Refuse,
       Handles, ActiveSessions, SessionsOf
  <1>2. ASSUME NEW reply \in Reply, NEW shown \in SUBSET SessionId,
               Respond(r, reply, shown),
               \A s \in shown : s \in DOMAIN sessions' /\ starter'[s] = req[r].by
        PROVE  AllProper'
    <2>1. Alone(r)
      BY <1>2, RespondRequest DEF TypeInv, Alone
    <2>2. Proper(r)'
      BY <1>1, <1>2, ProperReply
    <2> QED BY <2>1, <2>2, AloneSuffices
  <1>3. ASSUME NEW reply \in Reply, NEW shown, shown \subseteq SessionsOf(o),
               Respond(r, reply, shown)
        PROVE  AllProper'
    <2>1. \A s \in shown : /\ s \in SessionId
                           /\ s \in DOMAIN sessions' /\ starter'[s] = req[r].by
      BY <1>1, <1>3, OwnSessions
    <2> QED BY <2>1, <1>2, <1>3
  <1>4. ASSUME NEW c \in Code, HandleStart(r, c)
        PROVE  AllProper'
    <2>1. CASE Respond(r, "shown", ActiveSessions(o, c))
      BY <2>1, <1>1, <1>3 DEF Reply
    <2>2. CASE \E s \in SessionId :
                 /\ Start(s, o, c, active[c])
                 /\ starter' = [x \in DOMAIN sessions \cup {s} |->
                                  IF x = s THEN req[r].by ELSE starter[x]]
                 /\ Respond(r, "created", {s})
      <3>1. PICK s \in SessionId :
              /\ Start(s, o, c, active[c])
              /\ starter' = [x \in DOMAIN sessions \cup {s} |->
                               IF x = s THEN req[r].by ELSE starter[x]]
              /\ Respond(r, "created", {s})
        BY <2>2
      <3>2. s \in DOMAIN sessions' /\ starter'[s] = req[r].by
        BY <3>1 DEF Start, InsertSession
      <3> QED BY <3>1, <3>2, <1>2 DEF Reply
    <2> QED BY <2>1, <2>2, <1>4 DEF HandleStart
  <1>5. CASE WriteAnswer(r) \/ WriteAbandon(r)
    <2>1. PICK s \in req[r].rows : Respond(r, "shown", {s})
      BY <1>5 DEF WriteAnswer, WriteAbandon
    <2>2. s \in SessionId /\ s \in DOMAIN sessions' /\ starter'[s] = req[r].by
      BY <1>1, SessionsStep DEF Proper, RequestState
    <2> QED BY <2>1, <2>2, <1>2 DEF Reply
  <1>6. CASE HandleGet(r)
    <2>1. PICK s \in SessionsOf(o) : Respond(r, "shown", {s})
      BY <1>6 DEF HandleGet
    <2> QED BY <2>1, <1>3 DEF Reply
  <1>7. CASE HandleProgress(r)
    BY <1>7, <1>3 DEF HandleProgress, Reply
  <1>8. CASE HandleCatalog(r)
    BY <1>8, <1>3 DEF HandleCatalog, Reply
  <1>9. CASE HandleLogout(r) \/ Refuse(r)
    BY <1>9, <1>2 DEF HandleLogout, Refuse, Reply
  <1> QED BY <1>4, <1>5, <1>6, <1>7, <1>8, <1>9

LEMMA ProperAccounts ==
  ASSUME TypeInv, Personal, AllProper, [VNext]_vars, NEW r \in Request,
         \/ \E u \in User : Register(r, u) \/ Login(r, u)
         \/ \E t \in Token : ClaimGuest(r, t)
         \/ Receive(r) \/ GiveUp(r) \/ Drop(r)
  PROVE  AllProper'
  <1>1. /\ Proper(r) /\ req[r] \in RequestState
        /\ req[r].pc # "free" /\ req[r].by \in Browser
    BY DEF AllProper, TypeInv, VisitorsOK, Register, Login, ClaimGuest, Receive, GiveUp, Drop,
       Proper, Staged, RequestState
  <1>2. ASSUME NEW u \in User, Register(r, u) \/ Login(r, u)
        PROVE  AllProper'
    <2>1. ToClaim(r, u) /\ account'[u] = req[r].by
      BY <1>2 DEF Register, Login, TypeInv, VisitorsOK
    <2>2. Alone(r)
      BY <2>1, ToClaimRequest DEF TypeInv, Alone
    <2>3. /\ req'[r].pc = "claim" /\ req'[r].owner = u
          /\ req'[r].by = req[r].by /\ req'[r].awaited = req[r].awaited
          /\ req'[r].token = req[r].token /\ req'[r].cookie = req[r].cookie
          /\ req'[r].newCookie = req[r].newCookie /\ req'[r].newToken = req[r].newToken
          /\ req'[r].shown = req[r].shown /\ req'[r].rows = {}
      BY <1>1, <1>2, <2>1, ToClaimRequest DEF TypeInv, Register, Login, Proper, Staged
    <2>4. PersonOf(req[r].owner)' = req[r].by
      BY <2>1, <2>3 DEF PersonOf
    <2>5. Staged(req[r])'
      BY <1>1, <2>3, VisitorsAssumption DEF Staged
    <2>6. Proper(r)'
      BY <1>1, <2>3, <2>4, <2>5, ProperOnward DEF Owner
    <2> QED BY <2>2, <2>6, AloneSuffices
  <1>3. ASSUME NEW t \in Token, ClaimGuest(r, t)
        PROVE  AllProper'
    <2>1. req[r].owner \in User /\ account[req[r].owner] = req[r].by
      BY <1>1, <1>3, OwnerKinds DEF ClaimGuest, Proper, Staged, HoldsAll, PersonOf
    <2>2. /\ \A x \in Request \ {r} : req'[x] = req[x]
          /\ req'[r].rows = {}
          /\ ~req[r].awaited => req'[r] = NoRequest
          /\ req[r].awaited =>
               /\ req'[r].pc = "done" /\ req'[r].group = None
               /\ req'[r].token = None /\ req'[r].cookie = None /\ req'[r].owner = None
               /\ req'[r].by = req[r].by /\ req'[r].awaited
               /\ req'[r].newCookie = req[r].newCookie
               /\ req'[r].newToken = t
               /\ req'[r].shown = req[r].shown
      BY <1>3, <2>1, SignInRequest DEF ClaimGuest
    <2>3. issued'[t] = req[r].owner /\ account' = account
      BY <1>3 DEF ClaimGuest, SignIn, TypeInv, VisitorsOK
    <2>4. CASE ~req[r].awaited
      BY <2>2, <2>4, ProperNoRequest, AloneSuffices DEF Alone
    <2>5. CASE req[r].awaited
      <3>1. Staged(req[r])'
        BY <1>1, <2>2, <2>5, VisitorsAssumption DEF Staged
      <3>2. HoldsGuest(req[r].by, req[r].newCookie)'
        BY <1>1, <2>2, <2>5, HoldsKept DEF Proper, HoldsAll, HoldsGuest, RequestState
      <3>3. HoldsToken(req[r].by, req[r].newToken)'
        BY <2>1, <2>2, <2>3, <2>5, OwnerKinds DEF HoldsToken
      <3>4. HoldsAll(req[r])'
        BY <2>2, <2>5, <3>2, <3>3 DEF HoldsAll, HoldsGuest, HoldsToken
      <3>5. \A s \in req'[r].shown \cup req'[r].rows : s \in DOMAIN sessions' /\ starter'[s] = req'[r].by
        BY <1>1, <2>2, <2>5, SessionsStep DEF Proper
      <3>6. Proper(r)'
        BY <3>1, <3>4, <3>5 DEF Proper
      <3> QED BY <2>2, <3>6, AloneSuffices DEF Alone
    <2> QED BY <2>4, <2>5
  <1>4. CASE Receive(r) \/ Drop(r)
    <2>1. req'[r] = NoRequest /\ Alone(r)
      BY <1>4 DEF Receive, Drop, TypeInv, VisitorsOK, Alone
    <2> QED BY <2>1, ProperNoRequest, AloneSuffices
  <1>5. CASE GiveUp(r)
    <2> DEFINE n == [req[r] EXCEPT !.awaited = FALSE]
    <2>1. req' = [req EXCEPT ![r] = n]
      BY <1>5, Zenon DEF GiveUp
    <2>2. /\ n.pc = "sent" /\ n.by = req[r].by /\ n.shown = req[r].shown
          /\ n.cookie = req[r].cookie /\ n.token = req[r].token
          /\ n.newCookie = req[r].newCookie /\ n.newToken = req[r].newToken
          /\ n.owner = req[r].owner /\ n.rows = {}
      BY <1>1, <1>5 DEF RequestState, GiveUp, Proper, Staged
    <2> HIDE DEF n
    <2>3. req'[r] = n /\ Alone(r)
      BY <2>1 DEF TypeInv, VisitorsOK, Alone
    <2>4. Staged(req[r])'
      BY <1>1, <2>2, <2>3, VisitorsAssumption DEF Staged
    <2>5. \/ req'[r].owner = None
          \/ PersonOf(req[r].owner)' = req[r].by
      BY <1>1, <2>2, <2>3, HoldsKept DEF Proper, HoldsAll, PersonOf, RequestState
    <2>6. Proper(r)'
      BY <1>1, <2>2, <2>3, <2>4, <2>5, ProperOnward DEF RequestState
    <2> QED BY <2>3, <2>6, AloneSuffices
  <1> QED BY <1>2, <1>3, <1>4, <1>5

LEMMA ProperStep ==
  ASSUME TypeInv, Personal, StaysWithStarter, AllProper, [VNext]_vars
  PROVE  AllProper'
  <1>1. CASE UNCHANGED req
    BY <1>1, ProperKept DEF AllProper
  <1>2. ASSUME (\E t \in Token : Expire(t)) \/ \E b \in Browser : CookieExpires(b)
        PROVE  UNCHANGED req
    BY <1>2 DEF Expire, CookieExpires
  <1>3. UNCHANGED vars => UNCHANGED req
    BY DEF vars
  <1> QED BY <1>1, <1>2, <1>3, ProperSend, ProperMiddleware, ProperContinues,
          ProperHandlers, ProperAccounts DEF VNext, Serve, Continues

(* What a browser holds changes with the replies to its own requests, and  *)
(* when its cookie expires.                                                *)
Settled(b) ==
  /\ browser'[b].cookie = browser[b].cookie
  /\ browser'[b].auth = browser[b].auth
  /\ browser'[b].known = browser[b].known
  /\ browser'[b].orderly => browser[b].orderly

CookieGone(b) ==
  /\ browser'[b].cookie = None
  /\ browser'[b].auth = browser[b].auth
  /\ ~browser'[b].orderly

LEMMA BrowserStep ==
  ASSUME TypeInv, Personal, [VNext]_vars, NEW b \in Browser
  PROVE  \/ Settled(b) \/ CookieGone(b)
         \/ \E r \in Request : Receive(r) /\ req[r].by = b
  <1>1. ASSUME UNCHANGED browser
        PROVE  Settled(b)
    BY <1>1 DEF Settled
  <1>2. ASSUME NEW x \in Browser, NEW orderly,
               orderly => browser[x].orderly,
               browser' = [browser EXCEPT ![x] = [browser[x] EXCEPT !.orderly = orderly]]
        PROVE  Settled(b)
    <2>1. browser[x] \in BrowserState
      BY DEF TypeInv, VisitorsOK
    <2> DEFINE n == [browser[x] EXCEPT !.orderly = orderly]
    <2>2. /\ n.cookie = browser[x].cookie /\ n.auth = browser[x].auth
          /\ n.known = browser[x].known /\ n.orderly = orderly
      BY <2>1 DEF BrowserState
    <2> HIDE DEF n
    <2>3. browser'[b] = IF b = x THEN n ELSE browser[b]
      BY <1>2, Zenon DEF n, TypeInv, VisitorsOK
    <2> QED BY <1>2, <2>2, <2>3 DEF Settled
  <1>3. ASSUME NEW x \in Browser, NEW r \in Request, Send(x, r)
        PROVE  Settled(b)
    <2>1. PICK group \in Group :
            browser' = [browser EXCEPT ![x].orderly =
                          @ /\ ~(Anonymous(Departing(x, group)) /\ AwaitsCookie(x))]
      BY <1>3 DEF Send
    <2>2. browser' = [browser EXCEPT ![x] = [browser[x] EXCEPT !.orderly =
                        browser[x].orderly /\ ~(Anonymous(Departing(x, group)) /\ AwaitsCookie(x))]]
      BY <2>1, Zenon
    <2> QED BY <1>2, <2>2
  <1>4. ASSUME NEW r \in Request, RequireOwner(r)
        PROVE  Settled(b)
    <2>1. req[r].by \in Browser
      BY <1>4 DEF RequireOwner, Personal, Staged, TypeInv, VisitorsOK, RequestState
    <2>2. CASE browser' = [browser EXCEPT ![req[r].by].orderly = @ /\ req[r].cookie = None]
      <3>1. browser' = [browser EXCEPT ![req[r].by] = [browser[req[r].by] EXCEPT !.orderly =
                          browser[req[r].by].orderly /\ req[r].cookie = None]]
        BY <2>2, Zenon
      <3> QED BY <2>1, <3>1, <1>2
    <2> QED BY <1>1, <2>2, <1>4 DEF RequireOwner
  <1>5. ASSUME NEW r \in Request, Receive(r), req[r].by # b
        PROVE  Settled(b)
    <2>1. req[r].by \in Browser
      BY <1>5 DEF Receive, Personal, Staged, TypeInv, VisitorsOK, RequestState
    <2> QED BY <1>5, <2>1, ReceiveReply DEF Settled
  <1>6. ASSUME NEW r \in Request,
               \/ RequireAuth(r) \/ OptionalAuth(r)
               \/ \E c \in Code : HandleStart(r, c) \/ HandleRestart(r, c)
               \/ HandleGet(r) \/ HandleAnswer(r) \/ HandleAbandon(r) \/ HandleProgress(r)
               \/ HandleCatalog(r) \/ HandleLogout(r) \/ Refuse(r)
               \/ WriteRestart(r) \/ WriteAnswer(r) \/ WriteAbandon(r) \/ ClaimBegin(r)
               \/ \E u \in User : Register(r, u) \/ Login(r, u)
               \/ \E t \in Token : ClaimGuest(r, t)
               \/ GiveUp(r) \/ Drop(r)
        PROVE  UNCHANGED browser
    BY <1>6 DEF RequireAuth, OptionalAuth, HandleStart, HandleRestart, HandleGet, HandleAnswer,
       HandleAbandon, HandleProgress, HandleCatalog, HandleLogout, Refuse, Register, Login,
       ClaimGuest, GiveUp, Drop, WriteRestart, WriteAnswer, WriteAbandon, ClaimBegin
  <1>7. ASSUME NEW t \in Token, Expire(t)
        PROVE  UNCHANGED browser
    BY <1>7 DEF Expire
  <1>8. UNCHANGED vars => UNCHANGED browser
    BY DEF vars
  <1>9. ASSUME NEW x \in Browser, CookieExpires(x)
        PROVE  Settled(b) \/ CookieGone(b)
    <2> DEFINE n == [browser[x] EXCEPT !.cookie = None, !.orderly = FALSE]
    <2>1. browser[x] \in BrowserState
      BY DEF TypeInv, VisitorsOK
    <2>2. n.cookie = None /\ n.auth = browser[x].auth /\ ~n.orderly
      BY <2>1 DEF BrowserState
    <2>3. browser' = [browser EXCEPT ![x] = n]
      BY <1>9, Zenon DEF CookieExpires
    <2> HIDE DEF n
    <2>4. browser'[b] = IF b = x THEN n ELSE browser[b]
      BY <2>3 DEF TypeInv, VisitorsOK
    <2> QED BY <2>2, <2>4 DEF Settled, CookieGone
  <1> QED BY <1>1, <1>3, <1>4, <1>5, <1>6, <1>7, <1>8, <1>9 DEF VNext, Serve

LEMMA PersonalStep ==
  ASSUME TypeInv, Personal, StaysWithStarter, AllProper, [VNext]_vars
  PROVE  Personal'
  <1>1. ASSUME NEW r \in Request
        PROVE  Staged(req[r])' /\ HoldsAll(req[r])'
    BY ProperStep DEF AllProper, Proper
  <1>2. ASSUME NEW b \in Browser
        PROVE  HoldsGuest(b, browser[b].cookie)' /\ HoldsToken(b, browser[b].auth)'
    <2>1. /\ browser[b] \in BrowserState
          /\ HoldsGuest(b, browser[b].cookie) /\ HoldsToken(b, browser[b].auth)
      BY DEF TypeInv, VisitorsOK, Personal
    <2>2. CASE Settled(b)
      BY <2>1, <2>2, HoldsKept DEF Settled, HoldsGuest, HoldsToken, BrowserState
    <2>3. CASE \E r \in Request : Receive(r) /\ req[r].by = b
      <3>1. PICK r \in Request : Receive(r) /\ req[r].by = b
        BY <2>3
      <3>2. /\ req[r] \in RequestState
            /\ HoldsGuest(b, req[r].newCookie) /\ HoldsToken(b, req[r].newToken)
        BY <3>1 DEF TypeInv, VisitorsOK, Personal, HoldsAll
      <3>3. /\ browser'[b].cookie \in {req[r].newCookie, browser[b].cookie}
            /\ browser'[b].auth \in {req[r].newToken, None, browser[b].auth}
        BY <3>1, ReceiveReply
      <3> QED BY <2>1, <3>2, <3>3, HoldsKept DEF HoldsGuest, HoldsToken, BrowserState, RequestState
    <2>4. CASE CookieGone(b)
      BY <2>1, <2>4, HoldsKept DEF CookieGone, HoldsGuest, HoldsToken, BrowserState
    <2> QED BY <2>2, <2>3, <2>4, BrowserStep
  <1> QED BY <1>1, <1>2 DEF Personal

-----------------------------------------------------------------------------
(* The invariants.                                                         *)
Safe == Base /\ VisitorsOK /\ Personal /\ StaysWithStarter /\ AllProper

LEMMA SafeInit == VInit => Safe
  <1> SUFFICES ASSUME VInit PROVE Safe
    OBVIOUS
  <1>1. Base
    BY TypeInit, FS_EmptySet DEF VInit, InitTables, Base, Stored
  <1>2. VisitorsOK
    BY NoRequestType, VisitorsAssumption DEF VInit, InitTables, VisitorsOK, BrowserState
  <1>3. ASSUME NEW r \in Request
        PROVE  Proper(r)
    BY DEF VInit, NoRequest, Proper, Staged, HoldsAll, HoldsGuest, HoldsToken
  <1>4. StaysWithStarter
    BY DEF VInit, InitTables, StaysWithStarter
  <1>5. Personal
    BY <1>3 DEF Proper, Personal, VInit, HoldsGuest, HoldsToken
  <1> QED BY <1>1, <1>2, <1>3, <1>4, <1>5 DEF Safe, AllProper

LEMMA SafeStep ==
  ASSUME Safe, [VNext]_vars
  PROVE  Safe'
  <1>1. TypeInv /\ Personal /\ StaysWithStarter /\ AllProper
    BY DEF Safe, Base, TypeInv
  <1>2. Base'
    BY <1>1, TablesStep, BaseStep DEF Safe
  <1>3. VisitorsOK' /\ Personal' /\ AllProper'
    BY <1>1, TypeStep, PersonalStep, ProperStep
  <1>4. StaysWithStarter'
    BY <1>1, <1>2, StarterStep DEF Base
  <1> QED BY <1>2, <1>3, <1>4 DEF Safe

LEMMA AlwaysSafe == VSpec => []Safe
  BY SafeInit, SafeStep, PTL DEF VSpec

(* Every reachable state of the tables, browsers and requests is well      *)
(* typed.                                                                  *)
THEOREM VisitorsTypeCorrect == VSpec => []TypeInv
  <1>1. Safe => TypeInv
    BY DEF Safe, Base, TypeInv
  <1> QED BY <1>1, AlwaysSafe, PTL

(* No session changes hands and no reply shows one to anybody but the      *)
(* person who started it, for any number of people, accounts, tokens and   *)
(* requests under way.                                                     *)
THEOREM SeparateHolds == VSpec => []Separate
  <1>1. Safe => Separate
    BY DEF Safe, StaysWithStarter, AllProper, Proper, Separate
  <1> QED BY <1>1, AlwaysSafe, PTL

(* Whatever browsers and the middleware do, the tables change as Attempt   *)
(* says: what is proved of Attempt holds behind the access control.        *)
THEOREM VisitorsImplementAttempt == VSpec => Spec
  <1>1. VInit => InitTables
    BY DEF VInit
  <1>2. Safe /\ [VNext]_vars => [Next]_tables
    BY TablesStep DEF Safe, Base, TypeInv
  <1> QED BY <1>1, <1>2, AlwaysSafe, PTL DEF VSpec, Spec

-----------------------------------------------------------------------------
(* An orderly browser keeps within reach the sessions it knows of.         *)

(* A session changes hands from the guest of a cookie to an account of its *)
(* person only, so that whatever reached it reaches it still.              *)
LEMMA ReachKept ==
  ASSUME TypeInv, Personal, [VNext]_vars, NEW b \in Browser, NEW cookie \in Guest \cup {None},
         HoldsGuest(b, cookie)
  PROVE  /\ \A s \in DOMAIN sessions :
              Reaches(b, cookie, sessions[s].owner) =>
                \/ sessions'[s].owner = cookie
                \/ sessions'[s].owner \in User /\ account'[sessions'[s].owner] = b
         /\ \A u \in User : account[u] = b => account'[u] = b
  <1>1. \A u \in User : account[u] = b => account'[u] = b
    BY PeopleKept, VisitorsAssumption
  <1>2. ASSUME NEW s \in DOMAIN sessions, Reaches(b, cookie, sessions[s].owner)
        PROVE  \/ sessions'[s].owner = cookie
               \/ sessions'[s].owner \in User /\ account'[sessions'[s].owner] = b
    <2>1. Handed(s)
      BY SessionsStep
    <2>2. CASE sessions'[s].owner = sessions[s].owner
      BY <1>1, <1>2, <2>2 DEF Reaches
    <2>3. CASE /\ sessions[s].owner \in Guest /\ sessions'[s].owner \in User
               /\ account[sessions'[s].owner] = guestOf[sessions[s].owner]
      <3>1. sessions[s].owner = cookie /\ guestOf[cookie] = b
        BY <1>2, <2>3, OwnerKinds DEF Reaches, HoldsGuest
      <3> QED BY <1>1, <2>3, <3>1
    <2> QED BY <2>1, <2>2, <2>3 DEF Handed
  <1> QED BY <1>1, <1>2

(* The cookie a request counts on.                                         *)
CookieOf(b, q) == IF q.newCookie # None THEN q.newCookie ELSE browser[b].cookie

LEMMA CookieHeld ==
  ASSUME TypeInv, Personal, NEW b \in Browser, NEW r \in Request, req[r].by = b
  PROVE  CookieOf(b, req[r]) \in Guest \cup {None} /\ HoldsGuest(b, CookieOf(b, req[r]))
  BY DEF CookieOf, TypeInv, VisitorsOK, BrowserState, RequestState, Personal, HoldsAll

LEMMA KeepsReachKept ==
  ASSUME TypeInv, Personal, AllProper, [VNext]_vars, NEW b \in Browser, NEW r \in Request,
         req'[r] = req[r], browser'[b].cookie = browser[b].cookie, KeepsReach(b, req[r])
  PROVE  KeepsReach(b, req[r])'
  <1> SUFFICES ASSUME req[r].by = b, req[r].awaited
               PROVE  KeepsReach(b, req[r])'
    BY DEF KeepsReach
  <1> DEFINE q == req[r]
             cookie == CookieOf(b, q)
  <1>1. cookie \in Guest \cup {None} /\ HoldsGuest(b, cookie)
    BY CookieHeld
  <1>2. cookie = IF req'[r].newCookie # None THEN req'[r].newCookie ELSE browser'[b].cookie
    BY DEF CookieOf
  <1>3. /\ q.pc \in {"restart", "create"} \/ (q.pc = "handle" /\ q.group = "owner")
             => Reaches(b, cookie, q.owner)
        /\ q.pc = "done" /\ q.reply = "created" =>
             \A s \in q.shown : s \in DOMAIN sessions /\ Reaches(b, cookie, sessions[s].owner)
    BY DEF KeepsReach, WillReach, CookieOf, AllProper, Proper
  <1> HIDE DEF cookie
  <1>4. q.pc \in {"restart", "create"} \/ (q.pc = "handle" /\ q.group = "owner")
          => WillReach(b, req[r], req[r].owner)'
    BY <1>1, <1>2, <1>3, ReachKept DEF WillReach, Reaches
  <1>5. q.pc = "done" /\ q.reply = "created" =>
          \A s \in q.shown : WillReach(b, req[r], sessions[s].owner)'
    BY <1>1, <1>2, <1>3, ReachKept DEF WillReach, Reaches
  <1> QED BY <1>4, <1>5 DEF KeepsReach

(* A step that changes one request and not the cookie.                     *)
LEMMA OneRequest ==
  ASSUME TypeInv, Personal, AllProper, [VNext]_vars, NEW b \in Browser, InOrder(b), Settled(b),
         NEW r \in Request, Alone(r),
         Awaits(b, r)' => Awaits(b, r),
         KeepsReach(b, req[r])'
  PROVE  InOrder(b)'
  <1>1. ASSUME NEW x \in Request
        PROVE  Awaits(b, x)' => Awaits(b, x)
    BY DEF Alone, Awaits, Anonymous
  <1>2. ASSUME NEW x \in Request
        PROVE  KeepsReach(b, req[x])'
    BY KeepsReachKept DEF Alone, InOrder, Settled
  <1> QED BY <1>1, <1>2 DEF InOrder, Settled

LEMMA OrderlyGone ==
  ASSUME NEW b \in Browser, NEW r \in Request, req'[r] = NoRequest
  PROVE  ~Awaits(b, r)' /\ KeepsReach(b, req[r])'
  BY VisitorsAssumption DEF Awaits, Anonymous, KeepsReach, NoRequest

LEMMA OrderlyReply ==
  ASSUME TypeInv, Personal, AllProper, [VNext]_vars, NEW b \in Browser, InOrder(b), Settled(b),
         NEW r \in Request, NEW reply \in Reply, NEW shown \in SUBSET SessionId,
         Respond(r, reply, shown),
         reply = "created" =>
           /\ req[r].pc = "create" \/ (req[r].pc = "handle" /\ req[r].group = "owner")
           /\ account' = account
           /\ \A s \in shown : sessions'[s].owner = req[r].owner
  PROVE  InOrder(b)'
  <1> DEFINE q == req[r]
             n == req'[r]
  <1>1. /\ Alone(r)
        /\ ~q.awaited => n = NoRequest
        /\ q.awaited =>
             /\ n.pc = "done" /\ n.cookie = None /\ n.by = q.by
             /\ n.newCookie = q.newCookie /\ n.reply = reply /\ n.shown = shown
    BY RespondRequest DEF TypeInv, Alone
  <1>2. CASE ~q.awaited
    BY <1>1, <1>2, OrderlyGone, OneRequest
  <1>3. CASE q.awaited
    <2>1. Awaits(b, r)' => Awaits(b, r)
      BY <1>1, <1>3 DEF Awaits, Anonymous
    <2>2. KeepsReach(b, req[r])'
      BY <1>1, <1>3 DEF InOrder, KeepsReach, WillReach, Reaches, Settled
    <2> QED BY <1>1, <2>1, <2>2, OneRequest
  <1> QED BY <1>2, <1>3

LEMMA OrderlySend ==
  ASSUME TypeInv, Personal, AllProper, [VNext]_vars, NEW b \in Browser, InOrder(b), Settled(b),
         browser'[b].orderly, NEW x \in Browser, NEW r \in Request, Send(x, r)
  PROVE  InOrder(b)'
  <1>1. PICK group \in Group :
          /\ req' = [req EXCEPT ![r] = Departing(x, group)]
          /\ browser' = [browser EXCEPT ![x].orderly =
                           @ /\ ~(Anonymous(Departing(x, group)) /\ AwaitsCookie(x))]
    BY DEF Send
  <1> DEFINE n == Departing(x, group)
  <1>2. req'[r] = n /\ Alone(r)
    BY <1>1 DEF TypeInv, VisitorsOK, Alone
  <1>3. /\ n.pc = "sent" /\ n.by = x /\ n.newCookie = None
        /\ n.cookie \in {browser[x].cookie, None}
        /\ n.group = "owner" /\ n.token = None => n.cookie = browser[x].cookie
    BY NewRequest DEF TypeInv
  <1>4. KeepsReach(b, req[r])'
    BY <1>2, <1>3 DEF KeepsReach, Settled
  <1>5. CASE ~Awaits(b, r)'
    BY <1>2, <1>4, <1>5, OneRequest
  <1>6. CASE Awaits(b, r)'
    <2>1. x = b /\ Anonymous(n) /\ browser[b].cookie = None
      BY <1>2, <1>3, <1>6 DEF Awaits, Anonymous
    <2>2. ~AwaitsCookie(b)
      <3> DEFINE orderly == browser[b].orderly /\ ~(Anonymous(n) /\ AwaitsCookie(b))
                 m == [browser[b] EXCEPT !.orderly = orderly]
      <3>1. browser[b] \in BrowserState
        BY DEF TypeInv, VisitorsOK
      <3>2. m.orderly = orderly
        <4> HIDE DEF orderly
        <4> QED BY <3>1 DEF BrowserState
      <3>3. browser'[b] = m
        BY <1>1, <2>1, Zenon DEF TypeInv, VisitorsOK
      <3> HIDE DEF m
      <3>4. orderly
        BY <3>2, <3>3
      <3> QED BY <2>1, <3>4
    <2>3. ASSUME NEW y \in Request, Awaits(b, y)'
          PROVE  y = r
      BY <2>2, <2>3, <1>2 DEF AwaitsCookie, Awaits, Anonymous, Alone
    <2>4. ASSUME NEW y \in Request
          PROVE  KeepsReach(b, req[y])'
      BY <1>2, <1>4, KeepsReachKept DEF Alone, InOrder, Settled
    <2> QED BY <2>1, <2>3, <2>4 DEF InOrder, Settled
  <1> QED BY <1>5, <1>6

LEMMA OrderlyEnter ==
  ASSUME TypeInv, Personal, AllProper, [VNext]_vars, NEW b \in Browser, InOrder(b), Settled(b),
         NEW r \in Request, NEW o \in Owner \cup {None}, EnterAs(r, o),
         req[r].pc = "sent", account' = account,
         req[r].group = "owner" =>
           \/ o \in User /\ account[o] = req[r].by
           \/ o = req[r].cookie /\ o # None
  PROVE  InOrder(b)'
  <1> DEFINE q == req[r]
             n == req'[r]
  <1>1. n = Entered(q, o) /\ Alone(r) /\ q \in RequestState
    BY Zenon DEF EnterAs, TypeInv, VisitorsOK, Alone
  <1>2. /\ n.pc = "handle" /\ n.owner = o /\ n.cookie = None
        /\ n.by = q.by /\ n.group = q.group /\ n.awaited = q.awaited
        /\ n.newCookie = q.newCookie
    BY <1>1, EnteredRequest
  <1>3. Awaits(b, r)' => Awaits(b, r)
    BY <1>2 DEF Awaits, Anonymous
  <1>4. ASSUME n.by = b, n.awaited, q.group = "owner"
        PROVE  WillReach(b, req[r], req[r].owner)'
    <2>1. CASE o \in User /\ account[o] = q.by
      BY <1>2, <1>4, <2>1 DEF WillReach, Reaches
    <2>2. CASE o = q.cookie /\ o # None
      <3>1. o = browser[b].cookie
        BY <1>2, <1>4, <2>2 DEF InOrder, KeepsReach
      <3>2. q.newCookie = None
        BY <1>2, <1>4, <2>2, <3>1 DEF InOrder, Awaits, Anonymous
      <3> QED BY <1>2, <3>1, <3>2 DEF WillReach, Reaches, Settled
    <2> QED BY <1>4, <2>1, <2>2
  <1>5. KeepsReach(b, req[r])'
    BY <1>2, <1>4 DEF KeepsReach
  <1> QED BY <1>1, <1>3, <1>5, OneRequest

LEMMA OrderlyMiddleware ==
  ASSUME TypeInv, Personal, AllProper, [VNext]_vars, NEW b \in Browser, InOrder(b), Settled(b),
         browser'[b].orderly, NEW r \in Request,
         RequireOwner(r) \/ RequireAuth(r) \/ OptionalAuth(r)
  PROVE  InOrder(b)'
  <1> DEFINE q == req[r]
  <1>1. /\ q \in RequestState /\ q.pc = "sent" /\ account' = account /\ q.by \in Browser
        /\ q.token # None => issued[q.token] \in User /\ account[issued[q.token]] = q.by
    <2>1. q \in RequestState /\ q.pc = "sent" /\ account' = account
      BY DEF TypeInv, VisitorsOK, RequireOwner, RequireAuth, OptionalAuth
    <2> QED BY <2>1 DEF TypeInv, VisitorsOK, RequestState, Personal, HoldsAll, HoldsToken, Staged
  <1>2. q.token # None => issued[q.token] \in Owner
    BY <1>1 DEF Owner
  <1>3. q.cookie # None => q.cookie \in Owner
    BY <1>1 DEF Owner, RequestState
  <1>4. CASE q.token # None /\ EnterAs(r, issued[q.token])
    BY <1>1, <1>2, <1>4, OrderlyEnter
  <1>5. CASE q.cookie # None /\ EnterAs(r, q.cookie)
    BY <1>1, <1>3, <1>5, OrderlyEnter
  <1>6. CASE q.group # "owner" /\ EnterAs(r, None)
    BY <1>1, <1>6, OrderlyEnter
  <1>7. CASE \E reply \in Reply \ {"created"} : Respond(r, reply, {})
    BY <1>7, OrderlyReply
  <1>8. CASE /\ q.token = None /\ q.group = "owner"
             /\ \E g \in Guest :
                  req' = [req EXCEPT ![r] = [Entered(@, g) EXCEPT !.newCookie = g]]
             /\ browser' = [browser EXCEPT ![q.by].orderly = @ /\ q.cookie = None]
    <2>1. PICK g \in Guest : req' = [req EXCEPT ![r] = [Entered(@, g) EXCEPT !.newCookie = g]]
      BY <1>8
    <2> DEFINE e == Entered(q, g)
               n == [e EXCEPT !.newCookie = g]
    <2>2. /\ e \in RequestState
          /\ e.pc = "handle" /\ e.owner = g /\ e.cookie = None
          /\ e.by = q.by /\ e.awaited = q.awaited
      BY <1>1, EnteredRequest DEF Owner
    <2>3. /\ n.pc = "handle" /\ n.owner = g /\ n.cookie = None /\ n.newCookie = g
          /\ n.by = q.by /\ n.awaited = q.awaited
      <3> HIDE DEF e
      <3> QED BY <2>2 DEF RequestState
    <2>4. req'[r] = n /\ Alone(r)
      BY <2>1, Zenon DEF TypeInv, VisitorsOK, Alone
    <2> HIDE DEF n
    <2>5. KeepsReach(b, req[r])'
      BY <2>3, <2>4, OwnerKinds DEF KeepsReach, WillReach, Reaches
    <2>6. ASSUME Awaits(b, r)'
          PROVE  Awaits(b, r)
      <3>1. q.by = b /\ q.awaited
        BY <2>3, <2>4, <2>6 DEF Awaits
      <3>2. q.cookie = None
        <4> DEFINE orderly == browser[b].orderly /\ q.cookie = None
                   m == [browser[b] EXCEPT !.orderly = orderly]
        <4>1. browser[b] \in BrowserState
          BY DEF TypeInv, VisitorsOK
        <4>2. m.orderly = orderly
          <5> HIDE DEF orderly
          <5> QED BY <4>1 DEF BrowserState
        <4>3. browser'[b] = m
          BY <1>8, <3>1, Zenon DEF TypeInv, VisitorsOK
        <4> HIDE DEF m
        <4>4. orderly
          BY <4>2, <4>3
        <4> QED BY <4>4
      <3> QED BY <1>1, <1>8, <3>1, <3>2 DEF Awaits, Anonymous
    <2> QED BY <2>4, <2>5, <2>6, OneRequest
  <1>9. CASE RequireOwner(r)
    BY <1>9, <1>4, <1>5, <1>7, <1>8 DEF RequireOwner, Reply
  <1>10. CASE RequireAuth(r)
    BY <1>10, <1>4, <1>7 DEF RequireAuth, Reply
  <1>11. CASE OptionalAuth(r)
    BY <1>11, <1>4, <1>6 DEF OptionalAuth
  <1> QED BY <1>9, <1>10, <1>11

LEMMA OrderlyHandlers ==
  ASSUME TypeInv, Personal, AllProper, [VNext]_vars, NEW b \in Browser, InOrder(b), Settled(b),
         NEW r \in Request,
         \/ Continues(r)
         \/ \E c \in Code : HandleStart(r, c)
         \/ HandleGet(r) \/ WriteAnswer(r) \/ WriteAbandon(r) \/ HandleProgress(r)
         \/ HandleCatalog(r) \/ HandleLogout(r) \/ Refuse(r)
  PROVE  InOrder(b)'
  <1> DEFINE o == req[r].owner
  <1>1. /\ req[r] \in RequestState
        /\ \A x : SessionsOf(x) \subseteq SessionId
        /\ \A x, c : ActiveSessions(x, c) \subseteq SessionId
    BY DEF TypeInv, VisitorsOK, TypeOK, SessionsOf, ActiveSessions
  <1>2. CASE \E reply \in Reply \ {"created"}, shown \in SUBSET SessionId : Respond(r, reply, shown)
    BY <1>2, OrderlyReply
  <1>3. ASSUME NEW c \in Code, HandleStart(r, c)
        PROVE  InOrder(b)'
    <2>1. CASE Respond(r, "shown", ActiveSessions(o, c))
      BY <2>1, <1>1, <1>2 DEF Reply
    <2>2. CASE \E s \in SessionId : Start(s, o, c, active[c]) /\ Respond(r, "created", {s})
      <3>1. PICK s \in SessionId : Start(s, o, c, active[c]) /\ Respond(r, "created", {s})
        BY <2>2
      <3>2. sessions'[s].owner = o
        BY <3>1 DEF Start, InsertSession
      <3>3. /\ req[r].pc = "create" \/ (req[r].pc = "handle" /\ req[r].group = "owner")
            /\ account' = account
        BY <1>3 DEF HandleStart, Handles
      <3> QED BY <3>1, <3>2, <3>3, OrderlyReply DEF Reply
    <2> QED BY <2>1, <2>2, <1>3 DEF HandleStart
  <1>4. CASE Continues(r)
    <2>1. /\ GoesOn(r) /\ account' = account
          /\ req'[r].pc \in {"answer", "abandon", "restart", "create", "move"}
          /\ req'[r].pc \in {"restart", "create"} =>
               \/ req[r].pc = "handle" /\ req[r].group = "owner"
               \/ req[r].pc = "restart"
      BY <1>4, ContinuesRequest
    <2>2. Alone(r) /\ (Awaits(b, r)' => Awaits(b, r))
      BY <2>1 DEF GoesOn, Awaits, Anonymous
    <2>3. KeepsReach(b, req[r])'
      BY <2>1 DEF GoesOn, InOrder, KeepsReach, WillReach, Reaches, Settled
    <2> QED BY <2>2, <2>3, OneRequest
  <1>5. CASE HandleGet(r) \/ WriteAnswer(r) \/ WriteAbandon(r)
    <2>1. PICK s \in SessionId : Respond(r, "shown", {s})
      BY <1>1, <1>5 DEF HandleGet, WriteAnswer, WriteAbandon, RequestState
    <2> QED BY <2>1, <1>1, <1>2 DEF Reply
  <1>6. CASE HandleProgress(r)
    BY <1>6, <1>1, <1>2 DEF HandleProgress, Reply
  <1>7. CASE HandleCatalog(r)
    BY <1>7, <1>1, <1>2 DEF HandleCatalog, Reply
  <1>8. CASE HandleLogout(r) \/ Refuse(r)
    BY <1>8, <1>2 DEF HandleLogout, Refuse, Reply
  <1> QED BY <1>3, <1>4, <1>5, <1>6, <1>7, <1>8

LEMMA OrderlyAccounts ==
  ASSUME TypeInv, Personal, AllProper, [VNext]_vars, NEW b \in Browser, InOrder(b), Settled(b),
         NEW r \in Request,
         \/ \E u \in User : Register(r, u) \/ Login(r, u)
         \/ \E t \in Token : ClaimGuest(r, t)
         \/ Receive(r) \/ GiveUp(r) \/ Drop(r)
  PROVE  InOrder(b)'
  <1>1. ASSUME NEW u \in User, Register(r, u) \/ Login(r, u)
        PROVE  InOrder(b)'
    <2>1. /\ Alone(r)
          /\ req'[r].pc = "claim"
          /\ req'[r].by = req[r].by /\ req'[r].awaited = req[r].awaited
          /\ req'[r].cookie = req[r].cookie /\ req'[r].newCookie = req[r].newCookie
      BY <1>1, ToClaimRequest DEF Register, Login, TypeInv, Alone
    <2>2. Awaits(b, r)' => Awaits(b, r)
      BY <2>1 DEF Awaits, Anonymous
    <2>3. KeepsReach(b, req[r])'
      BY <2>1 DEF InOrder, KeepsReach, Settled
    <2> QED BY <2>1, <2>2, <2>3, OneRequest
  <1>2. ASSUME NEW t \in Token, ClaimGuest(r, t)
        PROVE  InOrder(b)'
    <2>1. req[r].owner \in User
      BY <1>2 DEF ClaimGuest, Personal, Staged
    <2>2. /\ Alone(r)
          /\ ~req[r].awaited => req'[r] = NoRequest
          /\ req[r].awaited =>
               /\ req'[r].pc = "done" /\ req'[r].cookie = None
               /\ req'[r].by = req[r].by /\ req'[r].newCookie = req[r].newCookie
               /\ req'[r].reply = "signedIn"
      BY <1>2, <2>1, SignInRequest DEF ClaimGuest, Alone
    <2>3. CASE ~req[r].awaited
      BY <2>2, <2>3, OrderlyGone, OneRequest
    <2>4. CASE req[r].awaited
      <3>1. Awaits(b, r)' => Awaits(b, r)
        BY <2>2, <2>4 DEF Awaits, Anonymous
      <3>2. KeepsReach(b, req[r])'
        BY <2>2, <2>4 DEF KeepsReach
      <3> QED BY <2>2, <3>1, <3>2, OneRequest
    <2> QED BY <2>3, <2>4
  <1>3. CASE Receive(r) \/ Drop(r)
    <2>1. req'[r] = NoRequest /\ Alone(r)
      BY <1>3 DEF Receive, Drop, TypeInv, VisitorsOK, Alone
    <2> QED BY <2>1, OrderlyGone, OneRequest
  <1>4. CASE GiveUp(r)
    <2> DEFINE n == [req[r] EXCEPT !.awaited = FALSE]
    <2>1. req' = [req EXCEPT ![r] = n]
      BY <1>4, Zenon DEF GiveUp
    <2>2. ~n.awaited
      BY DEF TypeInv, VisitorsOK, RequestState
    <2> HIDE DEF n
    <2>3. req'[r] = n /\ Alone(r)
      BY <2>1 DEF TypeInv, VisitorsOK, Alone
    <2>4. ~Awaits(b, r)' /\ KeepsReach(b, req[r])'
      BY <2>2, <2>3 DEF Awaits, KeepsReach
    <2> QED BY <2>3, <2>4, OneRequest
  <1> QED BY <1>1, <1>2, <1>3, <1>4

(* The reply that brings the awaited cookie is the only one awaited.       *)
LEMMA OrderlyReceive ==
  ASSUME TypeInv, Personal, AllProper, [VNext]_vars, NEW b \in Browser, InOrder(b),
         NEW r \in Request, Receive(r), req[r].by = b
  PROVE  InOrder(b)'
  <1> DEFINE q == req[r]
  <1>1. /\ req'[r] = NoRequest /\ Alone(r)
        /\ browser'[b].cookie = IF q.newCookie # None THEN q.newCookie ELSE browser[b].cookie
    BY ReceiveReply DEF Alone
  <1>2. ASSUME NEW x \in Request, Awaits(b, x)'
        PROVE  x # r /\ Awaits(b, x)
    BY <1>1, <1>2, OrderlyGone DEF Alone, Awaits, Anonymous
  <1>3. CASE q.newCookie = None
    <2>1. browser'[b].cookie = browser[b].cookie
      BY <1>1, <1>3
    <2>2. ASSUME NEW x \in Request
          PROVE  KeepsReach(b, req[x])'
      BY <1>1, <2>1, OrderlyGone, KeepsReachKept DEF Alone, InOrder
    <2> QED BY <1>2, <2>1, <2>2 DEF InOrder
  <1>4. CASE q.newCookie # None
    <2>1. Awaits(b, r) /\ browser[b].cookie = None
      BY <1>4 DEF Receive, Personal, Staged, Awaits, Anonymous, InOrder
    <2>2. ASSUME NEW x \in Request
          PROVE  ~Awaits(b, x)'
      BY <1>2, <2>1 DEF InOrder
    <2>3. ASSUME NEW x \in Request, x # r, req[x].by = b, req[x].awaited
          PROVE  KeepsReach(b, req[x])'
      <3>1. req'[x] = req[x] /\ req[x].newCookie = None /\ req[x].cookie = None
        BY <1>1, <2>1, <2>3 DEF Alone, InOrder, KeepsReach, Awaits, Anonymous
      <3>2. \A o \in Owner : WillReach(b, req[x], o) => o \in User /\ account[o] = b
        BY <2>1, <3>1, OwnerKinds DEF WillReach, Reaches, Owner
      <3>3. account' = account /\ sessions' = sessions
        BY DEF Receive, tables
      <3>4. /\ req[x].pc \in {"restart", "create"} \/ (req[x].pc = "handle" /\ req[x].group = "owner")
                 => req[x].owner \in Owner
            /\ \A s \in req[x].shown : sessions[s].owner \in Owner
        BY DEF AllProper, Proper, Staged, TypeInv, TypeOK, SessionRow, VisitorsOK, RequestState
      <3> QED BY <2>3, <3>1, <3>2, <3>3, <3>4 DEF InOrder, KeepsReach, WillReach, Reaches
    <2>4. ASSUME NEW x \in Request
          PROVE  KeepsReach(b, req[x])'
      <3>1. CASE x = r
        BY <1>1, <3>1, OrderlyGone
      <3>2. CASE x # r /\ req[x].by = b /\ req[x].awaited
        BY <2>3, <3>2
      <3>3. CASE x # r /\ ~(req[x].by = b /\ req[x].awaited)
        BY <1>1, <3>3 DEF KeepsReach, Alone
      <3> QED BY <3>1, <3>2, <3>3
    <2> QED BY <2>2, <2>4 DEF InOrder
  <1> QED BY <1>3, <1>4

LEMMA OrderlyStep ==
  ASSUME TypeInv, Personal, AllProper, Orderly, [VNext]_vars
  PROVE  Orderly'
  <1> SUFFICES ASSUME NEW b \in Browser, browser'[b].orderly
               PROVE  InOrder(b)'
    BY DEF Orderly
  <1>1. CASE Settled(b)
    <2>1. InOrder(b)
      BY <1>1 DEF Orderly, Settled
    <2>2. CASE UNCHANGED req
      BY <1>1, <2>1, <2>2, KeepsReachKept DEF InOrder, Settled, Awaits, Anonymous
    <2>3. ASSUME (\E t \in Token : Expire(t)) \/ \E x \in Browser : CookieExpires(x)
          PROVE  UNCHANGED req
      BY <2>3 DEF Expire, CookieExpires
    <2>4. UNCHANGED vars => UNCHANGED req
      BY DEF vars
    <2> QED BY <1>1, <2>1, <2>2, <2>3, <2>4, OrderlySend, OrderlyMiddleware, OrderlyHandlers,
               OrderlyAccounts DEF VNext, Serve, Continues
  <1>2. CASE \E r \in Request : Receive(r) /\ req[r].by = b
    <2>1. InOrder(b)
      BY <1>2, ReceiveReply DEF Orderly
    <2> QED BY <1>2, <2>1, OrderlyReceive
  <1> QED BY <1>1, <1>2, BrowserStep DEF CookieGone

LEMMA KeepsStep ==
  ASSUME TypeInv, Personal, AllProper, Orderly, KeepsSessions, [VNext]_vars
  PROVE  KeepsSessions'
  <1> SUFFICES ASSUME NEW b \in Browser, browser'[b].orderly, NEW s \in browser'[b].known
               PROVE  s \in DOMAIN sessions' /\ Reaches(b, browser[b].cookie, sessions[s].owner)'
    BY DEF KeepsSessions
  <1> DEFINE cookie == browser[b].cookie
  <1>1. cookie \in Guest \cup {None} /\ HoldsGuest(b, cookie)
    BY DEF Personal, TypeInv, VisitorsOK, BrowserState
  <1>2. CASE Settled(b)
    <2>1. s \in DOMAIN sessions /\ Reaches(b, cookie, sessions[s].owner)
      BY <1>2 DEF Settled, KeepsSessions
    <2>2. s \in DOMAIN sessions' /\ browser'[b].cookie = cookie
      BY <1>2, <2>1, SessionsStep DEF Settled
    <2> QED BY <1>1, <2>1, <2>2, ReachKept DEF Reaches
  <1>3. CASE \E r \in Request : Receive(r) /\ req[r].by = b
    <2>1. PICK r \in Request : Receive(r) /\ req[r].by = b
      BY <1>3
    <2> DEFINE q == req[r]
    <2>2. /\ browser'[b].cookie = IF q.newCookie # None THEN q.newCookie ELSE cookie
          /\ browser[b].orderly
          /\ s \in browser[b].known \/ (q.reply = "created" /\ s \in q.shown)
      BY <2>1, ReceiveReply
    <2>3. InOrder(b) /\ account' = account /\ sessions' = sessions
      BY <2>1, <2>2 DEF Orderly, Receive, tables
    <2>4. q.pc = "done" /\ q.awaited
      BY <2>1 DEF Receive, Personal, Staged
    <2>5. CASE q.reply = "created" /\ s \in q.shown
      <3>1. s \in DOMAIN sessions /\ WillReach(b, q, sessions[s].owner)
        BY <2>1, <2>3, <2>4, <2>5 DEF AllProper, Proper, InOrder, KeepsReach
      <3> QED BY <2>2, <2>3, <3>1 DEF WillReach, Reaches
    <2>6. CASE s \in browser[b].known
      <3>1. s \in DOMAIN sessions /\ Reaches(b, cookie, sessions[s].owner)
        BY <2>2, <2>6 DEF KeepsSessions
      <3>2. sessions[s].owner # None
        BY <3>1, OwnerKinds DEF TypeInv, TypeOK, SessionRow, Owner
      <3>3. q.newCookie # None => cookie = None
        BY <2>1, <2>3, <2>4 DEF InOrder, Awaits, Anonymous
      <3> QED BY <2>2, <2>3, <3>1, <3>2, <3>3 DEF Reaches
    <2> QED BY <2>2, <2>5, <2>6
  <1> QED BY <1>2, <1>3, BrowserStep DEF CookieGone

(* A session a browser was told of stays within its reach, for any number  *)
(* of browsers and requests under way, as long as the browser is orderly.  *)
THEOREM KeepsSessionsHolds == VSpec => []KeepsSessions
  <1>1. VInit => Orderly /\ KeepsSessions
    BY VisitorsAssumption DEF VInit, Orderly, InOrder, Awaits, Anonymous, KeepsReach,
       KeepsSessions, NoRequest
  <1>2. Safe /\ Orderly /\ KeepsSessions /\ [VNext]_vars => Orderly' /\ KeepsSessions'
    BY OrderlyStep, KeepsStep DEF Safe, Base, TypeInv
  <1> QED BY <1>1, <1>2, AlwaysSafe, PTL DEF VSpec

-----------------------------------------------------------------------------
(* Tokens stay revoked, and run out for good.                              *)
LEMMA RefusalsKept ==
  ASSUME [VNext]_vars
  PROVE  revoked \subseteq revoked' /\ expired \subseteq expired'
  <1>1. ASSUME NEW r \in Request, HandleLogout(r)
        PROVE  /\ revoked \subseteq revoked' /\ expired \subseteq expired'
    BY <1>1 DEF HandleLogout
  <1>2. ASSUME NEW x \in Token, Expire(x)
        PROVE  /\ revoked \subseteq revoked' /\ expired \subseteq expired'
    BY <1>2 DEF Expire
  <1>3. ASSUME NEW r \in Request,
               \/ RequireOwner(r) \/ RequireAuth(r) \/ OptionalAuth(r)
               \/ \E c \in Code : HandleStart(r, c) \/ HandleRestart(r, c)
               \/ HandleGet(r) \/ HandleAnswer(r) \/ HandleAbandon(r) \/ HandleProgress(r)
               \/ HandleCatalog(r) \/ Refuse(r)
               \/ \E x \in User : Register(r, x) \/ Login(r, x)
               \/ \E x \in Token : ClaimGuest(r, x)
               \/ Receive(r) \/ GiveUp(r) \/ Drop(r)
               \/ WriteRestart(r) \/ WriteAnswer(r) \/ WriteAbandon(r) \/ ClaimBegin(r)
        PROVE  UNCHANGED <<revoked, expired>>
    BY <1>3 DEF RequireOwner, RequireAuth, OptionalAuth, HandleStart, HandleRestart, HandleGet,
       HandleAnswer, HandleAbandon, HandleProgress, HandleCatalog, Refuse, Register, Login,
       ClaimGuest, Receive, GiveUp, Drop, WriteRestart, WriteAnswer, WriteAbandon, ClaimBegin,
       tokens
  <1>4. ASSUME NEW b \in Browser, NEW r \in Request, Send(b, r)
        PROVE  UNCHANGED <<revoked, expired>>
    BY <1>4 DEF Send, tokens
  <1>5. ASSUME NEW b \in Browser, CookieExpires(b)
        PROVE  UNCHANGED <<revoked, expired>>
    BY <1>5 DEF CookieExpires, tokens
  <1>6. UNCHANGED vars => UNCHANGED <<revoked, expired>>
    BY DEF vars, tokens
  <1> QED BY <1>1, <1>2, <1>3, <1>4, <1>5, <1>6 DEF VNext, Serve

(* Owners change by claims only, and only within a person, for any number  *)
(* of requests under way; refused tokens stay refused.                     *)
THEOREM HandedOnHolds == VSpec => HandedOn
  <1> DEFINE Kept ==
        /\ \A s \in DOMAIN sessions :
             /\ s \in DOMAIN sessions' /\ starter'[s] = starter[s]
             /\ \/ sessions'[s].owner = sessions[s].owner
                \/ /\ sessions[s].owner \in Guest /\ sessions'[s].owner \in User
                   /\ account[sessions'[s].owner] = guestOf[sessions[s].owner]
        /\ \A g \in Guest : guestOf[g] # None => guestOf'[g] = guestOf[g]
        /\ \A u \in User : account[u] # None => account'[u] = account[u]
        /\ \A t \in Token : issued[t] # None => issued'[t] = issued[t]
        /\ \A t \in Token : ~Authenticates(t) => ~Authenticates(t)'
  <1>1. ASSUME Safe, [VNext]_vars
        PROVE  Kept
    <2>1. TypeInv /\ Personal
      BY <1>1 DEF Safe, Base, TypeInv
    <2>2. revoked \subseteq revoked' /\ expired \subseteq expired'
      BY <1>1, RefusalsKept
    <2>3. ASSUME NEW t \in Token, ~Authenticates(t)
          PROVE  ~Authenticates(t)'
      BY <2>2, <2>3 DEF Authenticates, IsTokenRevoked
    <2> QED BY <1>1, <2>1, <2>3, PeopleKept, SessionsStep DEF Handed
  <1>2. Safe /\ [VNext]_vars => [Kept]_vars
    BY <1>1
  <1> HIDE DEF Kept
  <1>3. VSpec => [][Kept]_vars
    BY <1>2, AlwaysSafe, PTL DEF VSpec
  <1> QED BY <1>3 DEF HandedOn, Kept

(* Cookies, tokens and owners always belong to the person whose browser    *)
(* sends the request, also while other requests sign in and out.           *)
THEOREM PersonalHolds == VSpec => []Personal
  <1>1. Safe => Personal
    BY DEF Safe, Base
  <1> QED BY <1>1, AlwaysSafe, PTL

(* What Attempt promises of the tables it promises behind the access       *)
(* control: records are kept whoever signs in, claims or loses replies.    *)
THEOREM VisitorsKeepRecords ==
  VSpec => [](OneActive /\ ScoreIsSum /\ AnswersFormPath) /\ CompletedFrozen /\ RecordKept
  BY VisitorsImplementAttempt, OneActiveHolds, ScoreIsSumHolds, AnswersFormPathHolds,
     CompletedFrozenHolds, RecordKeptHolds, PTL

-----------------------------------------------------------------------------
(* A closed account stays closed until somebody signs in.                  *)
LEMMA TokensClosed ==
  ASSUME TypeInv, Personal, [VNext]_vars, NEW u \in User, Closed(u), ~SigningIn(u),
         NEW t \in Token, issued'[t] = u
  PROVE  t \in revoked' \cup expired'
  <1>1. /\ revoked \subseteq revoked' /\ expired \subseteq expired'
    BY RefusalsKept
  <1>2. CASE issued[t] = u
    BY <1>1, <1>2 DEF Closed
  <1>3. CASE issued[t] # u
    <2>1. ASSUME NEW r \in Request, NEW x \in Token, ClaimGuest(r, x)
          PROVE  FALSE
      <3>1. req[r].owner = u
        BY <2>1, <1>3 DEF ClaimGuest, SignIn, TypeInv, VisitorsOK
      <3>2. req[r].pc \in {"claim", "move"} /\ req'[r].pc \in {"free", "done"}
        BY <2>1, <3>1, SignInRequest DEF ClaimGuest
      <3> QED BY <3>1, <3>2 DEF SigningIn
    <2>2. ASSUME NEW r \in Request,
                 \/ RequireOwner(r) \/ RequireAuth(r) \/ OptionalAuth(r)
                 \/ \E c \in Code : HandleStart(r, c) \/ HandleRestart(r, c)
                 \/ HandleGet(r) \/ HandleAnswer(r) \/ HandleAbandon(r) \/ HandleProgress(r)
                 \/ HandleCatalog(r) \/ HandleLogout(r) \/ Refuse(r)
                 \/ WriteRestart(r) \/ WriteAnswer(r) \/ WriteAbandon(r) \/ ClaimBegin(r)
                 \/ \E x \in User : Register(r, x) \/ Login(r, x)
                 \/ Receive(r) \/ GiveUp(r) \/ Drop(r)
          PROVE  UNCHANGED issued
      BY <2>2 DEF RequireOwner, RequireAuth, OptionalAuth, HandleStart, HandleRestart, HandleGet,
         HandleAnswer, HandleAbandon, HandleProgress, HandleCatalog, HandleLogout, Refuse,
         Register, Login, Receive, GiveUp, Drop, WriteRestart, WriteAnswer, WriteAbandon,
         ClaimBegin, tokens
    <2>3. ASSUME NEW b \in Browser, NEW r \in Request, Send(b, r)
          PROVE  UNCHANGED issued
      BY <2>3 DEF Send, tokens
    <2>4. ASSUME NEW x \in Token, Expire(x)
          PROVE  UNCHANGED issued
      BY <2>4 DEF Expire
    <2>5. ASSUME NEW b \in Browser, CookieExpires(b)
          PROVE  UNCHANGED issued
      BY <2>5 DEF CookieExpires, tokens
    <2>6. UNCHANGED vars => UNCHANGED issued
      BY DEF vars, tokens
    <2> QED BY <1>3, <2>1, <2>2, <2>3, <2>4, <2>5, <2>6 DEF VNext, Serve
  <1> QED BY <1>2, <1>3

(* Whose sessions a handler has read is decided when it reads them: until  *)
(* somebody signs in to the account it gets none of them from a guest.     *)
LEMMA OldSessions ==
  ASSUME TypeInv, Personal, [VNext]_vars, NEW u \in User, ~SigningIn(u),
         NEW s \in DOMAIN sessions, s \in SessionsOf(u)'
  PROVE  s \in SessionsOf(u)
  BY SessionsStep DEF Handed, SessionsOf

(* Nobody gets in for a closed account with one of its tokens, and only a  *)
(* log in or the registration makes it the owner of a request.             *)
LEMMA ActingKept ==
  ASSUME TypeInv, Personal, AllProper, [VNext]_vars, NEW u \in User, Closed(u), ~SigningIn(u)
  PROVE  Acting(u)' \subseteq Acting(u)
  <1> DEFINE Kept == \A x \in Request : x \in Acting(u)' => x \in Acting(u)
  <1>0. ASSUME NEW x \in Request, req'[x].owner = req[x].owner,
               req'[x].rows \subseteq req[x].rows, x \in Acting(u)'
        PROVE  x \in Acting(u)
    BY <1>0, OldSessions DEF Acting, AllProper, Proper
  <1>1. ASSUME NEW r \in Request, Alone(r), r \in Acting(u)' => r \in Acting(u)
        PROVE  Kept
    BY <1>0, <1>1 DEF Alone
  <1>2. ASSUME NEW r \in Request, Alone(r), req'[r].owner # u, req'[r].rows = {}
        PROVE  Kept
    BY <1>1, <1>2 DEF Acting
  <1>3. NoRequest.owner # u /\ NoRequest.rows = {}
    BY OwnerKinds DEF NoRequest
  <1>4. ASSUME NEW r \in Request, NEW reply \in Reply, NEW shown \in SUBSET SessionId,
               Respond(r, reply, shown)
        PROVE  Kept
    <2>1. Alone(r) /\ req'[r].owner = None /\ req'[r].rows = {}
      BY <1>4, RespondRequest DEF TypeInv, Alone
    <2> QED BY <1>2, <2>1, OwnerKinds
  <1>5. ASSUME NEW r \in Request, NEW o \in Owner \cup {None}, o # u, EnterAs(r, o),
               req[r].rows = {}
        PROVE  Kept
    <2>1. req'[r] = Entered(req[r], o) /\ Alone(r) /\ req[r] \in RequestState
      BY <1>5, Zenon DEF EnterAs, TypeInv, VisitorsOK, Alone
    <2>2. req'[r].owner = o /\ req'[r].rows = {}
      BY <1>5, <2>1, EnteredRequest
    <2> QED BY <1>2, <1>5, <2>1, <2>2
  <1>6. ASSUME NEW r \in Request,
               RequireOwner(r) \/ RequireAuth(r) \/ OptionalAuth(r)
        PROVE  Kept
    <2> DEFINE q == req[r]
    <2>1. /\ q \in RequestState /\ q.rows = {}
          /\ q.cookie # None => q.cookie \in Owner /\ q.cookie # u
          /\ q.token # None /\ Authenticates(q.token) =>
               issued[q.token] \in Owner \cup {None} /\ issued[q.token] # u
      <3>1. q \in RequestState
        BY DEF TypeInv, VisitorsOK
      <3>2. q.cookie # None => q.cookie \in Guest
        BY <3>1 DEF RequestState
      <3>3. q.token # None => q.token \in Token /\ issued[q.token] \in Owner \cup {None}
        BY <3>1, TokenOwner DEF RequestState
      <3>4. q.token # None /\ Authenticates(q.token) => issued[q.token] # u
        BY <3>3 DEF Closed, Authenticates, IsTokenRevoked
      <3>5. q.rows = {}
        BY <1>6 DEF RequireOwner, RequireAuth, OptionalAuth, Personal, Staged
      <3> QED BY <3>1, <3>2, <3>3, <3>4, <3>5, OwnerKinds DEF Owner
    <2>2. CASE q.token # None /\ Authenticates(q.token) /\ EnterAs(r, issued[q.token])
      BY <1>5, <2>1, <2>2
    <2>3. CASE q.cookie # None /\ EnterAs(r, q.cookie)
      BY <1>5, <2>1, <2>3
    <2>4. CASE EnterAs(r, None)
      BY <1>5, <2>1, <2>4, OwnerKinds
    <2>5. CASE \E reply \in Reply : Respond(r, reply, {})
      BY <1>4, <2>5
    <2>6. CASE \E g \in Guest :
                 req' = [req EXCEPT ![r] = [Entered(@, g) EXCEPT !.newCookie = g]]
      <3>1. PICK g \in Guest : req' = [req EXCEPT ![r] = [Entered(@, g) EXCEPT !.newCookie = g]]
        BY <2>6
      <3> DEFINE e == Entered(q, g)
                 n == [e EXCEPT !.newCookie = g]
      <3>2. e \in RequestState /\ e.owner = g /\ e.rows = {}
        BY <2>1, EnteredRequest DEF Owner
      <3>3. n.owner = g /\ n.rows = {}
        <4> HIDE DEF e
        <4> QED BY <3>2 DEF RequestState
      <3>4. req'[r] = n /\ Alone(r)
        BY <3>1, Zenon DEF TypeInv, VisitorsOK, Alone
      <3> HIDE DEF n
      <3> QED BY <1>2, <3>3, <3>4, OwnerKinds
    <2> QED BY <1>6, <2>2, <2>3, <2>4, <2>5, <2>6 DEF RequireOwner, RequireAuth, OptionalAuth, Reply
  <1>7. ASSUME NEW r \in Request,
               \/ \E c \in Code : HandleStart(r, c)
               \/ HandleGet(r) \/ WriteAnswer(r) \/ WriteAbandon(r) \/ HandleProgress(r)
               \/ HandleCatalog(r) \/ HandleLogout(r) \/ Refuse(r)
        PROVE  Kept
    <2>1. /\ \A x : SessionsOf(x) \subseteq SessionId
          /\ \A x, c : ActiveSessions(x, c) \subseteq SessionId
          /\ req[r].rows \subseteq SessionId
      BY DEF TypeInv, TypeOK, VisitorsOK, RequestState, SessionsOf, ActiveSessions
    <2>2. \E reply \in Reply, shown \in SUBSET SessionId : Respond(r, reply, shown)
      <3>1. CASE \E c \in Code : HandleStart(r, c)
        BY <2>1, <3>1 DEF HandleStart, Reply
      <3>2. CASE \/ HandleGet(r) \/ WriteAnswer(r) \/ WriteAbandon(r)
        <4>1. PICK s \in SessionId : Respond(r, "shown", {s})
          BY <2>1, <3>2 DEF HandleGet, WriteAnswer, WriteAbandon
        <4> QED BY <2>1, <4>1 DEF Reply
      <3>3. CASE HandleProgress(r)
        BY <2>1, <3>3 DEF HandleProgress, Reply
      <3>4. CASE HandleCatalog(r)
        BY <2>1, <3>4 DEF HandleCatalog, Reply
      <3>5. CASE HandleLogout(r) \/ Refuse(r)
        BY <3>5 DEF HandleLogout, Refuse, Reply
      <3> QED BY <1>7, <3>1, <3>2, <3>3, <3>4, <3>5
    <2> QED BY <1>4, <2>2
  <1>8. ASSUME NEW r \in Request, Continues(r)
        PROVE  Kept
    <2>1. GoesOn(r) /\ Alone(r) /\ req'[r].owner = req[r].owner
      BY <1>8, ContinuesRequest DEF GoesOn
    <2>2. CASE req'[r].rows = {}
      BY <1>0, <1>1, <2>1, <2>2
    <2>3. CASE req'[r].rows \subseteq SessionsOf(req[r].owner) /\ UNCHANGED tables
      BY <1>1, <2>1, <2>3 DEF Acting, SessionsOf, tables
    <2>4. CASE /\ req'[r].rows = SessionsOf(req[r].cookie) /\ req[r].cookie # None
               /\ UNCHANGED tables
      <3>1. req[r].cookie # u
        BY <2>4, OwnerKinds DEF TypeInv, VisitorsOK, RequestState
      <3>2. req'[r].rows \cap SessionsOf(u)' = {}
        BY <2>4, <3>1 DEF SessionsOf, tables
      <3> QED BY <1>1, <2>1, <3>2 DEF Acting
    <2> QED BY <1>8, <2>2, <2>3, <2>4, ContinuesRequest
  <1>9. ASSUME NEW r \in Request, NEW x \in User, Register(r, x) \/ Login(r, x)
        PROVE  Kept
    <2>1. /\ Alone(r) /\ req'[r].pc = "claim" /\ req'[r].owner = x
          /\ req'[r].rows = req[r].rows /\ req[r].pc = "sent"
      BY <1>9, ToClaimRequest DEF Register, Login, TypeInv, Alone
    <2>2. x # u
      BY <2>1 DEF SigningIn
    <2>3. req[r].rows = {}
      BY <2>1 DEF Personal, Staged
    <2> QED BY <1>2, <2>1, <2>2, <2>3
  <1>10. ASSUME NEW r \in Request, NEW t \in Token, ClaimGuest(r, t)
         PROVE  Kept
    <2>1. req[r].owner \in User
      BY <1>10 DEF ClaimGuest, Personal, Staged
    <2>2. Alone(r) /\ req'[r].owner = None /\ req'[r].rows = {}
      BY <1>10, <2>1, SignInRequest DEF ClaimGuest, Alone
    <2> QED BY <1>2, <2>2, OwnerKinds
  <1>11. ASSUME NEW r \in Request, Receive(r) \/ Drop(r)
         PROVE  Kept
    <2>1. req'[r] = NoRequest /\ Alone(r)
      BY <1>11 DEF Receive, Drop, TypeInv, VisitorsOK, Alone
    <2> QED BY <1>2, <1>3, <2>1
  <1>12. ASSUME NEW r \in Request, GiveUp(r)
         PROVE  Kept
    <2> DEFINE n == [req[r] EXCEPT !.awaited = FALSE]
    <2>1. req' = [req EXCEPT ![r] = n]
      BY <1>12, Zenon DEF GiveUp
    <2>2. n.owner = req[r].owner /\ n.rows = req[r].rows
      BY DEF TypeInv, VisitorsOK, RequestState
    <2> HIDE DEF n
    <2>3. req'[r] = n /\ Alone(r)
      BY <2>1 DEF TypeInv, VisitorsOK, Alone
    <2> QED BY <1>0, <1>1, <2>2, <2>3
  <1>13. ASSUME NEW b \in Browser, NEW r \in Request, Send(b, r)
         PROVE  Kept
    <2>1. PICK group \in Group : req' = [req EXCEPT ![r] = Departing(b, group)]
      BY <1>13 DEF Send
    <2>2. req'[r] = Departing(b, group) /\ Alone(r)
      BY <2>1 DEF TypeInv, VisitorsOK, Alone
    <2>3. req'[r].owner = None /\ req'[r].rows = {}
      BY <2>2, NewRequest DEF TypeInv
    <2> QED BY <1>2, <2>2, <2>3, OwnerKinds
  <1>14. UNCHANGED req => Kept
    BY <1>0
  <1>15. ASSUME (\E t \in Token : Expire(t)) \/ \E b \in Browser : CookieExpires(b)
         PROVE  UNCHANGED req
    BY <1>15 DEF Expire, CookieExpires
  <1>16. UNCHANGED vars => UNCHANGED req
    BY DEF vars
  <1>17. Kept
    BY <1>6, <1>7, <1>8, <1>9, <1>10, <1>11, <1>12, <1>13, <1>14, <1>15, <1>16
       DEF VNext, Serve, Continues
  <1> QED BY <1>17 DEF Acting

(* Until somebody signs in to an account its sessions are changed by the   *)
(* requests acting for it only.                                            *)
LEMMA SessionsOfActing ==
  ASSUME TypeInv, Personal, [VNext]_vars, NEW u \in User, ~SigningIn(u)
  PROVE  \/ \E r \in Acting(u) : req'[r] # req[r]
         \/ /\ SessionsOf(u)' = SessionsOf(u)
            /\ \A s \in SessionsOf(u) : sessions'[s] = sessions[s]
  <1> DEFINE Kept == /\ SessionsOf(u)' = SessionsOf(u)
                     /\ \A s \in SessionsOf(u) : sessions'[s] = sessions[s]
             Acts == \E r \in Acting(u) : req'[r] # req[r]
  <1>1. UNCHANGED tables => Kept
    BY DEF SessionsOf, tables
  <1>2. ASSUME NEW s \in DOMAIN sessions, sessions[s].owner # u,
               DOMAIN sessions' = DOMAIN sessions, sessions'[s].owner # u,
               \A x \in DOMAIN sessions \ {s} : sessions'[x] = sessions[x]
        PROVE  Kept
    BY <1>2 DEF SessionsOf
  <1>3. ASSUME NEW r \in Request, NEW c \in Code, HandleStart(r, c)
        PROVE  Acts \/ Kept
    <2>1. ASSUME NEW s \in SessionId, Start(s, req[r].owner, c, active[c]),
                 Respond(r, "created", {s})
          PROVE  Acts \/ Kept
      <3>1. /\ s \notin DOMAIN sessions
            /\ DOMAIN sessions' = DOMAIN sessions \cup {s}
            /\ sessions'[s].owner = req[r].owner
            /\ \A x \in DOMAIN sessions : sessions'[x] = sessions[x]
        BY <2>1 DEF Start, InsertSession
      <3>2. CASE req[r].owner # u
        BY <3>1, <3>2 DEF SessionsOf
      <3>3. CASE req[r].owner = u
        <4>1. req[r].pc \in {"handle", "create"} /\ req'[r].pc \in {"free", "done"}
          BY <1>3, <2>1, RespondRequest DEF HandleStart, Handles, Reply, TypeInv
        <4> QED BY <3>3, <4>1 DEF Acting
      <3> QED BY <3>2, <3>3
    <2> QED BY <1>1, <1>3, <2>1 DEF HandleStart
  <1>4. ASSUME NEW r \in Request, NEW s \in req[r].rows, s \in DOMAIN sessions,
               req'[r].pc # req[r].pc,
               SameOwners, \A x \in DOMAIN sessions \ {s} : sessions'[x] = sessions[x]
        PROVE  Acts \/ Kept
    <2>1. CASE sessions[s].owner = u
      BY <1>4, <2>1 DEF Acting, SessionsOf
    <2>2. CASE sessions[s].owner # u
      BY <1>2, <1>4, <2>2 DEF SameOwners
    <2> QED BY <2>1, <2>2
  <1>5. ASSUME NEW r \in Request, NEW s \in req[r].rows, Abandon(s), req'[r].pc # req[r].pc,
               UNCHANGED starter
        PROVE  Acts \/ Kept
    <2>1. s \in DOMAIN sessions /\ s \in SessionId
      BY <1>5 DEF Abandon, TypeInv, TypeOK
    <2>2. SameOwners
      BY <1>5, <2>1, OwnersOfAbandon DEF TypeInv
    <2>3. \A x \in DOMAIN sessions \ {s} : sessions'[x] = sessions[x]
      BY <1>5, Zenon DEF Abandon, UpdateAbandoned
    <2> QED BY <1>4, <1>5, <2>1, <2>2, <2>3
  <1>6. ASSUME NEW r \in Request, WriteRestart(r)
        PROVE  Acts \/ Kept
    <2>1. req'[r].pc = "create" /\ req[r].pc = "restart"
      BY <1>6, ContinuesRequest DEF Continues, WriteRestart
    <2> QED BY <1>1, <1>5, <1>6, <2>1 DEF WriteRestart
  <1>7. ASSUME NEW r \in Request, WriteAbandon(r)
        PROVE  Acts \/ Kept
    <2>1. PICK s \in req[r].rows : Abandon(s) /\ Respond(r, "shown", {s})
      BY <1>7 DEF WriteAbandon
    <2>2. req'[r].pc \in {"free", "done"} /\ req[r].pc = "abandon"
      BY <1>7, <2>1, RespondRequest DEF WriteAbandon, Reply, TypeInv, VisitorsOK, RequestState
    <2> QED BY <1>5, <1>7, <2>1, <2>2 DEF WriteAbandon
  <1>8. ASSUME NEW r \in Request, WriteAnswer(r)
        PROVE  Acts \/ Kept
    <2>1. PICK s \in req[r].rows, option \in Pick : Answer(s, option) /\ Respond(r, "shown", {s})
      BY <1>8 DEF WriteAnswer
    <2>2. s \in DOMAIN sessions /\ s \in SessionId /\ option \in Outcome
      BY <2>1, VisitorsAssumption DEF Answer, TypeInv, TypeOK
    <2>3. req'[r].pc \in {"free", "done"} /\ req[r].pc = "answer"
      BY <1>8, <2>1, <2>2, RespondRequest DEF WriteAnswer, Reply, TypeInv
    <2>4. SameOwners
      BY <1>8, <2>1, <2>2, OwnersOfAnswer DEF WriteAnswer, TypeInv
    <2>5. \A x \in DOMAIN sessions \ {s} : sessions'[x] = sessions[x]
      BY <2>1, Zenon DEF Answer, ApplyAnswer
    <2> QED BY <1>4, <2>2, <2>3, <2>4, <2>5
  <1>9. ASSUME NEW r \in Request, NEW t \in Token, ClaimGuest(r, t)
        PROVE  Kept
    <2>1. CASE /\ req[r].pc = "move"
               /\ Move(req[r].rows \cap SessionsOf(req[r].cookie), req[r].owner)
      <3> DEFINE S == req[r].rows \cap SessionsOf(req[r].cookie)
      <3>1. req[r].owner \in User /\ req[r].cookie # u
        BY <2>1, OwnerKinds DEF Personal, Staged, TypeInv, VisitorsOK, RequestState
      <3>2. req[r].owner # u
        <4>1. req'[r].pc \in {"free", "done"}
          BY <1>9, <3>1, SignInRequest DEF ClaimGuest
        <4> QED BY <2>1, <4>1 DEF SigningIn
      <3>3. DOMAIN sessions' = DOMAIN sessions
        BY <2>1 DEF Move, UpdateOwner
      <3>4. ASSUME NEW x \in DOMAIN sessions
            PROVE  IF x \in S THEN sessions'[x].owner # u /\ sessions[x].owner # u
                              ELSE sessions'[x] = sessions[x]
        <4>1. sessions[x] \in SessionRow
          BY DEF TypeInv, TypeOK
        <4>2. [sessions[x] EXCEPT !.owner = req[r].owner].owner = req[r].owner
          BY <4>1 DEF SessionRow
        <4> QED BY <2>1, <3>1, <3>2, <4>2 DEF Move, UpdateOwner, SessionsOf
      <3> QED BY <3>3, <3>4 DEF SessionsOf
    <2> QED BY <1>1, <1>9, <2>1 DEF ClaimGuest
  <1>10. ASSUME NEW r \in Request,
                \/ RequireOwner(r) \/ RequireAuth(r) \/ OptionalAuth(r)
                \/ HandleGet(r) \/ HandleAnswer(r) \/ HandleAbandon(r) \/ ClaimBegin(r)
                \/ HandleProgress(r) \/ HandleCatalog(r)
                \/ HandleLogout(r) \/ Refuse(r) \/ Receive(r) \/ GiveUp(r) \/ Drop(r)
                \/ \E x \in User : Register(r, x) \/ Login(r, x)
                \/ \E c \in Code : HandleRestart(r, c)
         PROVE  UNCHANGED tables
    BY <1>10 DEF RequireOwner, RequireAuth, OptionalAuth, HandleGet, HandleAnswer, HandleAbandon,
       ClaimBegin, HandleProgress, HandleCatalog, HandleLogout, Refuse, Receive, GiveUp, Drop,
       Register, Login, HandleRestart
  <1>11. ASSUME NEW b \in Browser, CookieExpires(b) \/ \E r \in Request : Send(b, r)
         PROVE  UNCHANGED tables
    BY <1>11 DEF Send, CookieExpires
  <1>12. ASSUME NEW t \in Token, Expire(t)
         PROVE  UNCHANGED tables
    BY <1>12 DEF Expire
  <1>13. UNCHANGED vars => UNCHANGED tables
    BY DEF vars
  <1>14. Acts \/ Kept
    BY <1>1, <1>3, <1>6, <1>7, <1>8, <1>9, <1>10, <1>11, <1>12, <1>13 DEF VNext, Serve
  <1> QED BY <1>14

(* After a log out nobody begins to act for the account, whatever tokens   *)
(* other tabs still have, until somebody signs in; until then only what    *)
(* had begun before changes its sessions, and every writer to them is      *)
(* known: a request of the account, or one that read a session when it was *)
(* still a guest's.                                                        *)
THEOREM ClosedStaysClosedHolds == VSpec => ClosedStaysClosed
  <1> DEFINE Undisturbed(u) ==
        Closed(u) /\ ~SigningIn(u) =>
          /\ Closed(u)' /\ Acting(u)' \subseteq Acting(u)
          /\ \/ \E r \in Acting(u) : req'[r] # req[r]
             \/ /\ SessionsOf(u)' = SessionsOf(u)
                /\ \A s \in SessionsOf(u) : sessions'[s] = sessions[s]
  <1>1. ASSUME Safe, [VNext]_vars, NEW u \in User
        PROVE  Undisturbed(u)
    <2> SUFFICES ASSUME Closed(u), ~SigningIn(u)
                 PROVE  /\ Closed(u)' /\ Acting(u)' \subseteq Acting(u)
                        /\ \/ \E r \in Acting(u) : req'[r] # req[r]
                           \/ /\ SessionsOf(u)' = SessionsOf(u)
                              /\ \A s \in SessionsOf(u) : sessions'[s] = sessions[s]
      OBVIOUS
    <2>1. TypeInv /\ Personal /\ AllProper
      BY <1>1 DEF Safe, Base, TypeInv
    <2>2. Closed(u)'
      BY <1>1, <2>1, TokensClosed DEF Closed
    <2> QED BY <1>1, <2>1, <2>2, ActingKept, SessionsOfActing
  <1>2. Safe /\ [VNext]_vars => [\A u \in User : Undisturbed(u)]_vars
    BY <1>1
  <1> QED BY <1>2, AlwaysSafe, PTL DEF VSpec, ClosedStaysClosed

=============================================================================
