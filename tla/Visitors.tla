------------------------------ MODULE Visitors ------------------------------
(***************************************************************************)
(* Who acts for whom: browsers with an access token and a guest cookie,    *)
(* their requests and the replies to them, the middleware that decides on  *)
(* whose behalf a request is handled (transport/http/middleware.go), the   *)
(* accounts and revoked tokens (repository/user.go) and the handlers, with *)
(* the training engine of Attempt behind them.                             *)
(*                                                                         *)
(* A request carries the token and the cookie its browser had when it was  *)
(* sent; the reply may arrive late, after other replies, or never, and a   *)
(* browser may give up a request that the server still handles.  A handler *)
(* checks the owner of a session on the row it reads and then writes by the*)
(* id alone: by that time the session may belong to an account.            *)
(*                                                                         *)
(* The services for accounts and guests and the handlers for register, log *)
(* in and log out are not in the repository: their steps are those of the  *)
(* interfaces (service/service.go), of the repositories behind them and of *)
(* the API contract.                                                       *)
(***************************************************************************)
EXTENDS Attempt

CONSTANTS
  Browser,      \* browsers, each used by one person
  Token,        \* access tokens; a finite set bounds the number of log ins
  Request,      \* requests under way at the same time
  MaxSent,      \* bound of the number of requests sent
  Pick          \* the options people choose

ASSUME VisitorsAssumption ==
  /\ None \notin User /\ None \notin Guest /\ None \notin Token
  /\ None \notin Browser
  /\ Pick \subseteq Outcome
  /\ MaxSent \in Nat

VARIABLES
  browser,      \* browser[b]: token, guest cookie, sessions it knows of
  guestOf,      \* guestOf[g]: the browser guest g was started for
  account,      \* account[u]: who registered nickname u and has its password
  issued,       \* issued[t]: the account token t was issued to
  revoked,      \* table revoked_tokens
  expired,      \* tokens past their expiry, and so past expires_at
  req,          \* req[r]: a request, from its departure to its reply
  sent,         \* number of requests sent, up to MaxSent
  starter       \* starter[s]: the browser whose request created session s

tokens == <<issued, revoked, expired>>
vars == <<tables, browser, guestOf, account, tokens, req, sent, starter>>

(* The groups of routes (router.go): with requireOwner, with requireAuth,  *)
(* with optionalAuth, and register and log in with none of them.  Which    *)
(* route of its group a request takes shows when it is handled.            *)
Group == {"owner", "auth", "open", "signIn"}

Reply == {"none", "created", "shown", "signedIn", "signedOut", "refused"}

BrowserState == [auth: Token \cup {None}, cookie: Guest \cup {None},
                 known: SUBSET SessionId, orderly: BOOLEAN]

RequestState ==
  [pc: {"free", "sent", "handle", "answer", "abandon", "restart", "create",
        "claim", "move", "done"},
   by: Browser \cup {None}, group: Group \cup {None},
   token: Token \cup {None}, cookie: Guest \cup {None},
   awaited: BOOLEAN, owner: Owner \cup {None}, code: Code \cup {None},
   rows: SUBSET SessionId, step: Step \cup {None},
   newCookie: Guest \cup {None}, newToken: Token \cup {None},
   reply: Reply, shown: SUBSET SessionId]

NoRequest == [pc |-> "free", by |-> None, group |-> None, token |-> None,
              cookie |-> None, awaited |-> FALSE, owner |-> None, code |-> None,
              rows |-> {}, step |-> None,
              newCookie |-> None, newToken |-> None, reply |-> "none", shown |-> {}]

VisitorsOK ==
  /\ browser \in [Browser -> BrowserState]
  /\ guestOf \in [Guest -> Browser \cup {None}]
  /\ account \in [User -> Browser \cup {None}]
  /\ issued \in [Token -> User \cup {None}]
  /\ revoked \subseteq Token
  /\ expired \subseteq Token
  /\ req \in [Request -> RequestState]
  /\ sent \in 0..MaxSent
  /\ DOMAIN starter = DOMAIN sessions
  /\ \A s \in DOMAIN sessions : starter[s] \in Browser

TypeInv == TypeOK /\ VisitorsOK

VInit ==
  /\ InitTables
  /\ browser = [b \in Browser |-> [auth |-> None, cookie |-> None,
                                   known |-> {}, orderly |-> TRUE]]
  /\ guestOf = [g \in Guest |-> None]
  /\ account = [u \in User |-> None]
  /\ issued = [t \in Token |-> None]
  /\ revoked = {}
  /\ expired = {}
  /\ req = [r \in Request |-> NoRequest]
  /\ sent = 0
  /\ starter = [s \in {} |-> None]

-----------------------------------------------------------------------------
(* The browser sends.                                                      *)

(* A request that shows neither a token nor a cookie where an owner is     *)
(* needed: the server will start a guest, the reply will set its cookie.   *)
Anonymous(q) ==
  \/ q.pc = "sent" /\ q.group = "owner" /\ q.token = None /\ q.cookie = None
  \/ q.newCookie # None

Awaits(b, r) == req[r].by = b /\ req[r].awaited /\ Anonymous(req[r])

AwaitsCookie(b) == \E r \in Request : Awaits(b, r)

(* What the server looks at: register and log in ignore the token; the     *)
(* guest cookie counts there, and for an owner without a token.            *)
Departing(b, group) ==
  LET token  == IF group = "signIn" THEN None ELSE browser[b].auth
      cookie == IF group = "signIn" \/ (group = "owner" /\ token = None)
                  THEN browser[b].cookie ELSE None
  IN  [NoRequest EXCEPT !.pc = "sent", !.by = b, !.group = group, !.token = token,
                        !.cookie = cookie, !.awaited = TRUE]

(* A browser is orderly as long as it has not sent two anonymous requests  *)
(* without waiting for the reply to the first.                             *)
Send(b, r) ==
  /\ req[r].pc = "free"
  /\ sent < MaxSent
  /\ sent' = sent + 1
  /\ \E group \in Group :
       LET q == Departing(b, group)
       IN  /\ req' = [req EXCEPT ![r] = q]
           /\ browser' = [browser EXCEPT ![b].orderly =
                            @ /\ ~(Anonymous(q) /\ AwaitsCookie(b))]
  /\ UNCHANGED <<tables, guestOf, account, tokens, starter>>

-----------------------------------------------------------------------------
(* The middleware.                                                         *)

(* The context holds the owner; only Logout looks at the token again.      *)
Entered(q, owner) ==
  [q EXCEPT !.pc = "handle", !.owner = owner, !.cookie = None,
            !.token = IF q.group = "auth" THEN @ ELSE None]

EnterAs(r, owner) == req' = [req EXCEPT ![r] = Entered(@, owner)]

(* The reply goes out, unless nobody waits for it.                         *)
Responding(r, q) ==
  req' = [req EXCEPT ![r] =
            IF q.awaited
              THEN [q EXCEPT !.pc = "done", !.group = None, !.token = None,
                             !.cookie = None, !.owner = None, !.code = None,
                             !.rows = {}, !.step = None]
              ELSE NoRequest]

Respond(r, reply, shown) ==
  Responding(r, [req[r] EXCEPT !.reply = reply, !.shown = shown])

(* Broken variant: the comparison with now() turned round.                 *)
IsTokenRevokedLate(t) == t \in revoked /\ t \in expired

(* SELECT EXISTS (... WHERE jti = t AND expires_at > now())                *)
IsTokenRevoked(t) == t \in revoked /\ t \notin expired

(* The access token is valid: it has not run out and is not revoked.       *)
Authenticates(t) == t \notin expired /\ ~IsTokenRevoked(t)

(* Broken variant: a bad token falls through to the cookie.                *)
RequireOwnerSilently(r) ==
  LET q == req[r]
  IN  /\ q.pc = "sent" /\ q.group = "owner"
      /\ \/ /\ q.token # None /\ Authenticates(q.token)
            /\ EnterAs(r, issued[q.token])
            /\ UNCHANGED <<browser, guestOf>>
         \/ /\ q.token = None \/ ~Authenticates(q.token)
            /\ \E g \in Guest :
                 /\ guestOf[g] = None
                 /\ guestOf' = [guestOf EXCEPT ![g] = q.by]
                 /\ req' = [req EXCEPT ![r] = [Entered(@, g) EXCEPT !.newCookie = g]]
            /\ UNCHANGED browser
      /\ UNCHANGED <<tables, account, tokens, sent, starter>>

(* requireOwner: a token decides alone, a bad one, or one whose look up    *)
(* fails, is refused and never turned into a guest; else the cookie, if    *)
(* Validate accepts it; else a new guest, whose cookie goes out with       *)
(* whatever reply the handler makes.                                       *)
(* Validate may also fail because the guest ran out or the look up failed: *)
(* the browser's guest is then replaced.                                   *)
RequireOwner(r) ==
  LET q == req[r]
  IN  /\ q.pc = "sent" /\ q.group = "owner"
      /\ \/ /\ q.token # None /\ Authenticates(q.token)
            /\ EnterAs(r, issued[q.token])
            /\ UNCHANGED <<browser, guestOf>>
         \/ /\ q.token # None
            /\ Respond(r, "signedOut", {})
            /\ UNCHANGED <<browser, guestOf>>
         \/ /\ q.token = None /\ q.cookie # None
            /\ EnterAs(r, q.cookie)
            /\ UNCHANGED <<browser, guestOf>>
         \/ /\ q.token = None
            /\ \E g \in Guest :
                 /\ guestOf[g] = None
                 /\ guestOf' = [guestOf EXCEPT ![g] = q.by]
                 /\ req' = [req EXCEPT ![r] = [Entered(@, g) EXCEPT !.newCookie = g]]
            /\ browser' = [browser EXCEPT ![q.by].orderly = @ /\ q.cookie = None]
         \/ /\ q.token = None
            /\ Respond(r, "refused", {})
            /\ UNCHANGED <<browser, guestOf>>
      /\ UNCHANGED <<tables, account, tokens, sent, starter>>

(* requireAuth: no token or a bad one is refused, and so is a good one if  *)
(* its look up fails.                                                      *)
RequireAuth(r) ==
  LET q == req[r]
  IN  /\ q.pc = "sent" /\ q.group = "auth"
      /\ \/ /\ q.token # None /\ Authenticates(q.token)
            /\ EnterAs(r, issued[q.token])
         \/ Respond(r, "signedOut", {})
      /\ UNCHANGED <<tables, browser, guestOf, account, tokens, sent, starter>>

(* optionalAuth: a good token adds the user; without one, or if its look   *)
(* up fails, the request is handled for nobody; the guest cookie plays no  *)
(* part.                                                                   *)
OptionalAuth(r) ==
  LET q == req[r]
  IN  /\ q.pc = "sent" /\ q.group = "open"
      /\ \/ /\ q.token # None /\ Authenticates(q.token)
            /\ EnterAs(r, issued[q.token])
         \/ EnterAs(r, None)
      /\ UNCHANGED <<tables, browser, guestOf, account, tokens, sent, starter>>

-----------------------------------------------------------------------------
(* The handlers behind requireOwner, requireAuth and optionalAuth.         *)

Handles(r, group) == req[r].pc = "handle" /\ req[r].group = group

(* StartSession: a new session of the owner, or 409 with the unfinished    *)
(* one.                                                                    *)
HandleStart(r, c) ==
  LET o == req[r].owner
  IN  /\ Handles(r, "owner") \/ (req[r].pc = "create" /\ req[r].code = c)
      /\ \/ \E s \in SessionId :
              /\ Start(s, o, c, active[c])
              /\ starter' = [x \in DOMAIN sessions \cup {s} |->
                               IF x = s THEN req[r].by ELSE starter[x]]
              /\ Respond(r, "created", {s})
         \/ /\ ActiveSessions(o, c) # {}
            /\ Respond(r, "shown", ActiveSessions(o, c))
            /\ UNCHANGED <<tables, starter>>
      /\ UNCHANGED <<browser, guestOf, account, tokens, sent>>

(* The row a handler has read, and will write by its id.                   *)
Reads(r, to, s) ==
  req' = [req EXCEPT ![r].pc = to, ![r].rows = {s}, ![r].step = sessions[s].step]

(* StartSession with restart: the unfinished session is looked up and      *)
(* abandoned first; if it has ended by itself, no row matches.             *)
HandleRestart(r, c) ==
  /\ Handles(r, "owner")
  /\ \E s \in ActiveSessions(req[r].owner, c) :
       req' = [req EXCEPT ![r].pc = "restart", ![r].rows = {s}, ![r].code = c]
  /\ UNCHANGED <<tables, browser, guestOf, account, tokens, sent, starter>>

WriteRestart(r) ==
  /\ req[r].pc = "restart"
  /\ \E s \in req[r].rows :
       Abandon(s) \/ (sessions[s].status # "in_progress" /\ UNCHANGED tables)
  /\ req' = [req EXCEPT ![r].pc = "create", ![r].rows = {}]
  /\ UNCHANGED <<browser, guestOf, account, tokens, sent, starter>>

(* GetSession and GetSessionResult: a session of the owner; a foreign one  *)
(* is a 404 like one that does not exist (Refuse).                         *)
HandleGet(r) ==
  /\ Handles(r, "owner")
  /\ \E s \in SessionsOf(req[r].owner) : Respond(r, "shown", {s})
  /\ UNCHANGED <<tables, browser, guestOf, account, tokens, sent, starter>>

(* SubmitAnswer: Get, the owner and the state of the session that was read *)
(* (Training has the statements in between).                               *)
HandleAnswer(r) ==
  /\ Handles(r, "owner")
  /\ \E s \in SessionsOf(req[r].owner) :
       sessions[s].status = "in_progress" /\ Reads(r, "answer", s)
  /\ UNCHANGED <<tables, browser, guestOf, account, tokens, sent, starter>>

(* SaveAnswer, by id: the unique index rejects an answer to a step that the*)
(* session has left; whose it is by now is not asked again.                *)
WriteAnswer(r) ==
  /\ req[r].pc = "answer"
  /\ \E s \in req[r].rows, option \in Pick :
       /\ sessions[s].step = req[r].step
       /\ Answer(s, option)
       /\ Respond(r, "shown", {s})
  /\ UNCHANGED <<browser, guestOf, account, tokens, sent, starter>>

(* AbandonSession: Get and the owner; then the UPDATE by id, if the session*)
(* is still in progress.                                                   *)
HandleAbandon(r) ==
  /\ Handles(r, "owner")
  /\ \E s \in SessionsOf(req[r].owner) :
       sessions[s].status = "in_progress" /\ Reads(r, "abandon", s)
  /\ UNCHANGED <<tables, browser, guestOf, account, tokens, sent, starter>>

WriteAbandon(r) ==
  /\ req[r].pc = "abandon"
  /\ \E s \in req[r].rows : Abandon(s) /\ Respond(r, "shown", {s})
  /\ UNCHANGED <<browser, guestOf, account, tokens, sent, starter>>

(* GetProgress, GetSignalProgress, ListAttempts: the completed attempts of *)
(* the account.  ListScenarios, GetScenario: a card has, for an account    *)
(* only, its statistics and its unfinished session.                        *)
HandleProgress(r) ==
  /\ Handles(r, "auth")
  /\ Respond(r, "shown", {s \in SessionsOf(req[r].owner) : sessions[s].status = "completed"})
  /\ UNCHANGED <<tables, browser, guestOf, account, tokens, sent, starter>>

HandleCatalog(r) ==
  /\ Handles(r, "open")
  /\ Respond(r, "shown", {s \in SessionsOf(req[r].owner) : sessions[s].status # "abandoned"})
  /\ UNCHANGED <<tables, browser, guestOf, account, tokens, sent, starter>>

(* Broken variant: log out among the routes with an optional token.        *)
HandleLogoutOpen(r) ==
  /\ Handles(r, "open")
  /\ revoked' = revoked \cup {req[r].token}
  /\ Respond(r, "signedOut", {})
  /\ UNCHANGED <<tables, browser, guestOf, account, issued, expired, sent, starter>>

(* Logout: INSERT INTO revoked_tokens ... ON CONFLICT DO NOTHING.          *)
HandleLogout(r) ==
  /\ Handles(r, "auth")
  /\ revoked' = revoked \cup {req[r].token}
  /\ Respond(r, "signedOut", {})
  /\ UNCHANGED <<tables, browser, guestOf, account, issued, expired, sent, starter>>

(* Any handler may answer with an error and change nothing: not found,     *)
(* finished, nickname taken, wrong password, invalid, database.            *)
Refuse(r) ==
  /\ \/ req[r].pc \in {"handle", "answer", "abandon", "restart", "create"}
     \/ req[r].pc = "sent" /\ req[r].group = "signIn"
  /\ Respond(r, "refused", {})
  /\ UNCHANGED <<tables, browser, guestOf, account, tokens, sent, starter>>

-----------------------------------------------------------------------------
(* Register and log in: the account, then the token, then ClaimGuest if    *)
(* the request had a guest cookie.                                         *)

ToClaim(r, u) == req' = [req EXCEPT ![r].pc = "claim", ![r].owner = u]

(* Broken variant: without the unique index on nicknames.                  *)
RegisterOver(r, u) ==
  /\ req[r].pc = "sent" /\ req[r].group = "signIn"
  /\ account' = [account EXCEPT ![u] = req[r].by]
  /\ ToClaim(r, u)
  /\ UNCHANGED <<tables, browser, guestOf, tokens, sent, starter>>

(* INSERT INTO users: the nickname must not be taken.                      *)
Register(r, u) ==
  /\ req[r].pc = "sent" /\ req[r].group = "signIn"
  /\ account[u] = None
  /\ account' = [account EXCEPT ![u] = req[r].by]
  /\ ToClaim(r, u)
  /\ UNCHANGED <<tables, browser, guestOf, tokens, sent, starter>>

(* GetByNickname and the password.                                         *)
Login(r, u) ==
  /\ req[r].pc = "sent" /\ req[r].group = "signIn"
  /\ account[u] = req[r].by
  /\ ToClaim(r, u)
  /\ UNCHANGED <<tables, browser, guestOf, account, tokens, sent, starter>>

SignIn(r, t) ==
  /\ issued[t] = None
  /\ issued' = [issued EXCEPT ![t] = req[r].owner]
  /\ Responding(r, [req[r] EXCEPT !.reply = "signedIn", !.newToken = t])

(* ClaimByGuest begins: it finds the sessions of the cookie's guest.       *)
ClaimBegin(r) ==
  LET q == req[r]
  IN  /\ q.pc = "claim" /\ q.cookie # None
      /\ req' = [req EXCEPT ![r].pc = "move", ![r].rows = SessionsOf(q.cookie)]
      /\ UNCHANGED <<tables, browser, guestOf, account, tokens, sent, starter>>

(* It moves all of them that are the guest's still or, when it fails (an   *)
(* unfinished session on both sides, the database), none; nor is there a   *)
(* claim without a cookie, or of a guest that ran out.  The person is      *)
(* signed in either way.                                                   *)
ClaimGuest(r, t) ==
  LET q == req[r]
  IN  /\ \/ q.pc = "move" /\ Move(q.rows \cap SessionsOf(q.cookie), q.owner)
         \/ q.pc \in {"claim", "move"} /\ UNCHANGED tables
      /\ SignIn(r, t)
      /\ UNCHANGED <<browser, guestOf, account, revoked, expired, sent, starter>>

-----------------------------------------------------------------------------
(* The reply, and what may happen to it.                                   *)

TokenAfter(q, auth) ==
  IF q.newToken # None THEN q.newToken
  ELSE IF q.reply = "signedOut" THEN None ELSE auth

(* The browser stores the cookie and the token of the reply; it forgets    *)
(* its token after a log out and when it is told that it is not signed in. *)
Receive(r) ==
  LET q   == req[r]
      old == browser[q.by]
  IN  /\ q.pc = "done"
      /\ browser' = [browser EXCEPT ![q.by] =
           [auth |-> TokenAfter(q, old.auth),
            cookie |-> IF q.newCookie # None THEN q.newCookie ELSE old.cookie,
            known |-> IF q.reply = "created" THEN old.known \cup q.shown ELSE old.known,
            orderly |-> old.orderly]]
      /\ req' = [req EXCEPT ![r] = NoRequest]
      /\ UNCHANGED <<tables, guestOf, account, tokens, sent, starter>>

(* The cookie has a MaxAge: the browser forgets it.                        *)
CookieExpires(b) ==
  /\ browser[b].cookie # None
  /\ browser' = [browser EXCEPT ![b].cookie = None, ![b].orderly = FALSE]
  /\ UNCHANGED <<tables, guestOf, account, tokens, req, sent, starter>>

(* The browser no longer waits: timeout, closed page.  The server goes on, *)
(* so that it makes no difference how far it has got by then.              *)
GiveUp(r) ==
  /\ req[r].pc = "sent" /\ req[r].awaited
  /\ req' = [req EXCEPT ![r].awaited = FALSE]
  /\ UNCHANGED <<tables, browser, guestOf, account, tokens, sent, starter>>

(* The request or its reply is lost, or the process dies while it handles  *)
(* the request.                                                            *)
Drop(r) ==
  /\ req[r].pc # "free"
  /\ req' = [req EXCEPT ![r] = NoRequest]
  /\ UNCHANGED <<tables, browser, guestOf, account, tokens, sent, starter>>

Expire(t) ==
  /\ issued[t] # None
  /\ expired' = expired \cup {t}
  /\ UNCHANGED <<tables, browser, guestOf, account, issued, revoked, req, sent, starter>>

Serve(r) ==
  \/ RequireOwner(r) \/ RequireAuth(r) \/ OptionalAuth(r)
  \/ \E c \in Code : HandleStart(r, c) \/ HandleRestart(r, c)
  \/ HandleGet(r) \/ HandleAnswer(r) \/ HandleAbandon(r) \/ HandleProgress(r)
  \/ WriteRestart(r) \/ WriteAnswer(r) \/ WriteAbandon(r)
  \/ HandleCatalog(r) \/ HandleLogout(r) \/ Refuse(r)
  \/ \E u \in User : Register(r, u) \/ Login(r, u)
  \/ ClaimBegin(r)
  \/ \E t \in Token : ClaimGuest(r, t)

VNext ==
  \/ \E b \in Browser : CookieExpires(b) \/ \E r \in Request : Send(b, r)
  \/ \E r \in Request : Serve(r) \/ Receive(r) \/ GiveUp(r) \/ Drop(r)
  \/ \E t \in Token : Expire(t)

VSpec == VInit /\ [][VNext]_vars

-----------------------------------------------------------------------------
(* Safety.                                                                 *)

(* The person behind an owner: who registered the account, or whose        *)
(* browser the guest was started for.                                      *)
PersonOf(o) == IF o \in User THEN account[o] ELSE guestOf[o]

(* No session ever changes hands, whatever claims, logins and late         *)
(* requests do: it stays with the person who started it, and no reply,     *)
(* late or not, shows it to anybody else (SEC2).                           *)
Separate ==
  /\ \A s \in DOMAIN sessions : PersonOf(sessions[s].owner) = starter[s]
  /\ \A r \in Request : \A s \in req[r].shown :
       s \in DOMAIN sessions /\ starter[s] = req[r].by

Reaches(b, cookie, o) == o = cookie \/ (o \in User /\ account[o] = b)

(* A session that a browser has been told of stays within its reach,       *)
(* through its guest cookie or an account of its person, over lost         *)
(* replies, failed claims, logins and log outs: as long as it has not sent *)
(* two anonymous requests at a time and the server took its cookie.        *)
KeepsSessions ==
  \A b \in Browser :
    browser[b].orderly =>
      \A s \in browser[b].known :
        s \in DOMAIN sessions /\ Reaches(b, browser[b].cookie, sessions[s].owner)

(* An account is closed when all its tokens are revoked or have run out.   *)
(* Who is still at work on it then: requests that were let in before, and  *)
(* requests of a guest that had checked a session before it was claimed.   *)
Closed(u) == \A t \in Token : issued[t] = u => t \in revoked \cup expired

Acting(u) == {r \in Request : req[r].owner = u \/ req[r].rows \cap SessionsOf(u) # {}}

(* A request that signs in to u takes a step, with the password.           *)
SigningIn(u) ==
  \E r \in Request :
    /\ req'[r] # req[r]
    /\ \/ req'[r].pc = "claim" /\ req'[r].owner = u
       \/ req[r].pc \in {"claim", "move"} /\ req[r].owner = u

(* After a log out nobody begins to act for the account, not even with a   *)
(* token that another tab still has, until somebody signs in; what changes *)
(* in its sessions until then is the work of requests begun before.        *)
ClosedStaysClosed ==
  [][\A u \in User :
       Closed(u) /\ ~SigningIn(u) =>
         /\ Closed(u)' /\ Acting(u)' \subseteq Acting(u)
         /\ \/ \E r \in Acting(u) : req'[r] # req[r]
            \/ /\ SessionsOf(u)' = SessionsOf(u)
               /\ \A s \in SessionsOf(u) : sessions'[s] = sessions[s]]_vars

(* An owner changes in one way only: ClaimByGuest takes a session from a   *)
(* guest to an account of the same person.  No row of users or guests ever *)
(* passes to somebody else, no token to another account, and a token that  *)
(* was once refused is never accepted again.                               *)
HandedOn ==
  [][/\ \A s \in DOMAIN sessions :
         /\ s \in DOMAIN sessions' /\ starter'[s] = starter[s]
         /\ \/ sessions'[s].owner = sessions[s].owner
            \/ /\ sessions[s].owner \in Guest /\ sessions'[s].owner \in User
               /\ account[sessions'[s].owner] = guestOf[sessions[s].owner]
     /\ \A g \in Guest : guestOf[g] # None => guestOf'[g] = guestOf[g]
     /\ \A u \in User : account[u] # None => account'[u] = account[u]
     /\ \A t \in Token : issued[t] # None => issued'[t] = issued[t]
     /\ \A t \in Token : ~Authenticates(t) => ~Authenticates(t)']_vars

-----------------------------------------------------------------------------
(* What makes the invariants inductive.                                    *)

(* What a request carries at each stage.                                   *)
Staged(q) ==
  /\ q.pc = "free" => q = NoRequest
  /\ q.pc # "free" => q.by # None
  /\ q.pc = "handle" /\ q.group = "auth" => q.token # None
  /\ q.pc = "handle" /\ q.group = "owner" => q.owner # None
  /\ q.pc \in {"answer", "abandon", "restart", "create"} => q.owner # None
  /\ q.pc \in {"claim", "move"} => q.owner \in User
  /\ q.pc = "move" => q.cookie # None
  /\ q.rows # {} => q.pc \in {"answer", "abandon", "restart", "move"}
  /\ q.pc = "done" => q.awaited

(* Cookies, tokens and owners belong to the person who uses the browser.   *)
HoldsGuest(b, g) == g # None => guestOf[g] = b
HoldsToken(b, t) == t # None => issued[t] # None /\ account[issued[t]] = b

HoldsAll(q) ==
  /\ HoldsGuest(q.by, q.cookie)
  /\ HoldsGuest(q.by, q.newCookie)
  /\ HoldsToken(q.by, q.token)
  /\ HoldsToken(q.by, q.newToken)
  /\ q.owner # None => PersonOf(q.owner) = q.by

Personal ==
  /\ \A r \in Request : Staged(req[r]) /\ HoldsAll(req[r])
  /\ \A b \in Browser : HoldsGuest(b, browser[b].cookie) /\ HoldsToken(b, browser[b].auth)

(* An orderly browser awaits at most one cookie, and then it has none; and *)
(* what it will get to know is within its reach by the time it knows.      *)
WillReach(b, q, o) == Reaches(b, IF q.newCookie # None THEN q.newCookie ELSE browser[b].cookie, o)

KeepsReach(b, q) ==
  q.by = b /\ q.awaited =>
    /\ q.cookie # None => q.cookie = browser[b].cookie
    /\ q.pc \in {"restart", "create"} \/ (q.pc = "handle" /\ q.group = "owner")
         => WillReach(b, q, q.owner)
    /\ q.pc = "done" /\ q.reply = "created" =>
         \A s \in q.shown : WillReach(b, q, sessions[s].owner)

InOrder(b) ==
  /\ \A r \in Request : Awaits(b, r) => browser[b].cookie = None
  /\ \A r1, r2 \in Request : Awaits(b, r1) /\ Awaits(b, r2) => r1 = r2
  /\ \A r \in Request : KeepsReach(b, req[r])

Orderly == \A b \in Browser : browser[b].orderly => InOrder(b)

=============================================================================
