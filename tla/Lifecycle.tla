----------------------------- MODULE Lifecycle -----------------------------
(***************************************************************************)
(* The backend container (docker-compose.yml): the seeder, then the API    *)
(* (cmd/seed, cmd/api), with the start and the stop of each.  Both connect *)
(* to the database with retries and migrate it; the seeder loads the       *)
(* content, the API serves until it gets a signal, drains and closes its   *)
(* pool.  Docker starts the container again until it is told to stop it.   *)
(*                                                                         *)
(* Of a request only this matters: whether it is being served, and whether *)
(* it holds a connection of the pool.                                      *)
(***************************************************************************)
EXTENDS Naturals, FiniteSets

CONSTANTS
  Request,        \* requests served at a time; the set bounds them
  MaxConns,       \* POSTGRES_MAX_CONNS
  Retries,        \* POSTGRES_CONNECT_RETRIES
  ContentValid,   \* has every file of the content passed the validator?
  FirstImage, LastImage,  \* an image is known by the number of its migrations
  MaxFaults,      \* bounds outages, kills and failures to listen, together
  MaxStops        \* bounds how often the container is stopped

ASSUME LifecycleAssumption ==
  /\ MaxConns \in Nat \ {0} /\ Retries \in Nat /\ ContentValid \in BOOLEAN
  /\ FirstImage \in Nat /\ LastImage \in Nat
  /\ MaxFaults \in Nat /\ MaxStops \in Nat

VARIABLES
  db,           \* is PostgreSQL accepting connections?
  schema,       \* migrations applied; the volume keeps them
  image,        \* of the container
  wanted,       \* has docker been told to run the container?
  program,      \* that runs in it
  pc,           \* where its run() is
  attempt,      \* pings that have failed
  signalled,    \* has NotifyContext cancelled the context?
  listener,     \* of the HTTP server
  requests,     \* requests[r]: "none", "running" or "query" (holds a connection)
  last,         \* how the last run ended: its exit code, the requests it cut off
  faults, stops \* counters of the bounds

container == <<image, wanted, stops>>
vars == <<db, schema, container, program, pc, attempt, signalled, listener, requests,
          last, faults>>

NoRequests == [r \in Request |-> "none"]

Open == {r \in Request : requests[r] # "none"}

Holding == {r \in Request : requests[r] = "query"}

TypeOK ==
  /\ db \in {"up", "down"}
  /\ schema \in Nat /\ image \in Nat /\ faults \in Nat /\ stops \in Nat
  /\ wanted \in BOOLEAN /\ signalled \in BOOLEAN
  /\ program \in {"none", "seeder", "api"}
  /\ pc \in {"off", "connect", "migrate", "load", "serve", "drain", "closeOK", "closeLate"}
  /\ attempt \in 0..Retries
  /\ listener \in {"none", "open", "failed", "closed"}
  /\ requests \in [Request -> {"none", "running", "query"}]
  /\ last \in [code: {0, 1, 137}, cut: SUBSET Request]

Init ==
  /\ db = "down" /\ schema = 0 /\ image = FirstImage
  /\ wanted = TRUE /\ signalled = FALSE
  /\ program = "none" /\ pc = "off" /\ attempt = 0
  /\ listener = "none" /\ requests = NoRequests
  /\ last = [code |-> 0, cut |-> {}]
  /\ faults = 0 /\ stops = 0

-----------------------------------------------------------------------------
(* Processes.                                                              *)

Run(prog) ==
  /\ program' = prog /\ pc' = "connect" /\ attempt' = 0
  /\ signalled' = FALSE /\ listener' = "none" /\ requests' = NoRequests

(* What was being served when the process ends gets no answer any more.    *)
Exit(code) ==
  /\ program' = "none" /\ pc' = "off" /\ attempt' = 0
  /\ signalled' = FALSE /\ listener' = "none" /\ requests' = NoRequests
  /\ last' = [code |-> code, cut |-> Open]

Goto(to) == pc' = to /\ UNCHANGED <<program, attempt, signalled, requests, last>>

(* command: seeder && exec api; restart: unless-stopped.                   *)
Launch ==
  /\ pc = "off" /\ wanted
  /\ Run("seeder")
  /\ UNCHANGED <<db, schema, container, last, faults>>

-----------------------------------------------------------------------------
(* Connect: pings until the database answers.                              *)

PingOK ==
  /\ pc = "connect" /\ attempt < Retries
  /\ db = "up" /\ ~signalled
  /\ Goto("migrate")
  /\ UNCHANGED <<db, schema, container, listener, faults>>

(* Broken variant: one ping too many.                                      *)
PingFailsOnceMore ==
  /\ pc = "connect" /\ attempt <= Retries
  /\ db = "down" /\ ~signalled
  /\ attempt' = attempt + 1
  /\ UNCHANGED <<db, schema, container, program, pc, signalled, listener, requests, last,
                 faults>>

PingFails ==
  /\ pc = "connect" /\ attempt < Retries
  /\ db = "down" /\ ~signalled
  /\ attempt' = attempt + 1
  /\ UNCHANGED <<db, schema, container, program, pc, signalled, listener, requests, last,
                 faults>>

(* Out of retries, or the wait for the next one is interrupted.            *)
ConnectFails ==
  /\ pc = "connect"
  /\ attempt = Retries \/ signalled
  /\ Exit(1)
  /\ UNCHANGED <<db, schema, container, faults>>

(* Migrate: goose applies what the schema lacks, each in a transaction.    *)
MigrateOne ==
  /\ pc = "migrate" /\ db = "up" /\ ~signalled
  /\ schema < image
  /\ schema' = schema + 1
  /\ UNCHANGED <<db, container, program, pc, attempt, signalled, listener, requests, last,
                 faults>>

(* Broken variant: goose.UpByOne, which leaves other migrations pending.   *)
MigratedByOne ==
  /\ pc = "migrate" /\ db = "up" /\ ~signalled
  /\ schema # 0
  /\ Goto(IF program = "seeder" THEN "load" ELSE "serve")
  /\ UNCHANGED <<db, schema, container, listener, faults>>

Migrated ==
  /\ pc = "migrate" /\ db = "up" /\ ~signalled
  /\ schema >= image
  /\ Goto(IF program = "seeder" THEN "load" ELSE "serve")
  /\ UNCHANGED <<db, schema, container, listener, faults>>

MigrateFails ==
  /\ pc = "migrate"
  /\ db = "down" \/ signalled
  /\ Exit(1)
  /\ UNCHANGED <<db, schema, container, faults>>

-----------------------------------------------------------------------------
(* The seeder loads the content; && runs the API only after a success.     *)

(* Broken variant: exec seeder && api, where nothing is left to run the    *)
(* API when the seeder ends.                                               *)
LoadedInPlace ==
  /\ pc = "load" /\ db = "up"
  /\ ContentValid
  /\ Exit(0)
  /\ UNCHANGED <<db, schema, container, faults>>

Loaded ==
  /\ pc = "load" /\ db = "up"
  /\ ContentValid
  /\ Run("api")
  /\ UNCHANGED <<db, schema, container, last, faults>>

LoadFails ==
  /\ pc = "load"
  /\ db = "down" \/ ~ContentValid
  /\ Exit(1)
  /\ UNCHANGED <<db, schema, container, faults>>

-----------------------------------------------------------------------------
(* The API: the goroutine that listens, and select in run().               *)

Listen ==
  /\ pc = "serve" /\ listener = "none"
  /\ listener' = "open"
  /\ UNCHANGED <<db, schema, container, program, pc, attempt, signalled, requests, last,
                 faults>>

ListenFails ==
  /\ pc = "serve" /\ listener = "none" /\ faults < MaxFaults
  /\ listener' = "failed" /\ faults' = faults + 1
  /\ UNCHANGED <<db, schema, container, program, pc, attempt, signalled, requests, last>>

ServeError ==
  /\ pc = "serve" /\ listener = "failed"
  /\ Exit(1)
  /\ UNCHANGED <<db, schema, container, faults>>

(* Shutdown: no new requests, and a wait for the ones being served ...     *)
Shutdown ==
  /\ pc = "serve" /\ signalled
  /\ Goto("drain") /\ listener' = "closed"
  /\ UNCHANGED <<db, schema, container, faults>>

Drained ==
  /\ pc = "drain" /\ Open = {}
  /\ Goto("closeOK")
  /\ UNCHANGED <<db, schema, container, listener, faults>>

(* Broken variants: the context of Shutdown has no timeout; the error that *)
(* Shutdown returns is dropped.                                            *)
DrainWithoutTimeout == FALSE

DrainErrorDropped ==
  /\ pc = "drain" /\ Open # {}
  /\ Goto("closeOK")
  /\ UNCHANGED <<db, schema, container, listener, faults>>

(* ... but not longer than HTTP_SHUTDOWN_TIMEOUT.                          *)
DrainTimeout ==
  /\ pc = "drain" /\ Open # {}
  /\ Goto("closeLate")
  /\ UNCHANGED <<db, schema, container, listener, faults>>

(* pool.Close waits for the connections that are in use, however late.     *)
Closed ==
  /\ pc \in {"closeOK", "closeLate"} /\ Holding = {}
  /\ Exit(IF pc = "closeOK" THEN 0 ELSE 1)
  /\ UNCHANGED <<db, schema, container, faults>>

-----------------------------------------------------------------------------
(* Requests.                                                               *)

SetRequest(r, to) ==
  /\ requests' = [requests EXCEPT ![r] = to]
  /\ UNCHANGED <<db, schema, container, program, pc, attempt, signalled, listener, last, faults>>

Accept(r) == listener = "open" /\ requests[r] = "none" /\ SetRequest(r, "running")

(* Once the pool is closed no connection is to be had.                     *)
Acquire(r) ==
  /\ requests[r] = "running"
  /\ pc \in {"serve", "drain"} /\ Cardinality(Holding) < MaxConns
  /\ SetRequest(r, "query")

(* The query, or the transaction, ends: at the latest by middleware.Timeout*)
Release(r) == requests[r] = "query" /\ SetRequest(r, "running")

Reply(r) == requests[r] = "running" /\ SetRequest(r, "none")

-----------------------------------------------------------------------------
(* The world around.                                                       *)

(* docker stop.  While the seeder runs, the signal is for the shell, which *)
(* as process 1 ignores it.                                                *)
Stop ==
  /\ wanted /\ stops < MaxStops
  /\ wanted' = FALSE /\ stops' = stops + 1
  /\ signalled' = (program = "api")
  /\ UNCHANGED <<db, schema, image, program, pc, attempt, listener, requests, last, faults>>

(* docker compose up, with the image there is or a newer one.              *)
Up ==
  /\ ~wanted /\ pc = "off"
  /\ wanted' = TRUE
  /\ image' \in image..LastImage
  /\ UNCHANGED <<db, schema, stops, program, pc, attempt, signalled, listener, requests, last,
                 faults>>

(* The OOM killer, or docker stop when it has waited long enough.          *)
Kill ==
  /\ pc # "off"
  /\ ~wanted \/ faults < MaxFaults
  /\ faults' = IF wanted THEN faults + 1 ELSE faults
  /\ Exit(137)
  /\ UNCHANGED <<db, schema, container>>

DbUp ==
  /\ db = "down" /\ db' = "up"
  /\ UNCHANGED <<schema, container, program, pc, attempt, signalled, listener, requests, last,
                 faults>>

DbDown ==
  /\ db = "up" /\ db' = "down"
  /\ faults < MaxFaults /\ faults' = faults + 1
  /\ UNCHANGED <<schema, container, program, pc, attempt, signalled, listener, requests, last>>

Step ==
  \/ Launch
  \/ PingOK \/ PingFails \/ ConnectFails
  \/ MigrateOne \/ Migrated \/ MigrateFails
  \/ Loaded \/ LoadFails
  \/ Listen \/ ServeError \/ Shutdown
  \/ Drained \/ DrainTimeout \/ Closed

Next ==
  \/ Step \/ ListenFails
  \/ \E r \in Request : Accept(r) \/ Acquire(r) \/ Release(r) \/ Reply(r)
  \/ Stop \/ Up \/ Kill \/ DbUp \/ DbDown

Spec == Init /\ [][Next]_vars

(* Processes and docker go on; the database comes back; a query ends, by   *)
(* its context at the latest.  Nothing is assumed about handlers that hang *)
(* elsewhere.                                                              *)
FairSpec ==
  Spec /\ WF_vars(Step) /\ WF_vars(DbUp) /\ \A r \in Request : WF_vars(Release(r))

-----------------------------------------------------------------------------
(* Properties.                                                             *)

(* No request works on a schema that lacks a migration of its image,       *)
(* whatever crashes and new images come in between (REL1).                 *)
ServesMigrated == Holding # {} => schema >= image

(* Exit code 0 is earned: no request was cut off by that run.              *)
CleanExit == last.code = 0 => last.cut = {}

(* Nor one that has more: no image goes back, so that a request finds the  *)
(* very schema its image was written for.                                  *)
ServesItsSchema == Holding # {} => schema = image

(* A process that was told to stop only gets closer to its end: it neither *)
(* starts to migrate or to serve, nor goes back to serving.                *)
Phase == [connect |-> 1, migrate |-> 2, load |-> 3, serve |-> 3, drain |-> 4,
          closeOK |-> 5, closeLate |-> 5, off |-> 6]

StopIsShort ==
  [][signalled /\ pc' # pc =>
       pc' \in {"drain", "closeOK", "closeLate", "off"} /\ Phase[pc'] > Phase[pc]]_vars

(* Once it shuts down it takes no new request, and once it closes its pool *)
(* no request gets a connection any more.                                  *)
NoNewWork ==
  [][/\ pc \in {"drain", "closeOK", "closeLate"} => Open' \subseteq Open
     /\ pc \in {"closeOK", "closeLate"} => Holding' \subseteq Holding]_vars

(* A process that was told to stop stops, although handlers may hang and   *)
(* the signal may come at any moment of the start.                         *)
StopEnds == signalled ~> ~signalled

(* The API comes up, although the database may be late or fail for a while.*)
ApiComesUp == wanted ~> (listener = "open" \/ ~wanted)

-----------------------------------------------------------------------------
(* What makes ServesMigrated and CleanExit inductive.                      *)

Serving == {"serve", "drain", "closeOK", "closeLate"}

LifecycleInv ==
  /\ TypeOK
  /\ pc # "off" => program # "none"
  /\ pc \in Serving => program = "api" /\ schema >= image
  /\ pc = "load" => program = "seeder" /\ schema >= image
  /\ Open # {} => pc \in Serving
  /\ listener # "none" => pc \in Serving
  /\ listener = "open" => pc = "serve"
  /\ pc = "closeOK" => Open = {}
  /\ CleanExit

=============================================================================
