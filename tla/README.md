# Formal model of the anti-scam training backend

TLA+ modules, TLC runs and TLAPS proofs for the Go backend under
`src/backend`: a training service in which a person walks through a scenario
of a fraud, choosing one option per step, and gets a score, a debrief and a
history of progress. The sources are the reference of every definition;
`PROJECT.json` names, for each one, the lines it stands for.

Run a module with `tlc -config MCTraining.cfg MCTraining.tla`, check its proofs
with `tlapm TrainingProofs.tla`.

## 1. The system

### Components, their state and operations

| component | code | state | operations | makes it correct |
|---|---|---|---|---|
| branching engine | `domain/scenario.go`, `domain/branching.go` | none (pure) | `ResolveNext`, `IsTerminal`, `PathPosition` | a walk follows the options of one version |
| validator | `domain/validation.go` | local queue, visited set, issues | `ValidateScenario` | accepts exactly well formed files; its searches end and are right; what it accepts can be played |
| content loading | `cmd/seed`, `service/content.go`, `Upsert` in `repository/scenario.go` and `repository/risk_signal.go` | tables `scenarios`, `steps`, `options`, `risk_signals` | `LoadFromDir` | versions only grow, the last is active, unchanged content changes nothing, exit code 0 is earned |
| session store | `repository/session.go`, `migrations/00001_init.sql` | tables `sessions`, `answers` | `Create`, `GetActiveByOwnerScenario`, `GetAnswer`, `SaveAnswer`, `Abandon`, `ClaimByGuest`, history queries | one unfinished session per owner and scenario, one answer per step |
| training engine | `service/service.go` (`TrainingService`), `transport/http/handler_training.go`, `Get` in `service/catalog.go` | a handler's locals between statements | start, restart, get, answer, abandon, result; the card of a scenario | scores are sums, paths are walks, completed attempts are final, replies and cards show what is stored |
| scoring | `domain/scoring.go` | none (pure) | `Evaluate`, `EvaluateTotals`, `LevelFor` | percents and levels are right at every rounding and boundary |
| progress and history | `repository/progress.go`, `service/catalog.go`, history queries of `repository/session.go` | reads only | best result, history, comparison, signal statistics | queries and debriefs agree; progress never shrinks |
| boot and shutdown | `cmd/api`, `cmd/seed`, `storage/postgres`, `docker-compose.yml` | process, listener, pool, applied migrations | connect with retries, migrate, seed, serve, drain | no request meets an old schema; a stop ends; exit code 0 cuts nobody off |
| access and accounts | `transport/http/middleware.go`, `transport/http/router.go`, `repository/user.go` | users, guests, revoked tokens; a browser's cookie and token | `requireAuth`, `optionalAuth`, `requireOwner`, register, log in, log out | nobody gets at another person's session, nobody loses one of their own, a closed account stays closed |
| reference, wire format, configuration, logging, the rest of HTTP | `service/reference.go`, `transport/http`, `config`, `logger` | none | reads, parsing, conversions | not modelled, see section 7 |

### How they interact

The container runs `seeder && exec api`. Both programs connect, migrate and use
one PostgreSQL database, which is also the only way in which they interact: the
seeder publishes scenario versions while API processes of the same or another
image serve sessions pinned to earlier ones. Inside the API each HTTP request is
a goroutine that issues SQL statements one after the other in READ COMMITTED;
two requests of one person (a double click, a retry, two tabs) interleave
between any two statements. The history is computed from the rows the training
engine writes, by queries in part and by Go code in part. Between the browser and
the engine stands the middleware: it decides from the token and the guest cookie
of a request on whose behalf it is handled. Register and log in hand the sessions
of a guest over to the account (`ClaimByGuest`).

### What is hard

Reads used after another request changed what was read (`GetActiveByOwnerScenario`
before `Create`, `GetAnswer` and the position before `SaveAnswer`, the hash and
the greatest version before `INSERT`); `SaveAnswer`, a transaction of two
statements, and `ClaimByGuest`, one statement over many rows, and the locks they
hold while they wait for each other's; an owner checked on a row that a claim gives
to somebody else before it is written; failures between two statements; seeders
that overlap, die or meet a new release; numbering without gaps; rounding;
searches over graphs with duplicates and cycles; replies with a new cookie or
token that come late or never, while other requests are under way; a request that
was authenticated before a log out and is handled after it; a signal at any
moment of the start, and a shutdown that times out. `PROJECT.json` lists the hazards line by
line with the properties that cover them.

### What is not among the sources

`service.go` declares `TrainingService`, `AuthService`, `GuestService` and
`ProgressService`, but their implementations are missing, as are the packages
for tokens and metrics, `domain/owner.go`, `domain/user.go`, `handler_auth.go`,
the repositories of guests and refresh tokens and a migration that adds the
column `guest_session_id`. What the models need of them is taken from how the
present code uses them: from the interface, its comments, the repository methods
that only such a service can call, and the API contract. The unique index on
unfinished sessions in `00001_init.sql` covers `user_id`; that it covers guests
too, as `Create` relies on, is taken from the code of `Create`.

## 2. Plan

Order, most important behaviour first; all of it is written.

1. `Scenario`, `SessionStore`, `Attempt`: tables and the abstract engine.
   `AttemptProofs`: typing, one active session, scores, paths, finality.
2. `Training`: concurrent handlers, shown to implement `Attempt`.
   `TrainingProofs`: the refinement and what it carries over.
3. `Catalog`, `Seeding`: loading, shown to implement a growing catalog.
   `SeedingProofs`: histories of versions, exit codes, the refinement.
4. `Scoring`, `Progress`: results and history over the tables of `Attempt`.
   `ProgressProofs`: the arithmetic of percents and levels, the best and the
   previous attempt, mastery, growth.
5. `Validator`: the rules and the two graph searches. `ValidatorProofs`: searches,
   verdict, and that what is accepted can be played.
6. `Lifecycle`, `LifecycleProofs`: the container from start to stop.
7. `Visitors`, `VisitorsProofs`: browsers, cookies, tokens, accounts.

What could follow when the missing sources appear: refresh tokens in `Visitors`,
the `trainingService` itself in the place of what is read off its interface.

Composition: `SessionStore` extends `Scenario`; `Attempt` and `Training` extend
`SessionStore`; `Training` has `Attempts == INSTANCE Attempt`; `Progress`
extends `Attempt` and `Scoring`; `Seeding` has
`Loading == INSTANCE Catalog WITH published <- Published`; `Validator` extends
`Scenario` and shows that what it accepts is a scenario in the sense of the
engine. `PublishNext` of `SessionStore` is the step of `Catalog` that training
sees. `Visitors` extends `Attempt`: its handlers take the atomic steps of the
engine, which is what `Training` shows the statements to amount to, and it is
about who takes them. Each `...Proofs` module extends the module it is about;
`TrainingProofs` takes `AttemptProofs` in as an instance, `ProgressProofs` and
`VisitorsProofs` extend it, since `Progress` and `Visitors` extend `Attempt`.

## 3. The modules

**Scenario**: a version is its start step, its dialog steps and a function from
step and outcome to the next step. The validator lets a dialog step have exactly
one option per outcome, so an option is identified with its outcome and its
weight is 10, 0 or -10.

**SessionStore**: the tables `sessions` (a partial function from ids to rows)
and `answers` (a set of rows), the active version of each code, and one operator
per statement: `InsertSession`, `ApplyAnswer` (INSERT and UPDATE of
`SaveAnswer`), `UpdateAbandoned`, `UpdateOwner` (of the rows a claim has found,
with `ClaimConflict`, the unique index that fails it), `PublishNext`. A row has one
owner, a user or a guest.

**Attempt**: each operation in one step on those tables: `Start`, `Answer`,
`Abandon`, `Claim`, `Publish`. `Answer` is enabled for an abandoned session
too: `SaveAnswer` updates the row by its id alone, so this is what an answer that
was read before the abandonment does. `Claim` moves any part of the guest's
sessions, in one step or not at all: its UPDATE finds the rows when it begins, and a
session that is started afterwards stays behind.

**Training**: the same as it runs. A handler is at `pc[h]` with locals `loc[h]`
and every action is one statement: `StartLoad`, `StartFind`, `StartAbandonOld`
(`restart`), `StartCreate`, `StartConflict`; `SubmitGet`, `SubmitCheck`,
`SubmitResolve`, `SaveInsert`, `SaveUpdate`, `SaveCommit`; `AbandonGet`,
`AbandonExec`; `ClaimStart`, `ClaimRow`, `ClaimKey`, `ClaimCommit`; and `CardLoad`,
`CardStats`, `CardActive` for the card of a scenario (`catalogService.Get`, and
`List`, which ends after the statistics). Between `SaveInsert` and `SaveCommit` the
transaction is visible to others as the locks it holds: the key (session, step)
of the unique index, then the row of the session. `Fail` ends a handler at any
point, with rollback of the open transaction and nothing else undone.

`ClaimByGuest` is one UPDATE, but over all rows of the guest. It finds them when it
begins (`ClaimStart`), and takes them in an order that the statement leaves open
(`NextRow`): for each the lock on the row (`ClaimRow`), which it looks at again, since
another claim may have taken it while this one waited; then, for an unfinished
session, the entry of `sessions_single_active_idx` for the account (`ClaimKey`), where
an unfinished session of the account fails the whole statement. It keeps what it has
taken until it commits. `Waits(h, k)` says when the statement of `h` waits for the
transaction of `k`: for a key (`HoldsKey`), a row (`HoldsRow`), or an entry of which
it is not decided yet whether it will be there (`HoldsEntry`). PostgreSQL fails one
member of a circle of such waits (`InCircle`, `DeadlockDetected`).

**Visitors**: a browser has a token, a guest cookie and the sessions it has been
told of; it may `Send` a request at any time. `req[r]` goes through the
middleware (`RequireOwner`, `RequireAuth`, `OptionalAuth`), a handler
(`HandleStart`, `HandleRestart`, `HandleGet`, `HandleAnswer`, `HandleAbandon`,
`HandleProgress`, `HandleCatalog`, `HandleLogout`, `Refuse`), or `Register` or
`Login`, then `ClaimBegin` and `ClaimGuest`. An answer, an abandonment and a restart
check the owner on the row they read and remember its id; the write (`WriteAnswer`,
`WriteAbandon`, `WriteRestart`) goes by that id alone, whose the session is by then
is not asked again. A claim likewise moves the rows it has found, those that are
still the guest's. The reply is received late (`Receive`) or lost
(`Drop`), or nobody waits for it any longer (`GiveUp`) while the server goes on.
Tokens run out (`Expire`). A token or a cookie is not forged: a browser sends what
it was given. Nothing at hand takes a guest cookie away, neither a log in nor a
claim, so a browser keeps it until it runs out (`CookieExpires`).

**Catalog**, **Seeding**: a seeder upserts the risk signals in one batch (one
implicit transaction), then takes file after file: `RejectFile`, or
`ReadActive` (skip on an equal hash), `ReadMax`, `Unpublish`, `Lock`,
`InsertVersion` or `InsertConflict`, `InsertSteps`, `Commit`. `Kill` at any point,
`Launch` by the restart policy or by hand, `Deploy` of another release. A file
is `valid`, `invalid` (the validator refuses it) or `unstorable` (the tables do).

**Scoring**, **Progress**: `EvaluateTotals` in integer arithmetic as in Go;
`Best`, `Previous`, `Encounters`, `Mastered` as in the SQL; `Recognized` as in
Go. `finished_at` is the time the transaction began, so any order of times is
allowed.

**Validator**: the rules over single steps and options are sets of issues; the
two breadth-first searches of `validateGraph` are a state machine with one
iteration per step. `StepAt` takes the last of equal codes, as the map in the
code does.

**Lifecycle**: the container, its program and where `run()` is; database and
schema; the signal; the listener; requests, of which it matters whether they are
served and whether they hold a connection of the pool. `Stop` reaches the API
only: while the seeder runs, the signal is for the shell, which as process 1
ignores it. `depends_on` is honoured by `compose up` but not by restarts, so the
database may be down at a launch.

Definitions that come before another one and whose comment calls them *broken
variants* are plausible mistakes in that code. No specification uses them: they
are there to show that a property notices them, as listed under `mutants`.

## 4. The runs

| run | properties | what it shows |
|---|---|---|
| `MCAttempt` | `TypeOK`, `OneActive`, `ScoreIsSum`, `AnswersFormPath`, `NeverStuck`, `CompletedFrozen`, `EveryWalkEnds` | the abstract engine is right, and a person who keeps answering gets to an end |
| `MCTraining` | `TypeInv`, `HandlerFresh`, `ReplyIsStored`, `AnswersFormPath`, `ImplementsAttempt` | statements of two requests interleave and fail, and the tables change as if each operation were one step; stale reads are harmless; a version published during a start or a walk does not disturb it; replies show what is stored; a card never offers to continue an attempt it counts as completed (with its two queries the other way round it would); a claim that succeeds has left none of its rows behind, whatever held them |
| `MCTrainingLive` | `RequestsEnd` | every request ends; two claims of a guest that take its two sessions in different orders do wait for each other, and the deadlock detector ends that; no lock is kept |
| `MCSeeding` | `TypeOK`, `LastIsActive`, `SignalsOfOneRelease`, `SuccessMeansLoaded`, `ImplementsCatalog`, `LoadedStays`, `ValidFilesArrive`, `RunsEnd` | overlapping, dying seeders and new releases: the catalog never loses a scenario nor offers two versions, a loaded catalog is left alone, exit code 0 is earned, every run ends |
| `MCProgress` | `ResultsRight`, `BestIsBest`, `MasteryAgrees`, `ComparisonsChain`, `ProgressNeverShrinks` | what queries and code derive from the tables agrees, in every state of up to three sessions |
| `MCValidator` | `TypeOK`, `VerdictRight`, `GraphRight`, `AcceptedIsPlayable`, `ValidationEnds` | the validator is right in both directions on some seventeen hundred files, and its search from the start enters no code that the file does not have (`WithinFile`, part of `TypeOK`) |
| `MCLifecycle` | `TypeOK`, `ServesMigrated`, `CleanExit`, `StopEnds`, `ApiComesUp` | start, stop, outage, kill and a new image at any moment |
| `MCVisitors` | `TypeInv`, `Separate`, `KeepsSessions`, `ClosedStaysClosed` | two people with two requests under way, lost and late replies, failed claims, log outs, tokens that run out: sessions never change hands, none gets out of reach, nobody begins to act for a closed account |

Four runs end with a counterexample, each to one sentence of the repository:

| run | sentence | what the code does |
|---|---|---|
| `MCTrainingAbandoned` | an abandoned session takes no part in progress (`api/openapi.yaml:559`) | an answer read before an abandonment and saved after it completes the session |
| `MCAttemptCycle` | the graph of steps always ends (`Сase-analysis.md:834`) | an option may lead back; a session that comes to an answered step again stands there for ever |
| `MCSeedingOverlap` | seeding unchanged content creates no version (`cmd/seed/main.go:2`) | a second seeder that has read the old hash publishes the text once more |
| `MCLifecycleContent` | an error in one file does not block the whole catalog (`content.go:36`) | the seeder exits with 1 and the API is never started |

More differences came up and have no run, since each is one step long:
`Create` reads the session it collided with after the conflict, and a start
answers 404 when that session has ended in between (`session.go:82`);
`reachableFrom` follows options of terminal steps, which nobody is offered, so a
step behind them counts as reachable (`validation.go:287`); `validateOptions`
does not compare option codes and is not called for terminal steps, the tables
then refuse a file without issues and the load stops there (`validation.go:157`);
two files with one scenario code replace each other at every run
(`content.go:63`); a report with issues does not mean that nothing was loaded, as
`service.go:106` says; `Shutdown` waits for 10 s, `middleware.Timeout` lets a
request run for 30 s (`main.go:95`, `router.go:24`), so a stop may cut off a
request; `validateGraph` accepts a terminal start step; `ClaimByGuest` is one UPDATE
over all sessions of the guest, so if guest and account both have an unfinished
session of a scenario it fails and nothing moves, where its comment says that all
sessions do (`session.go:356`); when `Validate` fails, for a look-up that failed
too, `requireOwner` replaces the cookie of a guest who exists, where the contract
has a cookie set for a new guest (`middleware.go:197`, `openapi.yaml:361`), and the
sessions of the old one are out of reach; two anonymous first requests at a time
start two guests, of whom the browser keeps the one whose reply comes last;
`UserRepository.Create` is to return `ErrNicknameTaken` (`repository.go:24`) and
returns the error of the driver (`user.go:28`); a token whose look-up fails is
answered with 401, like a revoked one (`middleware.go:151`, `middleware.go:189`).

`KeepsSessions` takes the ways of losing a cookie out by its premise: a browser
is `orderly` until it has sent an anonymous request while it awaits a cookie, the
server has replaced its guest, or the cookie has run out (`middleware.go:208` gives
it the end of the guest). A session is within reach if its owner is the guest of the
browser's cookie or an account of the person, also while the browser sends a token and
the cookie is not looked at. Everything else, lost replies, failed claims,
log ins on top of a guest, is no reason to lose a session.

### Bounds

- `MCAttempt`, `MCTraining`: two sessions, one user, one guest, one scenario with
  three dialog steps and a terminal one (the least the validator accepts), with
  shortcuts, so that paths have one to three answers. Two sessions are what a
  restart, a claim conflict and a claim over several rows need; two handlers are what
  one race needs, and the proofs show that more add nothing. `MCTraining` has two
  versions with different starts and two of the three options. `MCTrainingLive` has
  one version and one option, since locks do not depend on where a walk leads; a guest
  has two sessions there, one of which has ended, so two claims of the guest can hold
  one each. A circle of claims of different guests for one account needs four sessions
  of two scenarios and stays with the theorem (`OnlyClaimsDeadlock`, for any number).
- `MCSeeding`: two seeders, two signals, two codes, three releases, three runs per
  release, one kill and one deployment. A release edits a file and has an invalid
  one before it; another has a file that the tables refuse. `MCSeedingOverlap` has
  two releases without faulty files. TLC does not look for deadlock here, since
  seeders stop when the runs are used up.
- `MCProgress`: three sessions, three instants, and two versions of a scenario, one
  that rewards right answers with longer attempts and one, after an edit, that
  entangles who is taken in; one signal on every step and one on a step that the
  edit changes, so that attempts differ in length, order and what they recognize.
- `MCValidator`: three steps, and files of one, two or four with a single rule
  broken; all link structures of two dialog steps and a terminal one that may have
  options; repeated and empty codes; dangling links. `MinDialogSteps` and
  `MaxDialogSteps` are constants, 3 and 8 in the code and 1 and 2 here: both limits
  are crossed, and cycles, diamonds and dead ends need no more than two dialog
  steps. Deadlock is off, since the validator ends.
- `MCLifecycle`: two requests for one connection, two pings, images with one to
  three migrations, two faults, two stops.
- `MCVisitors`: two browsers, nicknames, guests, sessions, tokens and requests under
  way, one scenario with one dialog step, four requests in all (`MaxSent`). Four is
  what the longest story needs: a start as a guest and a register sent at the same
  time, a start with the new token, and a log in whose claim fails on the conflict
  of the two sessions. Deadlock is
  off, since browsers need not send.

Symmetry is used for sessions, handlers, seeders, and in `MCVisitors` for everything
else that is only compared, in runs without liveness only. No action property or
refinement there tells permuted values apart.

### Fairness

- `Attempt`: `KeepsAnswering`, weak fairness of `Answer`: a premise about the person.
  `EveryWalkEnds` says what follows from it.
- `Training`: strong fairness of each handler's `Proceed`. A goroutine that can run
  does, and PostgreSQL queues the waiters of a lock in order; a lock that is free
  again and again is granted. No request has to arrive, none has to fail. `Proceed`
  includes the deadlock detector, which looks at every wait that lasts longer than
  `deadlock_timeout`.
- `Seeding`: weak fairness of `Step` and `Launch`: a process runs, and
  `restart: unless-stopped` starts it again, up to the bound of runs, which leaves
  room for a run after every kill and conflict.
- `Validator`: weak fairness of `Next`: a loop goes on.
- `Lifecycle`: weak fairness of the steps of the process and docker, of the return of
  the database, and of the end of each query, for `middleware.Timeout` cancels the
  context pgx works with. Nothing is assumed about handlers that hang elsewhere,
  about replies or about new requests.

## 5. The proofs

All are checked by tlapm without anything taken on trust, for every value of the
constants that satisfies the named assumptions of the modules. A theorem whose
property no run checks states something that only becomes interesting for many
actors or long histories; on two handlers or three steps TLC has little to add.

The liveness properties themselves are out of the prover's reach, but each rests on
a safety argument that is not, namely that no step leads back and nobody waits in a
circle. These halves are proved; what stays with TLC is that fairness then does
the rest.

| liveness | what is proved of it |
|---|---|
| `EveryWalkEnds` | `WalkBounded`: at most one answer for each dialog step; `NeverStuck`: an unfinished session can always be answered |
| `RequestsEnd` | `FewStatements` of `Training`: every statement brings a request nearer to its end; `OnlyClaimsDeadlock`: only claims get into circles, of one guest or for one account, which the database breaks |
| `RunsEnd` | `FewStatements` of `Seeding`; `NoCircle`: of any set of seeders one waits for none of the others |
| `ValidationEnds` | `IterationsAdvance`: every iteration gets to the next step, visits a new code or shortens the queue; `SearchesBounded`: there are only so many codes |
| `StopEnds` | `StopIsShort`: after the signal every step leads towards the exit; `NoNewWork`: what `Shutdown` waits for only gets less |

**AttemptProofs.** From `OwnersAssumption`, `SessionIdAssumption`,
`ContentAssumption` and `NoneIsNoStep`. The inductive invariant is `IInv`. Neither
scores nor paths are inductive alone: an answer extends a walk only if the session
stands at a dialog step of the version it is pinned to (`Standing`), and the sum
over the answers of a new session is zero only if no answer refers to an id that
is not there (`Stored`, the foreign key). Results: `TypeCorrect`, `OneActiveHolds`,
`ScoreIsSumHolds`, `AnswersFormPathHolds`, `CompletedFrozenHolds`, and
`RecordKeptHolds`: no action removes or rewrites an answer, takes a session off its
version or reopens it.

`NeverStuckHolds` has a hypothesis on the content, that no options lead back
(`NoWayBack`: of any dialog steps, one is left for good by each of its options). It is
needed, for the validator accepts cycles and `MCAttemptCycle` shows what they do. `ASSUME WaysBack` of `MCAttempt` has TLC check
that the contents `Forward` and `Reordered` of the runs satisfy it and `LeadsBack`
does not. The proof goes by the path: if a session stood at an answered step, the steps
from that answer on would be a set that each one has an option to stay in
(`BackAtAnswered`). `WalkBoundedHolds` needs no such hypothesis. A session has one
answer to a step (`AnsweredOnceHolds`), so its answers map one to one to the
dialog steps of the version, and there are no more of them (`FS_Injection`).

**TrainingProofs.** `HandlerFreshHolds` says why a stale read is harmless: as long
as the step a handler is about to answer has no answer, the session still stands
there and the position it has computed is the next one; once it has one, the
unique index refuses the INSERT. With what the locals of a handler say about the
tables this gives the invariant from which each statement is shown to be a step
of `Attempt` or to leave its variables alone: `Implementation`. `WalksHold` then
takes the path invariant of `Attempt` over to `Training` through the refinement,
with `INSTANCE AttemptProofs`. `ReplyIsStoredHolds` is about the replies. A
claim that succeeds has met each of its rows either as its guest's or as an account's.
For cards it rests on what may happen to a completed session between two statements:
it stays completed and the account's, so that the session found afterwards, which
is unfinished, is another one (`CardStable`).

In the same way the other results about `Attempt` are taken over to the statements:
`OneActiveHere`, `ScoreIsSumHere`, `NeverStuckHere`, `WalkBoundedHere`,
`CompletedFrozenHere`, `RecordKeptHere`. They are about what is committed, which is
what other requests see.

`OnlyClaimsDeadlockHolds` is about locks. An INSERT of an answer waits for an answer to
the same step, an UPDATE of a session for an answer or a claim that has its row, and an
answer that has its row waits for nobody; nobody waits for a start or an abandonment,
which are statements on one row, nor for an INSERT except with an INSERT that holds
nothing yet. So whoever is in a circle (`InCircle`: in every set that contains those it
waits for and is closed under waiting) is a claim. That the claims around it are of the
same guest or for the same account needs the invariant: no two transactions hold one row
(`RowsExclusive`) or make one entry (`EntriesExclusive`), so the rows a claim has taken are still its guest's
(`LockedRowsStay`). The refinement rests on the same facts: at `ClaimCommit` the rows
taken are as they were found, and nobody has made an entry in the index that this claim
has made before (`EntriesStay`). `FewStatementsHolds` counts down the statements a
request has left, six at most and two more for each row that a claim has to take, as
there are no retries.

**SeedingProofs.** From the assumptions on directories and bounds. The inductive
invariant is typing, `HistOK` (the versions of a code are numbered 1 to n, once
each, and exactly the last is active), what each seeder knows of the rows it has
read, and that at most one seeder is about to insert for a code (`OneInserts`, the
lock and the unique index). A commit then makes version n + 1 of n. Results:
`TypeCorrect`, `LastIsActiveHolds`, `LoadedStaysHolds` and the refinement of the
catalog, `SeedingImplementsCatalog`, for any number of seeders, kills and releases,
and `TakenOffForGoodHolds`: a version that was taken off stays off and none is
rewritten, so that a session may rely on the version it is pinned to.
Two results have hypotheses, and the code needs them: `SuccessMeansLoadedHolds` that
no two files of a directory share a code, `SignalsOfOneReleaseHolds` that the
releases list the same signals, for a batch never removes one.

`NoCircleHolds` is about any set of seeders. Whoever waits, waits for one that is
further on: with an INSERT for one that has made its own, with the UPDATE for one that
holds the row since its UPDATE, in the batch of signals for one that has got further
down the list (`WaitsBehind`, from the invariant `LocksOK`: no two hold the same signal,
and no row is held before the UPDATE). So one of the set that is furthest on waits for
none of the others; within the batches it exists since positions are natural numbers
(`LeastOf`). `FewStatementsHolds` counts the statements down.

**ProgressProofs.** On top of `AttemptProofs`, from `ThresholdsAssumption`,
`TimeAssumption` and `MarkedAssumption`. Percents: `RoundPercent` divides integers,
and the lemmas `Floor`, `Nearest`, `PercentBounds` and `PercentMonotone` show that
the result is the nearest integer, lies in 0..100 and grows with the share;
products are compared by `Multiples`, since the prover has no arithmetic for them.
`ResultsRightHolds` follows with the sums of `IInv`. `BestIsBestHolds` and
`ComparisonsChainHolds` need an attempt that no other one beats: `Unbeaten` finds it
in any finite set under a transitive, irreflexive relation, by well-foundedness of
proper subsets; that `score / answers` is transitive is `Shares`.
`MasteryAgreesHolds` turns the equality of two counts into one of sets.
`ProgressNeverShrinksHolds` uses that a completed attempt of an account keeps its
row (`HistoryKept`), and so does `DebriefFixedHolds`: the debrief of a completed
attempt is computed anew at each read, and it never differs, since the answers and
the pinned version stay. `ExtremesRightHolds` bounds the scale: all safe choices are 100
percent, all critical ones 0. `ProgressImplementsAttempt` (`PSpec => Spec`) makes all
of `AttemptProofs` available for the engine with its times.

**ValidatorProofs.** `GraphIsRight`: for any set of files the searches report
exactly the steps that options do not lead to and exactly the reached ones that
lead to no end. Reachability is defined by closed sets, without induction:
`ReachableBy(from, next)` is the intersection of all sets with `from` that are
closed under `next`. The invariant (`GraphInv`) says that what has been seen is
reachable and that what visited codes lead to is visited too or waits in the
queue; when the queue is empty, the visited codes with those that have no step are
a closed set, which is all that is needed. `VerdictIsRight` adds the rules about one
place (`RulesRight`; that three options with three outcomes are one for each is
`GridRule`) and that no step drops an issue. `AcceptedIsPlayableHolds` follows: if
from some code no offered options led to an end, the codes they do lead to would be
closed under all options, and the search would have found no end either.
`TypeCorrect` includes `WithinFile`: what the search
from the start visits or queues has a step, since the code follows an option only if the
map has its target. `SearchesBoundedHolds`: what waits to be visited are codes of the file or targets of
its options. `IterationsAdvanceHolds`: the loops go up a lexicographic order of stage,
step, codes visited, links left to follow and length of the queue.

**VisitorsProofs.** From the assumptions of `Attempt` and `VisitorsAssumption`, for
any number of people, browsers, tokens and requests. `Safe` adds to typing what a
request carries at each stage, that cookies, tokens and owners on the way belong to
the person behind the browser (`Personal`), and that a session stays with whoever
started it; it gives `SeparateHolds`, and `VisitorsImplementAttempt` hands the
results of `AttemptProofs` on. `KeepsSessionsHolds` needs `Orderly` on top: an
orderly browser awaits at most one cookie and then has none, and what it is about
to be told of will be within its reach by the time it is told.
`ClosedStaysClosedHolds` is an action property. A closed account is one all of whose
tokens are revoked or have run out; `Acting(u)` are the requests that were let in for it
before, and those of a guest that have checked a session which a claim has since given
to it. Unless somebody signs in, the account stays closed (`TokensClosed`), no request
begins to act for it (`ActingKept`), and its sessions change only by a step of a request
that does (`SessionsOfActing`). Such late changes do happen; they never come from a
request begun after the log out.
`HandedOnHolds` says of every step what may become of owners: a session is kept, with
who started it, and its owner changes from a guest to an account of the same person
or not at all; guests, accounts and tokens do not change hands; a token that was
refused once is refused ever after. `PersonalHolds` states the invariant by itself,
and `VisitorsKeepRecords` the results of `Attempt` for the tables behind the access
control.

**LifecycleProofs.** From `LifecycleAssumption`. `LifecycleInv` adds to the two
properties where each program can be, that requests exist only while the API
serves or ends, and that a clean close begins without any. Results: `TypeCorrect`,
`ServesMigratedHolds`, `CleanExitHolds`.

`ServesItsSchemaHolds` is stronger than `ServesMigrated`: whoever uses the database
finds exactly the schema of its image. It holds because `Up` brings newer images
only, the program ends before its image is replaced, and `goose up` is done before the
first query; with a roll back to an older image the code would not notice, since
`goose up` does nothing on a schema that is ahead. `StopIsShortHolds` and
`NoNewWorkHolds` have `StopInv` on top, which says where a program that has been
signalled can be.

## 6. Only model-checked

Every safety invariant and every action property of the runs is a theorem. What
remains are the liveness properties `EveryWalkEnds`, `RequestsEnd`, `RunsEnd`,
`ValidFilesArrive`, `ValidationEnds`, `StopEnds` and `ApiComesUp`, whose safety halves
are proved where section 5 says so, and the four counterexamples. Liveness under
fairness, `ENABLED` and induction over data are out of the prover's reach; no module
uses a `RECURSIVE` operator.

## 7. Not modelled

- Refresh tokens: their service, repository, handler and migration are missing. In
  `ClosedStaysClosed` an account is closed until somebody signs in or, in the
  program, presents a refresh token.
- The list of the catalog by role, texts of cards and debriefs, and the reference of
  risk signals: reads that change nothing and that no other state depends on.
- Parsing of parameters and bodies, JSON, probes, logging, metrics: conversions and
  observability without state of their own.
- Configuration: its limits appear as assumptions of `Scoring` and as constants.
- The frontend and the infrastructure besides the container of the backend.
- Time: instants are only compared; timeouts may fire at any moment. Sessions do
  not expire in the code at hand.
- Serialization failures and other errors of PostgreSQL beyond broken
  connections, unique violations and refused constraints.
