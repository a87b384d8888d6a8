------------------------------ MODULE Seeding ------------------------------
(***************************************************************************)
(* Loading the content (cmd/seed, service/content.go, the Upsert of the    *)
(* scenario and risk signal repositories).  The container runs the seeder  *)
(* each time it starts, before the API, and `make seed` runs another one   *)
(* in the live container: seeders of one content directory run at the same *)
(* time, are killed and run again.  A new image replaces the directory.    *)
(*                                                                         *)
(* The risk signals go out as one batch, which PostgreSQL runs as one      *)
(* implicit transaction.  Then each scenario file has a READ COMMITTED     *)
(* transaction of its own: two reads, the UPDATE that takes the active     *)
(* version off, the INSERT of the next one, its steps, COMMIT.             *)
(* Between them other seeders run; what a transaction wrote shows up for   *)
(* others only as locks until it commits.                                  *)
(***************************************************************************)
EXTENDS Naturals, FiniteSets, Sequences, FiniteSetsExt

CONSTANTS
  Seeder,       \* seeder processes
  Signal,       \* risk signal codes
  Code, Text,   \* scenario codes; contents of files (the hash tells them apart)
  Release,      \* images; Dir[d] is the content directory of image d
  Dir,
  FirstRelease,
  MaxRuns,      \* bounds how often seeders are run between two deployments
  MaxKills,     \* bounds how often a running seeder is killed
  MaxDeploys    \* bounds how often an image is replaced

(* What becomes of a file: it is stored, the validator (or the JSON parser)*)
(* reports issues, or a constraint of the tables refuses what the validator*)
(* let through.                                                            *)
Verdict == {"valid", "invalid", "unstorable"}

File == [code: Code, text: Text, verdict: Verdict]

ASSUME DirAssumption ==
  /\ FirstRelease \in Release
  /\ \A d \in Release : Dir[d].signals \in Seq(Signal) /\ Dir[d].files \in Seq(File)

ASSUME BoundsAssumption == MaxRuns \in Nat /\ MaxKills \in Nat /\ MaxDeploys \in Nat

VARIABLES
  scenarios,    \* committed rows of the table scenarios
  signals,      \* rows of risk_signals: signals[g] is the release the text is from
  disk,         \* the release whose image is deployed
  pc,           \* pc[k]: the statement seeder k issues next
  loc,          \* loc[k]: its locals and its report
  count         \* runs, kills and deployments so far, for the bounds

vars == <<scenarios, signals, disk, pc, loc, count>>

tables == <<scenarios, signals>>

Row == [code: Code, version: Nat \ {0}, text: Text, active: BOOLEAN]

Upserting == {"max", "unpublish", "lock", "insert", "steps", "commit"}

Local == [next: Nat, max: Nat, target: Nat, held: Nat,
          created: SUBSET Code, updated: SUBSET Code, skipped: SUBSET Code,
          issues: SUBSET Nat]

NoLocal == [next |-> 1, max |-> 0, target |-> 0, held |-> 0,
            created |-> {}, updated |-> {}, skipped |-> {}, issues |-> {}]

TypeOK ==
  /\ scenarios \subseteq Row
  /\ signals \in [Signal -> Release \cup {"none"}]
  /\ disk \in Release
  /\ pc \in [Seeder -> {"off", "done", "failed", "signals", "file"} \cup Upserting]
  /\ loc \in [Seeder -> Local]
  /\ count \in [runs: 0..MaxRuns, kills: 0..MaxKills, deploys: 0..MaxDeploys]

Init ==
  /\ scenarios = {}
  /\ signals = [g \in Signal |-> "none"]
  /\ pc = [k \in Seeder |-> "off"]
  /\ loc = [k \in Seeder |-> NoLocal]
  /\ disk = FirstRelease
  /\ count = [runs |-> 0, kills |-> 0, deploys |-> 0]

-----------------------------------------------------------------------------
Versions(c) == {r \in scenarios : r.code = c}

Active(c) == {r \in Versions(c) : r.active}

(* SELECT COALESCE(MAX(version), 0)                                        *)
MaxVersion(c) == Max({r.version : r \in Versions(c)} \cup {0})

Signals == Dir[disk].signals

Files == Dir[disk].files

FileOf(k) == Files[loc[k].next]

Goto(k, to) == pc' = [pc EXCEPT ![k] = to]

Set(k, l) == loc' = [loc EXCEPT ![k] = l]

(* The transaction, if any, is rolled back and the process exits with 1.   *)
Exit(k, l) == Goto(k, "failed") /\ Set(k, l)

(* The next file, with the report so far.                                  *)
NextFile(k, report) ==
  /\ Goto(k, "file")
  /\ Set(k, [report EXCEPT !.next = @ + 1, !.max = 0, !.target = 0, !.held = 0])

-----------------------------------------------------------------------------
Stopped(k) == pc[k] \in {"off", "done", "failed"}

(* The process is started: by the container, by its restart policy, by     *)
(* hand.                                                                   *)
Launch(k) ==
  /\ Stopped(k)
  /\ count.runs < MaxRuns
  /\ count' = [count EXCEPT !.runs = @ + 1]
  /\ Goto(k, "signals")
  /\ Set(k, NoLocal)
  /\ UNCHANGED <<tables, disk>>

(* Another image, with another content directory; no seeder survives the   *)
(* old one.                                                                *)
Deploy(d) ==
  /\ d # disk
  /\ \A k \in Seeder : Stopped(k)
  /\ count.deploys < MaxDeploys
  /\ count' = [count EXCEPT !.deploys = @ + 1, !.runs = 0]
  /\ disk' = d
  /\ pc' = [k \in Seeder |-> "off"]
  /\ loc' = [k \in Seeder |-> NoLocal]
  /\ UNCHANGED tables

(* Broken variant: the batch of a killed seeder is not rolled back.        *)
HeldByFailed(k) ==
  IF pc[k] \in {"signals", "failed"} THEN {Signals[i] : i \in 1..loc[k].next - 1} ELSE {}

(* The signals the open batch of seeder k has written, and holds.          *)
HeldSignals(k) ==
  IF pc[k] = "signals" THEN {Signals[i] : i \in 1..loc[k].next - 1} ELSE {}

(* Seeder k waits for a row that the batch of seeder j holds.              *)
WaitsFor(k, j) ==
  /\ j # k /\ pc[k] = "signals"
  /\ loc[k].next <= Len(Signals)
  /\ Signals[loc[k].next] \in HeldSignals(j)

(* Broken variant: each statement of the batch is committed by itself.     *)
UpsertSignalAlone(k) ==
  /\ pc[k] = "signals"
  /\ loc[k].next <= Len(Signals)
  /\ Set(k, [loc[k] EXCEPT !.next = @ + 1])
  /\ signals' = [signals EXCEPT ![Signals[loc[k].next]] = disk]
  /\ UNCHANGED <<scenarios, pc>>

(* INSERT ... ON CONFLICT (code) DO UPDATE, one statement of the batch.    *)
UpsertSignal(k) ==
  /\ pc[k] = "signals"
  /\ loc[k].next <= Len(Signals)
  /\ \A j \in Seeder : ~WaitsFor(k, j)
  /\ Set(k, [loc[k] EXCEPT !.next = @ + 1])
  /\ UNCHANGED <<tables, pc>>

CommitSignals(k) ==
  /\ pc[k] = "signals"
  /\ loc[k].next > Len(Signals)
  /\ signals' = [g \in Signal |-> IF g \in HeldSignals(k) THEN disk ELSE signals[g]]
  /\ Goto(k, "file")
  /\ Set(k, NoLocal)
  /\ UNCHANGED scenarios

-----------------------------------------------------------------------------
AtFile(k) == pc[k] = "file" /\ loc[k].next <= Len(Files)

(* Broken variant: an invalid file leaves no trace in the report.          *)
RejectFileSilently(k) ==
  /\ AtFile(k)
  /\ FileOf(k).verdict = "invalid"
  /\ NextFile(k, loc[k])
  /\ UNCHANGED tables

(* Broken variant: the first file with issues ends the load.               *)
RejectFileStops(k) == AtFile(k) /\ FileOf(k).verdict = "invalid" /\ Exit(k, loc[k]) /\ UNCHANGED tables

(* A file with issues is reported and the load goes on.                    *)
RejectFile(k) ==
  /\ AtFile(k)
  /\ FileOf(k).verdict = "invalid"
  /\ NextFile(k, [loc[k] EXCEPT !.issues = @ \cup {loc[k].next}])
  /\ UNCHANGED tables

(* Broken variant: the hash is not compared.                               *)
ReadActiveNoHash(k) ==
  /\ AtFile(k)
  /\ FileOf(k).verdict # "invalid"
  /\ Goto(k, "max")
  /\ UNCHANGED <<loc, tables>>

(* Upsert, first SELECT: unchanged content ends the transaction.           *)
ReadActive(k) ==
  /\ AtFile(k)
  /\ FileOf(k).verdict # "invalid"
  /\ LET f == FileOf(k)
     IN  IF \E r \in Active(f.code) : r.text = f.text
           THEN NextFile(k, [loc[k] EXCEPT !.skipped = @ \cup {f.code}])
           ELSE Goto(k, "max") /\ UNCHANGED loc
  /\ UNCHANGED tables

(* Second SELECT.                                                          *)
ReadMax(k) ==
  /\ pc[k] = "max"
  /\ Goto(k, "unpublish")
  /\ Set(k, [loc[k] EXCEPT !.max = MaxVersion(FileOf(k).code)])
  /\ UNCHANGED tables

(* UPDATE ... SET is_active = FALSE: finds the active row in its snapshot. *)
Unpublish(k) ==
  /\ pc[k] = "unpublish"
  /\ Goto(k, "lock")
  /\ Set(k, [loc[k] EXCEPT !.target = Max({r.version : r \in Active(FileOf(k).code)} \cup {0})])
  /\ UNCHANGED tables

(* Seeder j holds the row that the UPDATE of seeder k is after.            *)
RowHeld(k, j) ==
  /\ pc[j] \in Upserting /\ loc[j].held # 0
  /\ <<FileOf(j).code, loc[j].held>> = <<FileOf(k).code, loc[k].target>>

(* The same UPDATE locks the row, once no other transaction holds it, and  *)
(* looks again: a row that is no longer active is passed over.             *)
Lock(k) ==
  LET c == FileOf(k).code
      t == loc[k].target
  IN  /\ pc[k] = "lock"
      /\ \A j \in Seeder \ {k} : ~RowHeld(k, j)
      /\ Goto(k, "insert")
      /\ Set(k, [loc[k] EXCEPT !.held =
                   IF \E r \in Active(c) : r.version = t THEN t ELSE 0])
      /\ UNCHANGED tables

(* The transaction of seeder j has inserted a version of the scenario of k.*)
KeysHeld(k, j) == pc[j] \in {"steps", "commit"} /\ FileOf(j).code = FileOf(k).code

InsertPending(k) == \E j \in Seeder \ {k} : KeysHeld(k, j)

(* Broken variant: there is no unique index.                               *)
NoConflict(k) == FALSE

(* UNIQUE (code, version) and scenarios_active_code_idx.                   *)
InsertConflict(k) ==
  \E r \in Versions(FileOf(k).code) :
    r.version = loc[k].max + 1 \/ (r.active /\ r.version # loc[k].held)

(* INSERT INTO scenarios: waits for another transaction on its keys, then  *)
(* fails if it committed.                                                  *)
InsertVersion(k) ==
  /\ pc[k] = "insert"
  /\ ~InsertPending(k)
  /\ IF InsertConflict(k) THEN Exit(k, loc[k])
                          ELSE Goto(k, "steps") /\ UNCHANGED loc
  /\ UNCHANGED tables

(* INSERT INTO steps, options: a constraint may refuse one of them.        *)
InsertSteps(k) ==
  /\ pc[k] = "steps"
  /\ IF FileOf(k).verdict = "unstorable" THEN Exit(k, loc[k])
                                         ELSE Goto(k, "commit") /\ UNCHANGED loc
  /\ UNCHANGED tables

(* Broken variants: versions are numbered from 0; the row of the active    *)
(* version is rewritten.                                                   *)
CommitFromZero(k) ==
  LET f == FileOf(k)
  IN  /\ pc[k] = "commit"
      /\ scenarios' = scenarios \cup {[code |-> f.code, version |-> loc[k].max,
                                       text |-> f.text, active |-> TRUE]}
      /\ NextFile(k, loc[k])
      /\ UNCHANGED signals

CommitInPlace(k) ==
  LET f == FileOf(k)
  IN  /\ pc[k] = "commit"
      /\ scenarios' =
           (scenarios \ Active(f.code))
             \cup {[code |-> f.code, version |-> Max({loc[k].held, 1}),
                    text |-> f.text, active |-> TRUE]}
      /\ NextFile(k, [loc[k] EXCEPT !.updated = @ \cup {f.code}])
      /\ UNCHANGED signals

(* COMMIT: the version that was active is off, the new one is on.          *)
Commit(k) ==
  LET f == FileOf(k)
      l == loc[k]
      v == l.max + 1
  IN  /\ pc[k] = "commit"
      /\ scenarios' =
           {IF r.code = f.code /\ r.version = l.held THEN [r EXCEPT !.active = FALSE] ELSE r
              : r \in scenarios}
             \cup {[code |-> f.code, version |-> v, text |-> f.text, active |-> TRUE]}
      /\ NextFile(k, IF v = 1 THEN [l EXCEPT !.created = @ \cup {f.code}]
                              ELSE [l EXCEPT !.updated = @ \cup {f.code}])
      /\ UNCHANGED signals

(* All files are through: exit 0, or 1 when a file had issues.             *)
Finish(k) ==
  /\ pc[k] = "file" /\ loc[k].next > Len(Files)
  /\ IF loc[k].issues = {} THEN Goto(k, "done") /\ UNCHANGED loc ELSE Exit(k, loc[k])
  /\ UNCHANGED tables

(* SIGTERM, a lost connection, a power cut.                                *)
Kill(k) ==
  /\ ~Stopped(k)
  /\ count.kills < MaxKills
  /\ count' = [count EXCEPT !.kills = @ + 1]
  /\ Exit(k, loc[k])
  /\ UNCHANGED <<tables, disk>>

Step(k) ==
  /\ \/ UpsertSignal(k) \/ CommitSignals(k)
     \/ RejectFile(k) \/ ReadActive(k) \/ ReadMax(k) \/ Unpublish(k) \/ Lock(k)
     \/ InsertVersion(k) \/ InsertSteps(k) \/ Commit(k) \/ Finish(k)
  /\ UNCHANGED <<disk, count>>

Next ==
  \/ \E k \in Seeder : Launch(k) \/ Step(k) \/ Kill(k)
  \/ \E d \in Release : Deploy(d)

Spec == Init /\ [][Next]_vars

(* A running seeder goes on; one that failed is run again (restart:        *)
(* unless-stopped).                                                        *)
FairSpec ==
  /\ Spec
  /\ \A k \in Seeder : WF_vars(Step(k)) /\ WF_vars(Launch(k))

-----------------------------------------------------------------------------
(* Safety.                                                                 *)

(* Whatever seeders interleave, fail or are killed, the versions of a      *)
(* scenario are numbered without gaps and exactly the last one is active:  *)
(* the catalog never loses a scenario nor offers two versions of it.       *)
LastIsActive ==
  \A c \in Code :
    /\ {r.version : r \in Versions(c)} = 1..Cardinality(Versions(c))
    /\ {r.version : r \in Active(c)} = {MaxVersion(c)} \ {0}

Published == [c \in Code |->
                [v \in 1..Cardinality(Versions(c)) |->
                   (CHOOSE r \in Versions(c) : r.version = v).text]]

Loading == INSTANCE Catalog WITH published <- Published

(* Committed versions are never rewritten, renumbered or removed (FR32): a *)
(* session may rely on the version it is pinned to.                        *)
ImplementsCatalog == Loading!Spec

(* The texts of the risk signals are those of one release, not a mixture,  *)
(* even if a seeder is killed (for releases with the same signals).        *)
SignalsOfOneRelease == Cardinality({signals[g] : g \in Signal}) = 1

(* Does the catalog show the directory?                                    *)
Loaded ==
  \A i \in 1..Len(Files) : \E r \in Active(Files[i].code) : r.text = Files[i].text

(* Exit code 0 means that the catalog shows the directory: no file, valid  *)
(* or not, has silently dropped out.                                       *)
SuccessMeansLoaded == (\E k \in Seeder : pc[k] = "done") => Loaded

(* When the catalog shows the directory and no seeder is midway through a  *)
(* file, the seeders of this directory, however many run, overlap and are  *)
(* killed, leave it alone for good (FR32).                                 *)
Settled == Loaded /\ \A k \in Seeder : pc[k] \notin Upserting

LoadedStays ==
  [][Settled => disk' # disk \/ (scenarios' = scenarios /\ Settled')]_vars

(* A version that was taken off is never on offer again, and no version    *)
(* changes its text: going back to an old text makes a version of its own. *)
TakenOffForGood ==
  [][\A r \in scenarios, q \in scenarios' :
       q.code = r.code /\ q.version = r.version =>
         q.text = r.text /\ (q.active => r.active)]_vars

(* What seeder k waits for: a signal, the row of the active version, the   *)
(* keys of the next version.                                               *)
Waits(k, j) ==
  /\ j # k
  /\ \/ WaitsFor(k, j)
     \/ pc[k] = "lock" /\ RowHeld(k, j)
     \/ pc[k] = "insert" /\ KeysHeld(k, j)

(* Seeders never wait for each other in a circle, whatever the order of    *)
(* the signals and files: of any of them, one waits for none of the others.*)
NoCircle ==
  \A K \in SUBSET Seeder : K # {} => \E k \in K : \A j \in K : ~Waits(k, j)

(* The statements seeder k has left at most, without what it waits for.    *)
Turn == [file |-> 7, max |-> 6, unpublish |-> 5, lock |-> 4, insert |-> 3, steps |-> 2,
         commit |-> 1]

StatementsLeft(k) ==
  IF Stopped(k) THEN 0
  ELSE IF pc[k] = "signals"
    THEN Len(Signals) + 2 - loc[k].next + 7 * (Len(Files) + 1)
    ELSE 7 * (Len(Files) + 1 - loc[k].next) + Turn[pc[k]]

(* A run ends after so many statements, or before: none makes it start a   *)
(* file again or go back in a transaction.                                 *)
FewStatements ==
  [][\A k \in Seeder :
       ~Stopped(k) => UNCHANGED <<pc[k], loc[k]>>
                      \/ StatementsLeft(k)' \in 0..StatementsLeft(k) - 1]_vars

(* Once a seeder has succeeded, seeding the same content again creates no  *)
(* version.                                                                *)
Idempotent ==
  [][(\E k \in Seeder : pc[k] = "done") => scenarios' = scenarios]_vars

-----------------------------------------------------------------------------
(* Liveness.                                                               *)

(* An error in one file does not block the others: every valid file of the *)
(* directory is on offer eventually, although seeders are killed midway,   *)
(* unless a file the tables refuse ends every run before it.               *)
ValidFilesArrive ==
  \A d \in Release : \A i \in 1..Len(Dir[d].files) :
    LET f == Dir[d].files[i]
    IN  /\ f.verdict = "valid"
        /\ \A j \in 1..i - 1 : Dir[d].files[j].verdict # "unstorable"
        => (disk = d ~> (disk # d \/ \E r \in Active(f.code) : r.text = f.text))

(* Every run ends: seeders of one directory take their locks in one order, *)
(* and none keeps a lock when it fails.                                    *)
RunsEnd == \A k \in Seeder : ~Stopped(k) ~> Stopped(k)

=============================================================================
