--------------------------- MODULE SeedingProofs ---------------------------
(***************************************************************************)
(* Proofs about Seeding, for any number of seeders, releases, scenarios    *)
(* and texts: however seeders overlap, fail and are killed, the versions   *)
(* of a scenario are numbered without gaps and the last one is on offer.   *)
(***************************************************************************)
EXTENDS Seeding, FiniteSetTheorems, SequenceTheorems, WellFoundedInduction, TLAPS

-----------------------------------------------------------------------------
(* The rows are the versions from 1 to n of a scenario, and version n is   *)
(* active.                                                                 *)
Numbered(rows, n) ==
  /\ n \in Nat
  /\ \A v \in 1..n : \E r \in rows : r.version = v
  /\ \A r \in rows : r.version \in 1..n
  /\ \A r \in rows : r.active = (r.version = n)
  /\ \A r, q \in rows : r.version = q.version => r = q

Hist(c, n) == Numbered(Versions(c), n)

HistOK == \A c \in Code : \E n \in Nat : Hist(c, n)

(* What a seeder that is at a statement has read, when n is the last       *)
(* version of its scenario: an old maximum at most, and the very last one, *)
(* with its row locked, once the INSERT has passed the unique indexes.     *)
Prepared(at, l, n) ==
  /\ at \in {"unpublish", "lock", "insert"} => l.max <= n
  /\ at \in {"steps", "commit"} => l.max = n /\ (n # 0 => l.held = n)

SeederOK(at, l) ==
  /\ l.next # 0
  /\ at \in Upserting =>
       /\ l.next <= Len(Files)
       /\ \A n \in Nat : Hist(Files[l.next].code, n) => Prepared(at, l, n)

SeedersOK == \A k \in Seeder : SeederOK(pc[k], loc[k])

(* Two transactions never have a version of one scenario inserted.         *)
Inserted(k) == pc[k] \in {"steps", "commit"}

OneInserts ==
  \A j, k \in Seeder :
    Inserted(j) /\ Inserted(k) /\ FileOf(j).code = FileOf(k).code => j = k

IInv == TypeOK /\ HistOK /\ SeedersOK /\ OneInserts

Place == {"off", "done", "failed", "signals", "file"} \cup Upserting

Counts == [runs: 0..MaxRuns, kills: 0..MaxKills, deploys: 0..MaxDeploys]

-----------------------------------------------------------------------------
(* Consequences of Hist.                                                   *)

(* The greatest of a set of numbers is its only upper bound in it.         *)
LEMMA MaxIs ==
  ASSUME NEW S \in SUBSET Nat, NEW m \in S, \A x \in S : x <= m
  PROVE  Max(S) = m
  <1>1. \A y \in S : m >= y
    OBVIOUS
  <1> DEFINE top == CHOOSE x \in S : \A y \in S : x >= y
  <1>2. top \in S /\ \A y \in S : top >= y
    BY <1>1
  <1> HIDE DEF top
  <1>3. top = m
    BY <1>2
  <1> QED BY <1>3 DEF Max, top

LEMMA NumberedOnce ==
  ASSUME NEW rows, NEW n, NEW m, Numbered(rows, n), Numbered(rows, m)
  PROVE  n = m
  <1>1. n \in Nat /\ m \in Nat
    BY DEF Numbered
  <1>2. \A v \in 1..n : v \in 1..m
    BY DEF Numbered
  <1>3. \A v \in 1..m : v \in 1..n
    BY DEF Numbered
  <1> QED BY <1>1, <1>2, <1>3

LEMMA NumberedMax ==
  ASSUME NEW rows, NEW n, Numbered(rows, n)
  PROVE  LET all == {r.version : r \in rows}
             on  == {r.version : r \in {q \in rows : q.active}}
         IN  /\ all = 1..n /\ Max(all \cup {0}) = n
             /\ on = {n} \ {0} /\ Max(on \cup {0}) = n
  <1> DEFINE all == {r.version : r \in rows}
             on  == {r.version : r \in {q \in rows : q.active}}
  <1>1. n \in Nat
    BY DEF Numbered
  <1>2. all = 1..n
    BY DEF Numbered
  <1>3. on = {n} \ {0}
    <2>1. \A r \in {q \in rows : q.active} : r.version = n /\ r.version \in 1..n
      BY DEF Numbered
    <2>2. ASSUME n # 0
          PROVE  n \in on
      <3>1. PICK r \in rows : r.version = n
        BY <1>1, <2>2 DEF Numbered
      <3>2. r.active = (r.version = n)
        BY DEF Numbered
      <3> QED BY <3>1, <3>2
    <2> QED BY <1>1, <2>1, <2>2
  <1>4. Max(all \cup {0}) = n
    <2> HIDE DEF all
    <2>1. n \in all \cup {0} /\ all \cup {0} \in SUBSET Nat /\ \A x \in all \cup {0} : x <= n
      BY <1>1, <1>2
    <2> QED BY <2>1, MaxIs
  <1>5. Max(on \cup {0}) = n
    <2> HIDE DEF on
    <2>1. n \in on \cup {0} /\ on \cup {0} \in SUBSET Nat /\ \A x \in on \cup {0} : x <= n
      BY <1>1, <1>3
    <2> QED BY <2>1, MaxIs
  <1> QED BY <1>2, <1>3, <1>4, <1>5

LEMMA NumberedCardinality ==
  ASSUME NEW rows, NEW n, Numbered(rows, n)
  PROVE  Cardinality(rows) = n
  <1> DEFINE f == [v \in 1..n |-> CHOOSE r \in rows : r.version = v]
  <1>1. \A v \in 1..n : f[v] \in rows /\ f[v].version = v
    BY DEF Numbered
  <1>2. \A r \in rows : r.version \in 1..n /\ f[r.version] = r
    BY <1>1 DEF Numbered
  <1>3. f \in [1..n -> rows]
    BY <1>1
  <1> HIDE DEF f
  <1>4. f \in Bijection(1..n, rows)
    BY <1>1, <1>2, <1>3 DEF Bijection, Injection, Surjection, IsInjective
  <1>5. n \in Nat /\ ExistsBijection(1..n, rows)
    BY <1>4 DEF Numbered, ExistsBijection
  <1> QED BY <1>5, FS_CountingElements

(* The aggregate of the second SELECT, and the row the UPDATE finds.       *)
LEMMA HistMax ==
  ASSUME NEW c, NEW n, Hist(c, n)
  PROVE  /\ MaxVersion(c) = n
         /\ Max({r.version : r \in Active(c)} \cup {0}) = n
         /\ {r.version : r \in Active(c)} = {n} \ {0}
         /\ {r.version : r \in Versions(c)} = 1..n
         /\ Cardinality(Versions(c)) = n
  BY NumberedMax, NumberedCardinality DEF Hist, MaxVersion, Active

-----------------------------------------------------------------------------
(* All statements but COMMIT change nothing but the place and the locals   *)
(* of one seeder, or the signals.                                          *)
Moves(k, to, l) ==
  /\ pc' = [pc EXCEPT ![k] = to]
  /\ loc' = [loc EXCEPT ![k] = l]

LEMMA MovesTo ==
  ASSUME IInv, NEW k \in Seeder, NEW to \in Place, NEW l \in Local, Moves(k, to, l)
  PROVE  /\ pc' \in [Seeder -> Place] /\ loc' \in [Seeder -> Local]
         /\ pc'[k] = to /\ loc'[k] = l
         /\ \A j \in Seeder \ {k} : pc'[j] = pc[j] /\ loc'[j] = loc[j]
  BY DEF IInv, TypeOK, Moves, Place

LEMMA SameRows ==
  ASSUME UNCHANGED scenarios
  PROVE  /\ \A c : Versions(c)' = Versions(c)
         /\ \A c : Active(c)' = Active(c)
         /\ \A c, n : Hist(c, n)' <=> Hist(c, n)
  BY DEF Versions, Active, Hist

LEMMA StatementOK ==
  ASSUME IInv, NEW k \in Seeder, NEW to \in Place, NEW l \in Local, Moves(k, to, l),
         UNCHANGED <<scenarios, disk>>,
         signals' \in [Signal -> Release \cup {"none"}], count' \in Counts,
         SeederOK(to, l),
         to \in {"steps", "commit"} =>
           \A j \in Seeder \ {k} : Inserted(j) => FileOf(j).code # Files[l.next].code
  PROVE  IInv'
  <1>1. /\ pc' \in [Seeder -> Place] /\ loc' \in [Seeder -> Local]
        /\ pc'[k] = to /\ loc'[k] = l
        /\ \A j \in Seeder \ {k} : pc'[j] = pc[j] /\ loc'[j] = loc[j]
    BY MovesTo
  <1>2. Files' = Files
    BY DEF Files
  <1>3. TypeOK'
    BY <1>1 DEF IInv, TypeOK, Place, Counts
  <1>4. HistOK'
    BY SameRows DEF IInv, HistOK
  <1>5. SeedersOK'
    <2>1. ASSUME NEW j \in Seeder
          PROVE  SeederOK(pc[j], loc[j])'
      <3>1. SeederOK(pc'[j], loc'[j])
        BY <1>1 DEF IInv, SeedersOK
      <3> QED BY <3>1, <1>2, SameRows DEF SeederOK, Prepared
    <2> QED BY <2>1 DEF SeedersOK
  <1>6. OneInserts'
    <2>1. \A j \in Seeder \ {k} : FileOf(j)' = FileOf(j) /\ (Inserted(j)' <=> Inserted(j))
      BY <1>1, <1>2 DEF FileOf, Inserted
    <2>2. FileOf(k)' = Files[l.next] /\ (Inserted(k)' => to \in {"steps", "commit"})
      BY <1>1, <1>2 DEF FileOf, Inserted
    <2>3. ASSUME NEW j \in Seeder, NEW i \in Seeder, Inserted(j)', Inserted(i)',
                 FileOf(j)'.code = FileOf(i)'.code
          PROVE  j = i
      BY <2>1, <2>2, <2>3 DEF IInv, OneInserts
    <2> QED BY <2>3 DEF OneInserts
  <1> QED BY <1>3, <1>4, <1>5, <1>6 DEF IInv

LEMMA DirOK ==
  ASSUME IInv
  PROVE  /\ Signals \in Seq(Signal) /\ Files \in Seq(File)
         /\ Len(Signals) \in Nat /\ Len(Files) \in Nat
         /\ \A i \in 1..Len(Signals) : Signals[i] \in Signal
         /\ \A i \in 1..Len(Files) : Files[i] \in File /\ Files[i].code \in Code
  <1>1. Signals \in Seq(Signal) /\ Files \in Seq(File)
    BY DirAssumption DEF IInv, TypeOK, Signals, Files
  <1>2. \A i \in 1..Len(Files) : Files[i] \in File
    BY <1>1, ElementOfSeq
  <1> QED BY <1>1, <1>2, ElementOfSeq, LenProperties DEF File

LEMMA SeederIn ==
  ASSUME IInv, NEW k \in Seeder
  PROVE  /\ pc[k] \in Place /\ loc[k] \in Local /\ loc[k].next \in Nat \ {0}
         /\ SeederOK(pc[k], loc[k])
         /\ pc[k] \in Upserting \/ AtFile(k) =>
              loc[k].next \in 1..Len(Files) /\ FileOf(k) = Files[loc[k].next]
              /\ FileOf(k) \in File /\ FileOf(k).code \in Code
         /\ signals \in [Signal -> Release \cup {"none"}] /\ count \in Counts
  <1>1. /\ pc[k] \in Place /\ loc[k] \in Local /\ SeederOK(pc[k], loc[k])
        /\ signals \in [Signal -> Release \cup {"none"}] /\ count \in Counts
    BY DEF IInv, TypeOK, SeedersOK, Place, Counts
  <1>2. loc[k].next \in Nat \ {0}
    BY <1>1 DEF SeederOK, Local
  <1>3. pc[k] \in Upserting \/ AtFile(k) => loc[k].next \in 1..Len(Files)
    BY <1>1, <1>2, DirOK DEF SeederOK, AtFile
  <1> QED BY <1>1, <1>2, <1>3, DirOK DEF FileOf

LEMMA NoLocalOK == NoLocal \in Local /\ NoLocal.next = 1
  BY DEF NoLocal, Local

(* Without an open transaction the next number is all that matters.        *)
LEMMA OutsideOK ==
  ASSUME IInv, NEW k \in Seeder, NEW to \in Place \ Upserting, NEW l \in Local,
         l.next # 0, Moves(k, to, l), UNCHANGED <<scenarios, disk>>,
         signals' \in [Signal -> Release \cup {"none"}], count' \in Counts
  PROVE  IInv'
  <1>1. SeederOK(to, l) /\ to \notin {"steps", "commit"}
    BY DEF SeederOK, Upserting
  <1> QED BY <1>1, StatementOK

LEMMA ExitOK ==
  ASSUME IInv, NEW k \in Seeder, Exit(k, loc[k]), UNCHANGED <<tables, disk>>,
         count' \in Counts
  PROVE  IInv'
  <1>1. Moves(k, "failed", loc[k])
    BY DEF Exit, Goto, Set, Moves
  <1>2. "failed" \in Place \ Upserting
    BY DEF Place, Upserting
  <1> QED BY <1>1, <1>2, SeederIn, OutsideOK DEF tables

LEMMA NextFileOK ==
  ASSUME IInv, NEW k \in Seeder, NEW report \in Local, NextFile(k, report),
         UNCHANGED <<tables, disk, count>>
  PROVE  IInv'
  <1> DEFINE l == [report EXCEPT !.next = @ + 1, !.max = 0, !.target = 0, !.held = 0]
  <1>1. l \in Local /\ l.next # 0
    <2>1. report.next + 1 \in Nat \ {0}
      BY DEF Local
    <2>2. l.next = report.next + 1
      BY DEF Local
    <2>3. l \in Local
      BY <2>1 DEF Local
    <2> QED BY <2>1, <2>2, <2>3
  <1>2. Moves(k, "file", l)
    BY DEF NextFile, Goto, Set, Moves
  <1>3. "file" \in Place \ Upserting
    BY DEF Place, Upserting
  <1> HIDE DEF l
  <1> QED BY <1>1, <1>2, <1>3, SeederIn, OutsideOK DEF tables

LEMMA LaunchOK ==
  ASSUME IInv, NEW k \in Seeder, Launch(k)
  PROVE  IInv'
  <1>1. Moves(k, "signals", NoLocal) /\ UNCHANGED <<tables, disk>>
    BY DEF Launch, Goto, Set, Moves
  <1>2. count' \in Counts
    <2>1. count \in Counts /\ count.runs < MaxRuns /\ count' = [count EXCEPT !.runs = @ + 1]
      BY SeederIn DEF Launch
    <2>2. count.runs + 1 \in 0..MaxRuns
      BY <2>1, BoundsAssumption DEF Counts
    <2> QED BY <2>1, <2>2 DEF Counts
  <1>3. "signals" \in Place \ Upserting
    BY DEF Place, Upserting
  <1> QED BY <1>1, <1>2, <1>3, SeederIn, NoLocalOK, OutsideOK DEF tables

LEMMA KillOK ==
  ASSUME IInv, NEW k \in Seeder, Kill(k)
  PROVE  IInv'
  <1>1. count' \in Counts
    <2>1. count \in Counts /\ count.kills < MaxKills /\ count' = [count EXCEPT !.kills = @ + 1]
      BY SeederIn DEF Kill
    <2>2. count.kills + 1 \in 0..MaxKills
      BY <2>1, BoundsAssumption DEF Counts
    <2> QED BY <2>1, <2>2 DEF Counts
  <1> QED BY <1>1, ExitOK DEF Kill

LEMMA UpsertSignalOK ==
  ASSUME IInv, NEW k \in Seeder, UpsertSignal(k), UNCHANGED <<disk, count>>
  PROVE  IInv'
  <1> DEFINE l == [loc[k] EXCEPT !.next = @ + 1]
  <1>1. l \in Local /\ l.next # 0
    <2>1. loc[k] \in Local /\ loc[k].next + 1 \in Nat \ {0}
      BY SeederIn
    <2>2. l.next = loc[k].next + 1 /\ l \in Local
      BY <2>1 DEF Local
    <2> QED BY <2>1, <2>2
  <1>2. Moves(k, "signals", l) /\ UNCHANGED <<tables, disk, count>>
    BY DEF UpsertSignal, Set, Moves, IInv, TypeOK
  <1>3. "signals" \in Place \ Upserting
    BY DEF Place, Upserting
  <1> HIDE DEF l
  <1> QED BY <1>1, <1>2, <1>3, SeederIn, OutsideOK DEF tables

LEMMA CommitSignalsOK ==
  ASSUME IInv, NEW k \in Seeder, CommitSignals(k), UNCHANGED <<disk, count>>
  PROVE  IInv'
  <1>1. Moves(k, "file", NoLocal) /\ UNCHANGED <<scenarios, disk, count>>
    BY DEF CommitSignals, Goto, Set, Moves
  <1>2. signals' \in [Signal -> Release \cup {"none"}]
    BY DEF CommitSignals, IInv, TypeOK
  <1>3. "file" \in Place \ Upserting
    BY DEF Place, Upserting
  <1> QED BY <1>1, <1>2, <1>3, SeederIn, NoLocalOK, OutsideOK

LEMMA RejectFileOK ==
  ASSUME IInv, NEW k \in Seeder, RejectFile(k), UNCHANGED <<disk, count>>
  PROVE  IInv'
  <1> DEFINE report == [loc[k] EXCEPT !.issues = @ \cup {loc[k].next}]
  <1>1. report \in Local
    <2>1. loc[k] \in Local /\ loc[k].issues \cup {loc[k].next} \in SUBSET Nat
      BY SeederIn DEF Local
    <2> QED BY <2>1 DEF Local
  <1>2. NextFile(k, report) /\ UNCHANGED tables
    BY DEF RejectFile
  <1> HIDE DEF report
  <1> QED BY <1>1, <1>2, NextFileOK

(* A statement after the first inside the transaction of a file.           *)
LEMMA InsideOK ==
  ASSUME IInv, NEW k \in Seeder, NEW to \in Upserting, NEW l \in Local, Moves(k, to, l),
         UNCHANGED <<tables, disk, count>>, l.next = loc[k].next, l.next \in 1..Len(Files),
         \A n \in Nat : Hist(Files[l.next].code, n) => Prepared(to, l, n),
         to \in {"steps", "commit"} =>
           \A j \in Seeder \ {k} : Inserted(j) => FileOf(j).code # Files[l.next].code
  PROVE  IInv'
  <1>1. SeederOK(to, l)
    BY DirOK DEF SeederOK
  <1>2. to \in Place
    BY DEF Place
  <1> QED BY <1>1, <1>2, SeederIn, StatementOK DEF tables

LEMMA ReadActiveOK ==
  ASSUME IInv, NEW k \in Seeder, ReadActive(k), UNCHANGED <<disk, count>>
  PROVE  IInv'
  <1> DEFINE f == FileOf(k)
             report == [loc[k] EXCEPT !.skipped = @ \cup {f.code}]
  <1>1. AtFile(k) /\ UNCHANGED tables
    BY DEF ReadActive
  <1>2. ASSUME NextFile(k, report)
        PROVE  IInv'
    <2>1. report \in Local
      <3>1. loc[k] \in Local /\ loc[k].skipped \cup {f.code} \in SUBSET Code
        BY <1>1, SeederIn DEF Local
      <3> QED BY <3>1 DEF Local
    <2> HIDE DEF report
    <2> QED BY <1>1, <1>2, <2>1, NextFileOK
  <1>3. ASSUME Goto(k, "max"), UNCHANGED loc
        PROVE  IInv'
    <2>1. Moves(k, "max", loc[k])
      BY <1>3 DEF Goto, Moves, IInv, TypeOK
    <2>2. "max" \in Upserting /\ \A n \in Nat : Prepared("max", loc[k], n)
      BY DEF Upserting, Prepared
    <2> QED BY <1>1, <2>1, <2>2, SeederIn, InsideOK
  <1> QED BY <1>2, <1>3 DEF ReadActive

LEMMA ReadMaxOK ==
  ASSUME IInv, NEW k \in Seeder, ReadMax(k), UNCHANGED <<disk, count>>
  PROVE  IInv'
  <1> DEFINE c == FileOf(k).code
             m == MaxVersion(c)
             l == [loc[k] EXCEPT !.max = m]
  <1>1. /\ pc[k] = "max" /\ "max" \in Upserting /\ "unpublish" \in Upserting
        /\ UNCHANGED tables
    BY DEF ReadMax, Upserting
  <1>2. c \in Code /\ loc[k] \in Local /\ loc[k].next \in 1..Len(Files)
        /\ c = Files[loc[k].next].code
    BY <1>1, SeederIn
  <1>3. m \in Nat /\ \A n \in Nat : Hist(c, n) => m = n
    BY <1>2, HistMax DEF IInv, HistOK
  <1>4. Moves(k, "unpublish", l)
    BY DEF ReadMax, Goto, Set, Moves
  <1> HIDE DEF c, m
  <1>5. l \in Local /\ l.next = loc[k].next /\ l.max = m
    BY <1>2, <1>3 DEF Local
  <1> HIDE DEF l
  <1>6. \A n \in Nat : Hist(c, n) => Prepared("unpublish", l, n)
    BY <1>3, <1>5 DEF Prepared
  <1> QED BY <1>1, <1>2, <1>4, <1>5, <1>6, InsideOK

LEMMA UnpublishOK ==
  ASSUME IInv, NEW k \in Seeder, Unpublish(k), UNCHANGED <<disk, count>>
  PROVE  IInv'
  <1> DEFINE c == FileOf(k).code
             m == Max({r.version : r \in Active(c)} \cup {0})
             l == [loc[k] EXCEPT !.target = m]
  <1>1. /\ pc[k] = "unpublish" /\ "unpublish" \in Upserting /\ "lock" \in Upserting
        /\ UNCHANGED tables
    BY DEF Unpublish, Upserting
  <1>2. c \in Code /\ loc[k] \in Local /\ loc[k].next \in 1..Len(Files)
        /\ c = Files[loc[k].next].code /\ SeederOK(pc[k], loc[k])
    BY <1>1, SeederIn
  <1>3. m \in Nat
    BY <1>2, HistMax DEF IInv, HistOK
  <1>4. Moves(k, "lock", l)
    BY DEF Unpublish, Goto, Set, Moves
  <1> HIDE DEF c, m
  <1>5. l \in Local /\ l.next = loc[k].next /\ l.max = loc[k].max
    BY <1>2, <1>3 DEF Local
  <1> HIDE DEF l
  <1>6. \A n \in Nat : Hist(c, n) => Prepared("lock", l, n)
    BY <1>1, <1>2, <1>5 DEF SeederOK, Prepared
  <1> QED BY <1>1, <1>2, <1>4, <1>5, <1>6, InsideOK

LEMMA LockOK ==
  ASSUME IInv, NEW k \in Seeder, Lock(k), UNCHANGED <<disk, count>>
  PROVE  IInv'
  <1> DEFINE c == FileOf(k).code
             t == loc[k].target
             m == IF \E r \in Active(c) : r.version = t THEN t ELSE 0
             l == [loc[k] EXCEPT !.held = m]
  <1>1. /\ pc[k] = "lock" /\ "lock" \in Upserting /\ "insert" \in Upserting
        /\ UNCHANGED tables
    BY DEF Lock, Upserting
  <1>2. c \in Code /\ loc[k] \in Local /\ loc[k].next \in 1..Len(Files)
        /\ c = Files[loc[k].next].code /\ SeederOK(pc[k], loc[k])
    BY <1>1, SeederIn
  <1>3. m \in Nat
    BY <1>2 DEF Local
  <1>4. Moves(k, "insert", l)
    BY DEF Lock, Goto, Set, Moves
  <1> HIDE DEF c, m
  <1>5. l \in Local /\ l.next = loc[k].next /\ l.max = loc[k].max
    BY <1>2, <1>3 DEF Local
  <1> HIDE DEF l
  <1>6. \A n \in Nat : Hist(c, n) => Prepared("insert", l, n)
    BY <1>1, <1>2, <1>5 DEF SeederOK, Prepared
  <1> QED BY <1>1, <1>2, <1>4, <1>5, <1>6, InsideOK

(* Both unique indexes together leave one way past them: the maximum read  *)
(* is still the last version, and its row is the one locked.               *)
LEMMA InsertVersionOK ==
  ASSUME IInv, NEW k \in Seeder, InsertVersion(k), UNCHANGED <<disk, count>>
  PROVE  IInv'
  <1> DEFINE c == FileOf(k).code
             l == loc[k]
  <1>1. /\ pc[k] = "insert" /\ "insert" \in Upserting /\ "steps" \in Upserting
        /\ UNCHANGED tables /\ ~InsertPending(k)
    BY DEF InsertVersion, Upserting
  <1>2. c \in Code /\ l \in Local /\ l.next \in 1..Len(Files)
        /\ c = Files[l.next].code /\ SeederOK(pc[k], l)
    BY <1>1, SeederIn
  <1>3. ASSUME Exit(k, l)
        PROVE  IInv'
    BY <1>1, <1>3, SeederIn, ExitOK DEF tables
  <1>4. ASSUME ~InsertConflict(k), Goto(k, "steps"), UNCHANGED loc
        PROVE  IInv'
    <2>1. Moves(k, "steps", l)
      BY <1>4 DEF Goto, Moves, IInv, TypeOK
    <2>2. ASSUME NEW n \in Nat, Hist(c, n)
          PROVE  Prepared("steps", l, n)
      <3>1. l.max \in Nat /\ l.max <= n
        BY <1>1, <1>2, <2>2 DEF SeederOK, Prepared, Local
      <3>2. l.max = n
        <4>1. ASSUME l.max # n
              PROVE  FALSE
          <5>1. l.max + 1 \in 1..n
            BY <3>1, <4>1
          <5>2. PICK r \in Versions(c) : r.version = l.max + 1
            BY <2>2, <5>1 DEF Hist, Numbered
          <5> QED BY <1>4, <5>2 DEF InsertConflict
        <4> QED BY <4>1
      <3>3. n # 0 => l.held = n
        <4>1. ASSUME n # 0
              PROVE  l.held = n
          <5>1. PICK r \in Versions(c) : r.version = n /\ r.active
            <6>1. PICK r \in Versions(c) : r.version = n
              BY <2>2, <4>1 DEF Hist, Numbered
            <6>2. r.active = (r.version = n)
              BY <2>2 DEF Hist, Numbered
            <6> QED BY <6>1, <6>2
          <5> QED BY <1>4, <5>1 DEF InsertConflict
        <4> QED BY <4>1
      <3> QED BY <3>2, <3>3 DEF Prepared
    <2>3. \A j \in Seeder \ {k} : Inserted(j) => FileOf(j).code # c
      BY <1>1 DEF InsertPending, KeysHeld, Inserted
    <2> QED BY <1>1, <1>2, <2>1, <2>2, <2>3, InsideOK
  <1> QED BY <1>3, <1>4 DEF InsertVersion

LEMMA InsertStepsOK ==
  ASSUME IInv, NEW k \in Seeder, InsertSteps(k), UNCHANGED <<disk, count>>
  PROVE  IInv'
  <1> DEFINE c == FileOf(k).code
             l == loc[k]
  <1>1. /\ pc[k] = "steps" /\ "steps" \in Upserting /\ "commit" \in Upserting
        /\ UNCHANGED tables
    BY DEF InsertSteps, Upserting
  <1>2. c \in Code /\ l \in Local /\ l.next \in 1..Len(Files)
        /\ c = Files[l.next].code /\ SeederOK(pc[k], l)
    BY <1>1, SeederIn
  <1>3. ASSUME Exit(k, l)
        PROVE  IInv'
    BY <1>1, <1>3, SeederIn, ExitOK DEF tables
  <1>4. ASSUME Goto(k, "commit"), UNCHANGED loc
        PROVE  IInv'
    <2>1. Moves(k, "commit", l)
      BY <1>4 DEF Goto, Moves, IInv, TypeOK
    <2>2. \A n \in Nat : Hist(c, n) => Prepared("commit", l, n)
      BY <1>1, <1>2 DEF SeederOK, Prepared
    <2>3. \A j \in Seeder \ {k} : Inserted(j) => FileOf(j).code # c
      BY <1>1 DEF IInv, OneInserts, Inserted
    <2> QED BY <1>1, <1>2, <2>1, <2>2, <2>3, InsideOK
  <1> QED BY <1>3, <1>4 DEF InsertSteps

LEMMA FinishOK ==
  ASSUME IInv, NEW k \in Seeder, Finish(k), UNCHANGED <<disk, count>>
  PROVE  IInv'
  <1>1. UNCHANGED tables
    BY DEF Finish
  <1>2. ASSUME Exit(k, loc[k])
        PROVE  IInv'
    BY <1>1, <1>2, SeederIn, ExitOK DEF tables
  <1>3. ASSUME Goto(k, "done"), UNCHANGED loc
        PROVE  IInv'
    <2>1. Moves(k, "done", loc[k])
      BY <1>3 DEF Goto, Moves, IInv, TypeOK
    <2>2. "done" \in Place \ Upserting
      BY DEF Place, Upserting
    <2> QED BY <1>1, <2>1, <2>2, SeederIn, OutsideOK DEF tables
  <1> QED BY <1>2, <1>3 DEF Finish

-----------------------------------------------------------------------------
(* COMMIT.                                                                 *)

(* A row after the UPDATE that took version h of scenario c off.           *)
Off(r, c, h) == IF r.code = c /\ r.version = h THEN [r EXCEPT !.active = FALSE] ELSE r

LEMMA OffRow ==
  ASSUME NEW r \in Row, NEW c, NEW h
  PROVE  /\ Off(r, c, h) \in Row
         /\ Off(r, c, h).code = r.code
         /\ Off(r, c, h).version = r.version
         /\ Off(r, c, h).text = r.text
         /\ r.code = c /\ r.version = h => ~Off(r, c, h).active
         /\ ~(r.code = c /\ r.version = h) => Off(r, c, h) = r
  <1>1. CASE r.code = c /\ r.version = h
    <2>1. Off(r, c, h) = [r EXCEPT !.active = FALSE]
      BY <1>1 DEF Off
    <2> QED BY <1>1, <2>1 DEF Row
  <1>2. CASE ~(r.code = c /\ r.version = h)
    BY <1>2 DEF Off
  <1> QED BY <1>1, <1>2

NewRow(k) == [code |-> FileOf(k).code, version |-> loc[k].max + 1,
              text |-> FileOf(k).text, active |-> TRUE]

LEMMA CommitRows ==
  ASSUME IInv, NEW k \in Seeder, Commit(k)
  PROVE  LET c == FileOf(k).code
             h == loc[k].held
         IN  /\ c \in Code /\ loc[k].max \in Nat /\ Hist(c, loc[k].max)
             /\ loc[k].max # 0 => h = loc[k].max
             /\ NewRow(k) \in Row
             /\ scenarios' = {Off(r, c, h) : r \in scenarios} \cup {NewRow(k)}
             /\ scenarios' \subseteq Row
  <1> DEFINE c == FileOf(k).code
             h == loc[k].held
  <1>1. pc[k] = "commit" /\ "commit" \in Upserting
    BY DEF Commit, Upserting
  <1>2. /\ c \in Code /\ FileOf(k) \in File /\ loc[k] \in Local /\ SeederOK(pc[k], loc[k])
        /\ c = Files[loc[k].next].code
    BY <1>1, SeederIn
  <1>3. PICK n \in Nat : Hist(c, n)
    BY <1>2 DEF IInv, HistOK
  <1>4. loc[k].max = n /\ (n # 0 => h = n)
    BY <1>1, <1>2, <1>3 DEF SeederOK, Prepared
  <1>5. NewRow(k) \in Row
    BY <1>2 DEF NewRow, Row, File, Local
  <1>6. scenarios' = {Off(r, c, h) : r \in scenarios} \cup {NewRow(k)}
    BY DEF Commit, NewRow, Off
  <1>7. \A r \in scenarios : Off(r, c, h) \in Row
    BY OffRow DEF IInv, TypeOK
  <1>8. scenarios' \subseteq Row
    BY <1>5, <1>6, <1>7
  <1> QED BY <1>2, <1>3, <1>4, <1>5, <1>6, <1>8

LEMMA RowsOf ==
  ASSUME NEW S, NEW c, NEW h, NEW new, new.code = c, NEW T,
         \A r \in S : Off(r, c, h).code = r.code /\ (r.code # c => Off(r, c, h) = r),
         T = {Off(r, c, h) : r \in S} \cup {new}
  PROVE  /\ {r \in T : r.code = c} = {Off(r, c, h) : r \in {q \in S : q.code = c}} \cup {new}
         /\ \A d : d # c => {r \in T : r.code = d} = {r \in S : r.code = d}
  <1>1. \A x : x \in T <=> x = new \/ \E r \in S : x = Off(r, c, h)
    OBVIOUS
  <1>2. \A x : x \in {r \in T : r.code = c}
              <=> x \in {Off(r, c, h) : r \in {q \in S : q.code = c}} \cup {new}
    BY <1>1
  <1>3. ASSUME NEW d, d # c
        PROVE  \A x : x \in {r \in T : r.code = d} <=> x \in {r \in S : r.code = d}
    BY <1>1, <1>3
  <1> QED BY <1>2, <1>3

(* Each row of the scenario stays but for its activity, and there is one   *)
(* more.                                                                   *)
LEMMA CommitVersions ==
  ASSUME IInv, NEW k \in Seeder, Commit(k), NEW c, c = FileOf(k).code,
         NEW h, h = loc[k].held
  PROVE  /\ Versions(c)' = {Off(r, c, h) : r \in Versions(c)} \cup {NewRow(k)}
         /\ \A d \in Code \ {c} : Versions(d)' = Versions(d)
  <1>1. NewRow(k).code = c
    BY DEF NewRow
  <1>2. /\ scenarios' = {Off(r, c, h) : r \in scenarios} \cup {NewRow(k)}
        /\ \A r \in scenarios : Off(r, c, h).code = r.code /\ (r.code # c => Off(r, c, h) = r)
    BY CommitRows, OffRow DEF IInv, TypeOK
  <1> DEFINE new == NewRow(k)
             T == scenarios'
             S == scenarios
  <1> HIDE DEF new, T, S
  <1>3. /\ {r \in T : r.code = c} = {Off(r, c, h) : r \in {q \in S : q.code = c}} \cup {new}
        /\ \A d : d # c => {r \in T : r.code = d} = {r \in S : r.code = d}
    BY <1>1, <1>2, RowsOf DEF new, T, S
  <1> QED BY <1>3 DEF Versions, new, T, S

LEMMA CommitHist ==
  ASSUME IInv, NEW k \in Seeder, Commit(k), NEW c, c = FileOf(k).code,
         NEW n, n = loc[k].max
  PROVE  /\ c \in Code /\ Hist(c, n) /\ Hist(c, n + 1)'
         /\ \A r \in Versions(c) : \E q \in Versions(c)' : q.version = r.version /\ q.text = r.text
         /\ \E q \in Versions(c)' : q.version = n + 1 /\ q.text = FileOf(k).text /\ q.active
  <1> DEFINE h == loc[k].held
             new == NewRow(k)
             old == Versions(c)
             now == Versions(c)'
  <1>1. n \in Nat /\ Hist(c, n) /\ c \in Code /\ (n # 0 => h = n)
    BY CommitRows
  <1>2. new.version = n + 1 /\ new.active = TRUE /\ new.text = FileOf(k).text
    BY DEF NewRow
  <1>3. now = {Off(r, c, h) : r \in old} \cup {new}
    BY CommitVersions
  <1>4. \A r \in old : /\ r.code = c /\ r.version \in 1..n
                       /\ Off(r, c, h).version = r.version /\ Off(r, c, h).text = r.text
    BY <1>1, OffRow DEF Versions, IInv, TypeOK, Hist, Numbered
  <1>5. \A r \in old : Off(r, c, h).active = FALSE
    <2>1. ASSUME NEW r \in old
          PROVE  Off(r, c, h).active = FALSE
      <3>1. r \in Row /\ r.code = c /\ r.version \in 1..n /\ n # 0 /\ h = n
        BY <1>1, <1>4 DEF Versions, IInv, TypeOK
      <3>2. CASE r.version = n
        <4>1. Off(r, c, h) = [r EXCEPT !.active = FALSE]
          BY <3>1, <3>2 DEF Off
        <4> QED BY <3>1, <4>1 DEF Row
      <3>3. CASE r.version # n
        <4>1. Off(r, c, h) = r /\ r.active = (r.version = n)
          BY <1>1, <3>1, <3>3 DEF Off, Hist, Numbered
        <4> QED BY <3>3, <4>1
      <3> QED BY <3>2, <3>3
    <2> QED BY <2>1
  <1>6. \A r, q \in old : r.version = q.version => r = q
    BY <1>1 DEF Hist, Numbered
  <1>7. \A v \in 1..n : \E r \in old : r.version = v
    BY <1>1 DEF Hist, Numbered
  <1> HIDE DEF new, old, now, h
  <1>8. /\ \A v \in 1..n + 1 : \E r \in now : r.version = v
        /\ \A r \in now : r.version \in 1..n + 1
        /\ \A r, q \in now : r.version = q.version => r = q
    <2>1. ASSUME NEW v \in 1..n + 1
          PROVE  \E r \in now : r.version = v
      <3>1. CASE v = n + 1
        BY <1>2, <1>3, <3>1
      <3>2. CASE v # n + 1
        <4>1. v \in 1..n
          BY <1>1, <3>2
        <4> QED BY <1>3, <1>4, <1>7, <4>1
      <3> QED BY <3>1, <3>2
    <2>2. \A r \in now : r.version \in 1..n + 1
      BY <1>1, <1>2, <1>3, <1>4
    <2>3. ASSUME NEW r \in now, NEW q \in now, r.version = q.version
          PROVE  r = q
      <3>1. CASE r = new \/ q = new
        BY <1>1, <1>2, <1>3, <1>4, <2>3, <3>1
      <3>2. CASE r # new /\ q # new
        <4>1. PICK r0 \in old : r = Off(r0, c, h)
          BY <1>3, <3>2
        <4>2. PICK q0 \in old : q = Off(q0, c, h)
          BY <1>3, <3>2
        <4> QED BY <1>4, <1>6, <2>3, <4>1, <4>2
      <3> QED BY <3>1, <3>2
    <2> QED BY <2>1, <2>2, <2>3
  <1>9. ASSUME NEW r \in now
        PROVE  r.active = (r.version = n + 1)
    <2>1. CASE r = new
      BY <1>2, <2>1
    <2>2. CASE r # new
      <3>1. PICK r0 \in old : r = Off(r0, c, h)
        BY <1>3, <2>2
      <3>2. r.active = FALSE /\ r.version \in 1..n
        BY <1>4, <1>5, <3>1
      <3>3. r.version # n + 1
        BY <1>1, <3>2
      <3> QED BY <3>2, <3>3
    <2> QED BY <2>1, <2>2
  <1>10. Hist(c, n + 1)'
    BY <1>1, <1>8, <1>9 DEF Hist, Numbered, now
  <1>11. \A r \in old : \E q \in now : q.version = r.version /\ q.text = r.text
    BY <1>3, <1>4
  <1>12. \E q \in now : q.version = n + 1 /\ q.text = FileOf(k).text /\ q.active
    BY <1>2, <1>3
  <1> QED BY <1>1, <1>10, <1>11, <1>12 DEF old, now

(* The locals after COMMIT.                                                *)
LEMMA CommitMoves ==
  ASSUME IInv, NEW k \in Seeder, Commit(k)
  PROVE  \E l \in Local : /\ l.next = loc[k].next + 1 /\ l.issues = loc[k].issues
                         /\ Moves(k, "file", l)
  <1> DEFINE c == FileOf(k).code
             made == [loc[k] EXCEPT !.created = @ \cup {c}]
             edited == [loc[k] EXCEPT !.updated = @ \cup {c}]
  <1>1. pc[k] \in Upserting
    BY DEF Commit, Upserting
  <1>2. loc[k] \in Local /\ c \in Code
    BY <1>1, SeederIn
  <1>3. /\ loc[k].created \cup {c} \in SUBSET Code /\ loc[k].updated \cup {c} \in SUBSET Code
        /\ loc[k].next \in Nat
    BY <1>2 DEF Local
  <1>4. /\ made \in Local /\ made.next = loc[k].next /\ made.issues = loc[k].issues
        /\ edited \in Local /\ edited.next = loc[k].next /\ edited.issues = loc[k].issues
    BY <1>2, <1>3 DEF Local
  <1>5. PICK report \in {made, edited} : NextFile(k, report)
    BY DEF Commit
  <1> DEFINE l == [report EXCEPT !.next = @ + 1, !.max = 0, !.target = 0, !.held = 0]
  <1> HIDE DEF made, edited
  <1>6. report \in Local /\ report.next = loc[k].next /\ report.issues = loc[k].issues
        /\ report.next + 1 \in Nat
    BY <1>3, <1>4, <1>5
  <1>7. l \in Local /\ l.next = report.next + 1 /\ l.issues = report.issues
    BY <1>6 DEF Local
  <1>8. Moves(k, "file", l)
    BY <1>5 DEF NextFile, Goto, Set, Moves
  <1> HIDE DEF l
  <1> QED BY <1>6, <1>7, <1>8

LEMMA CommitOK ==
  ASSUME IInv, NEW k \in Seeder, Commit(k), UNCHANGED <<disk, count>>
  PROVE  IInv'
  <1>1. PICK c : c = FileOf(k).code
    OBVIOUS
  <1>2. PICK n : n = loc[k].max
    OBVIOUS
  <1>3. /\ c \in Code /\ Hist(c, n) /\ Hist(c, n + 1)' /\ n \in Nat
        /\ \A d \in Code \ {c} : Versions(d)' = Versions(d)
    BY <1>1, <1>2, CommitHist, CommitVersions DEF Hist, Numbered
  <1>4. PICK l \in Local : l.next = loc[k].next + 1 /\ Moves(k, "file", l)
    BY CommitMoves
  <1>5. "file" \in Place /\ "file" \notin Upserting /\ pc[k] = "commit"
    BY DEF Place, Upserting, Commit
  <1>6. /\ pc' \in [Seeder -> Place] /\ loc' \in [Seeder -> Local]
        /\ pc'[k] = "file" /\ loc'[k] = l
        /\ \A j \in Seeder \ {k} : pc'[j] = pc[j] /\ loc'[j] = loc[j]
    BY <1>4, <1>5, MovesTo
  <1>7. Files' = Files
    BY DEF Files
  <1>8. TypeOK'
    <2>1. scenarios' \subseteq Row
      BY CommitRows
    <2>2. UNCHANGED signals
      BY DEF Commit
    <2> QED BY <1>6, <2>1, <2>2 DEF IInv, TypeOK, Place
  <1>9. \A d \in Code \ {c} : \A m : Hist(d, m)' <=> Hist(d, m)
    BY <1>3 DEF Hist
  <1>10. HistOK'
    <2>1. n + 1 \in Nat
      BY <1>3
    <2> QED BY <1>3, <1>9, <2>1 DEF IInv, HistOK
  <1>11. SeedersOK'
    <2>1. loc[k].next # 0 /\ loc[k].next \in Nat
      BY SeederIn
    <2>2. SeederOK(pc[k], loc[k])'
      BY <1>4, <1>5, <1>6, <2>1 DEF SeederOK
    <2>3. ASSUME NEW j \in Seeder \ {k}
          PROVE  SeederOK(pc[j], loc[j])'
      <3>1. SeederOK(pc[j], loc[j])
        BY DEF IInv, SeedersOK
      <3>2. ASSUME pc[j] \in Upserting, NEW m \in Nat, Hist(Files[loc[j].next].code, m)'
            PROVE  Prepared(pc[j], loc[j], m)
        <4>1. PICK d : d = FileOf(j).code
          OBVIOUS
        <4>2. d \in Code /\ d = Files[loc[j].next].code /\ loc[j] \in Local
          BY <3>2, <4>1, SeederIn
        <4>3. Hist(d, m)'
          BY <1>6, <1>7, <3>2, <4>2
        <4>4. CASE d # c
          BY <1>9, <3>1, <3>2, <4>2, <4>3, <4>4 DEF SeederOK
        <4>5. CASE d = c
          <5>1. m = n + 1
            BY <1>3, <4>3, <4>5, NumberedOnce DEF Hist
          <5>2. Prepared(pc[j], loc[j], n)
            BY <1>3, <3>1, <3>2, <4>2, <4>5 DEF SeederOK
          <5>3. pc[j] \notin {"steps", "commit"}
            BY <1>1, <1>5, <4>1, <4>5 DEF IInv, OneInserts, Inserted
          <5>4. loc[j].max \in Nat
            BY <4>2 DEF Local
          <5> QED BY <1>3, <5>1, <5>2, <5>3, <5>4 DEF Prepared
        <4> QED BY <4>4, <4>5
      <3> QED BY <1>6, <1>7, <3>1, <3>2 DEF SeederOK, Prepared
    <2> QED BY <2>2, <2>3 DEF SeedersOK
  <1>12. OneInserts'
    <2>1. \A j \in Seeder \ {k} : FileOf(j)' = FileOf(j) /\ (Inserted(j)' <=> Inserted(j))
      BY <1>6, <1>7 DEF FileOf, Inserted
    <2>2. ~Inserted(k)'
      BY <1>6 DEF Inserted
    <2>3. ASSUME NEW j \in Seeder, NEW i \in Seeder, Inserted(j)', Inserted(i)',
                 FileOf(j)'.code = FileOf(i)'.code
          PROVE  j = i
      BY <2>1, <2>2, <2>3 DEF IInv, OneInserts
    <2> QED BY <2>3 DEF OneInserts
  <1> QED BY <1>8, <1>10, <1>11, <1>12 DEF IInv

LEMMA DeployOK ==
  ASSUME IInv, NEW d \in Release, Deploy(d)
  PROVE  IInv'
  <1>1. /\ disk' = d /\ UNCHANGED tables
        /\ \A k \in Seeder : pc'[k] = "off" /\ loc'[k] = NoLocal
        /\ pc' \in [Seeder -> Place] /\ loc' \in [Seeder -> Local]
    BY NoLocalOK DEF Deploy, Place
  <1>2. count' \in Counts
    <2>1. /\ count \in Counts /\ count.deploys < MaxDeploys
          /\ count' = [count EXCEPT !.deploys = @ + 1, !.runs = 0]
      BY DEF Deploy, IInv, TypeOK, Counts
    <2>2. count.deploys + 1 \in 0..MaxDeploys /\ 0 \in 0..MaxRuns
      BY <2>1, BoundsAssumption DEF Counts
    <2> QED BY <2>1, <2>2 DEF Counts
  <1>3. TypeOK'
    BY <1>1, <1>2 DEF IInv, TypeOK, tables, Place, Counts
  <1>4. HistOK'
    BY <1>1, SameRows DEF IInv, HistOK, tables
  <1>5. SeedersOK' /\ OneInserts'
    BY <1>1, NoLocalOK DEF SeedersOK, SeederOK, Upserting, OneInserts, Inserted
  <1> QED BY <1>3, <1>4, <1>5 DEF IInv

-----------------------------------------------------------------------------
(* The invariant holds.                                                    *)

LEMMA IInvInit == Init => IInv
  <1> SUFFICES ASSUME Init
               PROVE  IInv
    OBVIOUS
  <1>1. /\ scenarios = {} /\ disk = FirstRelease
        /\ \A k \in Seeder : pc[k] = "off" /\ loc[k] = NoLocal
    BY DEF Init
  <1>2. TypeOK
    BY DirAssumption, BoundsAssumption, NoLocalOK DEF Init, TypeOK
  <1>3. HistOK
    <2>1. \A c \in Code : Hist(c, 0)
      BY <1>1 DEF Hist, Numbered, Versions
    <2> QED BY <2>1 DEF HistOK
  <1>4. SeedersOK /\ OneInserts
    BY <1>1, NoLocalOK DEF SeedersOK, SeederOK, Upserting, OneInserts, Inserted
  <1> QED BY <1>2, <1>3, <1>4 DEF IInv

LEMMA IInvStep == IInv /\ [Next]_vars => IInv'
  <1> SUFFICES ASSUME IInv, [Next]_vars
               PROVE  IInv'
    OBVIOUS
  <1>1. CASE UNCHANGED vars
    BY <1>1 DEF vars, IInv, TypeOK, HistOK, Hist, Versions, SeedersOK, SeederOK, Prepared,
       Files, OneInserts, Inserted, FileOf
  <1>2. ASSUME NEW k \in Seeder, Step(k)
        PROVE  IInv'
    <2>1. UNCHANGED <<disk, count>>
      BY <1>2 DEF Step
    <2> QED BY <1>2, <2>1, UpsertSignalOK, CommitSignalsOK, RejectFileOK, ReadActiveOK,
            ReadMaxOK, UnpublishOK, LockOK, InsertVersionOK, InsertStepsOK, CommitOK,
            FinishOK DEF Step
  <1> QED BY <1>1, <1>2, LaunchOK, KillOK, DeployOK DEF Next

LEMMA IInvHolds == Spec => []IInv
  BY IInvInit, IInvStep, PTL DEF Spec

(* Tables, seeders and counters are well typed.                            *)
THEOREM TypeCorrect == Spec => []TypeOK
  <1>1. IInv => TypeOK
    BY DEF IInv
  <1> QED BY <1>1, IInvHolds, PTL

(* The versions of every scenario are numbered without gaps and exactly    *)
(* the last one is active, whatever seeders do (Upsert of                  *)
(* repository/scenario.go).                                                *)
THEOREM LastIsActiveHolds == Spec => []LastIsActive
  <1>1. IInv => LastIsActive
    <2> SUFFICES ASSUME IInv, NEW c \in Code
                 PROVE  /\ {r.version : r \in Versions(c)} = 1..Cardinality(Versions(c))
                        /\ {r.version : r \in Active(c)} = {MaxVersion(c)} \ {0}
      BY DEF LastIsActive
    <2>1. PICK n \in Nat : Hist(c, n)
      BY DEF IInv, HistOK
    <2> QED BY <2>1, HistMax
  <1> QED BY <1>1, IInvHolds, PTL

-----------------------------------------------------------------------------
(* What the exit code of a seeder promises.                                *)

OnOffer(i) == \E r \in Active(Files[i].code) : r.text = Files[i].text

(* The files a seeder has passed are on offer, or it will not succeed.     *)
Passed(k) == \A i \in 1..Len(Files) : i < loc[k].next => i \in loc[k].issues \/ OnOffer(i)

LoadOK ==
  \A k \in Seeder :
    /\ pc[k] \in {"file", "done"} \cup Upserting => Passed(k)
    /\ pc[k] = "done" => loc[k].next > Len(Files) /\ loc[k].issues = {}

LEMMA LoadOKMeans ==
  ASSUME IInv, LoadOK
  PROVE  SuccessMeansLoaded
  <1> SUFFICES ASSUME NEW k \in Seeder, pc[k] = "done", NEW i \in 1..Len(Files)
               PROVE  OnOffer(i)
    BY DEF SuccessMeansLoaded, Loaded, OnOffer
  <1>1. loc[k].next \in Nat /\ Len(Files) \in Nat
    BY SeederIn, DirOK
  <1> QED BY <1>1 DEF LoadOK, Passed

(* No two files of a directory have the same scenario code.                *)
DistinctCodes ==
  \A d \in Release : \A i, j \in 1..Len(Dir[d].files) :
    Dir[d].files[i].code = Dir[d].files[j].code => i = j

(* A file on offer stays on offer: only a seeder of the same directory     *)
(* replaces a version, and by the text of the same file.                   *)
LEMMA OfferStays ==
  ASSUME DistinctCodes, IInv, NEW k \in Seeder, Commit(k), UNCHANGED disk,
         NEW m, m = loc[k].next
  PROVE  (\A i \in 1..Len(Files) : OnOffer(i) => OnOffer(i)') /\ OnOffer(m)'
  <1>1. PICK c : c = FileOf(k).code
    OBVIOUS
  <1>3. pc[k] \in Upserting
    BY DEF Commit, Upserting
  <1>4. m \in 1..Len(Files) /\ FileOf(k) = Files[m] /\ c = Files[m].code
    BY <1>1, <1>3, SeederIn
  <1>5. Files' = Files
    BY DEF Files
  <1>6. /\ \A d \in Code \ {c} : Versions(d)' = Versions(d)
        /\ \E q \in Versions(c)' : q.text = FileOf(k).text /\ q.active
    BY <1>1, CommitVersions, CommitHist
  <1>7. OnOffer(m)'
    BY <1>4, <1>5, <1>6 DEF OnOffer, Active
  <1>8. ASSUME NEW i \in 1..Len(Files), OnOffer(i)
        PROVE  OnOffer(i)'
    <2>1. CASE Files[i].code = c
      <3>1. i = m
        BY <1>4, <2>1 DEF DistinctCodes, Files, IInv, TypeOK
      <3> QED BY <1>7, <3>1
    <2>2. CASE Files[i].code # c
      <3>1. Files[i].code \in Code
        BY DirOK
      <3>2. Active(Files[i].code)' = Active(Files[i].code)
        BY <1>5, <1>6, <2>2, <3>1 DEF Active
      <3> QED BY <1>5, <1>8, <3>2 DEF OnOffer
    <2> QED BY <2>1, <2>2
  <1> QED BY <1>7, <1>8

(* A seeder moves on without COMMIT.                                       *)
LEMMA LoadMoves ==
  ASSUME IInv, LoadOK, NEW k \in Seeder, NEW to \in Place, NEW l \in Local, Moves(k, to, l),
         UNCHANGED <<scenarios, disk>>,
         to \in {"file", "done"} \cup Upserting =>
           \A i \in 1..Len(Files) : i < l.next => i \in l.issues \/ OnOffer(i),
         to = "done" => l.next > Len(Files) /\ l.issues = {}
  PROVE  LoadOK'
  <1>1. /\ pc'[k] = to /\ loc'[k] = l
        /\ \A j \in Seeder \ {k} : pc'[j] = pc[j] /\ loc'[j] = loc[j]
    BY MovesTo
  <1>2. Files' = Files /\ \A i : OnOffer(i)' <=> OnOffer(i)
    BY DEF Files, OnOffer, Active, Versions
  <1>3. ASSUME NEW j \in Seeder
        PROVE  /\ pc'[j] \in {"file", "done"} \cup Upserting => Passed(j)'
               /\ pc'[j] = "done" => loc'[j].next > Len(Files') /\ loc'[j].issues = {}
    <2>1. CASE j = k
      BY <1>1, <1>2, <2>1 DEF Passed
    <2>2. CASE j # k
      BY <1>1, <1>2, <2>2 DEF Passed, LoadOK
    <2> QED BY <2>1, <2>2
  <1> QED BY <1>3 DEF LoadOK

(* In the middle of a file the report and the number of the file stay.     *)
LEMMA LoadInside ==
  ASSUME IInv, LoadOK, NEW k \in Seeder, NEW to \in Upserting, Goto(k, to),
         pc[k] \in {"file"} \cup Upserting, UNCHANGED <<scenarios, disk>>,
         \/ UNCHANGED loc
         \/ \E m \in Nat : \/ Set(k, [loc[k] EXCEPT !.max = m])
                          \/ Set(k, [loc[k] EXCEPT !.target = m])
                          \/ Set(k, [loc[k] EXCEPT !.held = m])
  PROVE  LoadOK'
  <1>1. PICK l : loc' = [loc EXCEPT ![k] = l] /\ l \in Local /\ l.next = loc[k].next
                 /\ l.issues = loc[k].issues
    <2>1. loc[k] \in Local /\ loc \in [Seeder -> Local]
      BY DEF IInv, TypeOK
    <2>2. CASE UNCHANGED loc
      <3>1. loc' = [loc EXCEPT ![k] = loc[k]]
        BY <2>1, <2>2
      <3> QED BY <2>1, <3>1
    <2>3. ASSUME NEW m \in Nat, Set(k, [loc[k] EXCEPT !.max = m])
          PROVE  \E l : /\ loc' = [loc EXCEPT ![k] = l] /\ l \in Local
                        /\ l.next = loc[k].next /\ l.issues = loc[k].issues
      <3> DEFINE l == [loc[k] EXCEPT !.max = m]
      <3>1. l \in Local /\ l.next = loc[k].next /\ l.issues = loc[k].issues
        BY <2>1 DEF Local
      <3> HIDE DEF l
      <3> QED BY <2>3, <3>1 DEF Set, l
    <2>4. ASSUME NEW m \in Nat, Set(k, [loc[k] EXCEPT !.target = m])
          PROVE  \E l : /\ loc' = [loc EXCEPT ![k] = l] /\ l \in Local
                        /\ l.next = loc[k].next /\ l.issues = loc[k].issues
      <3> DEFINE l == [loc[k] EXCEPT !.target = m]
      <3>1. l \in Local /\ l.next = loc[k].next /\ l.issues = loc[k].issues
        BY <2>1 DEF Local
      <3> HIDE DEF l
      <3> QED BY <2>4, <3>1 DEF Set, l
    <2>5. ASSUME NEW m \in Nat, Set(k, [loc[k] EXCEPT !.held = m])
          PROVE  \E l : /\ loc' = [loc EXCEPT ![k] = l] /\ l \in Local
                        /\ l.next = loc[k].next /\ l.issues = loc[k].issues
      <3> DEFINE l == [loc[k] EXCEPT !.held = m]
      <3>1. l \in Local /\ l.next = loc[k].next /\ l.issues = loc[k].issues
        BY <2>1 DEF Local
      <3> HIDE DEF l
      <3> QED BY <2>5, <3>1 DEF Set, l
    <2> QED BY <2>2, <2>3, <2>4, <2>5
  <1>2. Moves(k, to, l) /\ to \in Place /\ to # "done"
    BY <1>1 DEF Moves, Goto, Place, Upserting
  <1>3. \A i \in 1..Len(Files) : i < l.next => i \in l.issues \/ OnOffer(i)
    BY <1>1 DEF LoadOK, Passed
  <1> QED BY <1>1, <1>2, <1>3, LoadMoves

(* Past a file that was rejected or is on offer.                           *)
LEMMA LoadNext ==
  ASSUME IInv, LoadOK, NEW k \in Seeder, AtFile(k), NEW report \in Local,
         NextFile(k, report), UNCHANGED <<scenarios, disk>>, report.next = loc[k].next,
         loc[k].issues \subseteq report.issues,
         loc[k].next \in report.issues \/ OnOffer(loc[k].next)
  PROVE  LoadOK'
  <1> DEFINE l == [report EXCEPT !.next = @ + 1, !.max = 0, !.target = 0, !.held = 0]
  <1>1. loc[k].next \in Nat
    BY SeederIn
  <1>2. l \in Local /\ l.next = loc[k].next + 1 /\ l.issues = report.issues
    <2>1. report.next + 1 \in Nat
      BY <1>1
    <2> QED BY <2>1 DEF Local
  <1>3. Moves(k, "file", l)
    BY DEF NextFile, Goto, Set, Moves
  <1> HIDE DEF l
  <1>4. \A i \in 1..Len(Files) : i < l.next => i \in l.issues \/ OnOffer(i)
    <2>1. \A i \in 1..Len(Files) : i < l.next => i < loc[k].next \/ i = loc[k].next
      BY <1>1, <1>2, DirOK
    <2>2. Passed(k)
      BY DEF LoadOK, AtFile
    <2> QED BY <1>2, <2>1, <2>2 DEF Passed
  <1>5. "file" \in Place /\ "file" # "done"
    BY DEF Place
  <1> QED BY <1>2, <1>3, <1>4, <1>5, LoadMoves

LEMMA LoadCommits ==
  ASSUME DistinctCodes, IInv, LoadOK, NEW k \in Seeder, Commit(k), UNCHANGED disk
  PROVE  LoadOK'
  <1>1. PICK m : m = loc[k].next
    OBVIOUS
  <1>2. PICK l \in Local : /\ l.next = loc[k].next + 1 /\ l.issues = loc[k].issues
                           /\ Moves(k, "file", l)
    BY CommitMoves
  <1>3. "file" \in Place /\ "file" # "done" /\ pc[k] \in Upserting
    BY DEF Place, Commit, Upserting
  <1>4. /\ pc'[k] = "file" /\ loc'[k] = l
        /\ \A j \in Seeder \ {k} : pc'[j] = pc[j] /\ loc'[j] = loc[j]
    BY <1>2, <1>3, MovesTo
  <1>5. (\A i \in 1..Len(Files) : OnOffer(i) => OnOffer(i)') /\ OnOffer(m)'
    BY <1>1, OfferStays
  <1>6. Files' = Files
    BY DEF Files
  <1>7. Passed(k)'
    <2>1. ASSUME NEW i \in 1..Len(Files), i < l.next
          PROVE  i \in l.issues \/ OnOffer(i)'
      <3>1. loc[k].next \in Nat /\ Passed(k)
        BY <1>3, SeederIn DEF LoadOK
      <3>2. CASE i = m
        BY <1>5, <3>2
      <3>3. CASE i # m
        <4>1. i < loc[k].next
          BY <1>1, <1>2, <2>1, <3>1, <3>3
        <4> QED BY <1>2, <1>5, <3>1, <4>1 DEF Passed
      <3> QED BY <3>2, <3>3
    <2> QED BY <1>4, <1>6, <2>1 DEF Passed
  <1>8. ASSUME NEW j \in Seeder \ {k}, pc[j] \in {"file", "done"} \cup Upserting
        PROVE  Passed(j)'
    BY <1>4, <1>5, <1>6, <1>8 DEF LoadOK, Passed
  <1> QED BY <1>3, <1>4, <1>6, <1>7, <1>8 DEF LoadOK

LEMMA LoadStep ==
  ASSUME DistinctCodes, IInv, LoadOK, NEW k \in Seeder, Step(k)
  PROVE  LoadOK'
  <1> DEFINE l == loc[k]
  <1>1. UNCHANGED <<disk, count>> /\ l \in Local /\ l.next \in Nat
    BY SeederIn DEF Step
  <1>2. ASSUME NEW to \in {"off", "failed", "signals"}, NEW new \in Local, Moves(k, to, new),
               UNCHANGED scenarios
        PROVE  LoadOK'
    <2>1. to \in Place /\ to \notin {"file", "done"} \cup Upserting
      BY DEF Place, Upserting
    <2> QED BY <1>1, <1>2, <2>1, LoadMoves
  <1>3. ASSUME Exit(k, l), UNCHANGED scenarios
        PROVE  LoadOK'
    <2>1. Moves(k, "failed", l)
      BY <1>3 DEF Exit, Goto, Set, Moves
    <2> QED BY <1>1, <1>2, <1>3, <2>1
  <1>4. CASE UpsertSignal(k)
    <2> DEFINE new == [l EXCEPT !.next = @ + 1]
    <2>1. new \in Local
      <3>1. l.next + 1 \in Nat
        BY <1>1
      <3> QED BY <1>1, <3>1 DEF Local
    <2>2. Moves(k, "signals", new) /\ UNCHANGED scenarios
      BY <1>4 DEF UpsertSignal, Set, Moves, IInv, TypeOK, tables
    <2> HIDE DEF new
    <2> QED BY <1>2, <2>1, <2>2
  <1>5. CASE CommitSignals(k)
    <2>1. Moves(k, "file", NoLocal) /\ UNCHANGED scenarios
      BY <1>5 DEF CommitSignals, Goto, Set, Moves
    <2>2. "file" \in Place /\ "file" # "done" /\ \A i \in 1..Len(Files) : ~(i < NoLocal.next)
      BY NoLocalOK, DirOK DEF Place
    <2> QED BY <1>1, <2>1, <2>2, NoLocalOK, LoadMoves
  <1>6. CASE RejectFile(k)
    <2> DEFINE report == [l EXCEPT !.issues = @ \cup {l.next}]
    <2>1. AtFile(k) /\ NextFile(k, report) /\ UNCHANGED scenarios
      BY <1>6 DEF RejectFile, tables
    <2>2. report \in Local /\ report.next = l.next /\ report.issues = l.issues \cup {l.next}
      <3>1. l.issues \cup {l.next} \in SUBSET Nat
        BY <1>1 DEF Local
      <3> QED BY <1>1, <3>1 DEF Local
    <2> HIDE DEF report
    <2> QED BY <1>1, <2>1, <2>2, LoadNext
  <1>7. CASE ReadActive(k)
    <2> DEFINE f == FileOf(k)
               report == [l EXCEPT !.skipped = @ \cup {f.code}]
    <2>1. AtFile(k) /\ pc[k] = "file" /\ UNCHANGED scenarios
      BY <1>7 DEF ReadActive, AtFile, tables
    <2>2. f.code \in Code /\ f = Files[l.next]
      BY <2>1, SeederIn
    <2>3. CASE \E r \in Active(f.code) : r.text = f.text
      <3>1. NextFile(k, report)
        BY <1>7, <2>3 DEF ReadActive
      <3>2. report \in Local /\ report.next = l.next /\ report.issues = l.issues
        <4>1. l.skipped \cup {f.code} \in SUBSET Code
          BY <1>1, <2>2 DEF Local
        <4> QED BY <1>1, <4>1 DEF Local
      <3>3. OnOffer(l.next)
        BY <2>2, <2>3 DEF OnOffer
      <3> HIDE DEF report
      <3> QED BY <1>1, <2>1, <3>1, <3>2, <3>3, LoadNext
    <2>4. CASE ~\E r \in Active(f.code) : r.text = f.text
      <3>1. Goto(k, "max") /\ UNCHANGED loc /\ "max" \in Upserting
        BY <1>7, <2>4 DEF ReadActive, Upserting
      <3> QED BY <1>1, <2>1, <3>1, LoadInside
    <2> QED BY <2>3, <2>4
  <1>8. CASE ReadMax(k) \/ Unpublish(k) \/ Lock(k)
    <2>1. pc[k] \in Upserting /\ UNCHANGED scenarios
      BY <1>8 DEF ReadMax, Unpublish, Lock, Upserting, tables
    <2>2. FileOf(k).code \in Code /\ l.target \in Nat
      BY <1>1, <2>1, SeederIn DEF Local
    <2>3. /\ MaxVersion(FileOf(k).code) \in Nat
          /\ Max({r.version : r \in Active(FileOf(k).code)} \cup {0}) \in Nat
      <3>1. PICK n \in Nat : Hist(FileOf(k).code, n)
        BY <2>2 DEF IInv, HistOK
      <3>2. /\ MaxVersion(FileOf(k).code) = n
            /\ Max({r.version : r \in Active(FileOf(k).code)} \cup {0}) = n
        BY <3>1, HistMax
      <3> QED BY <3>2
    <2>4. CASE ReadMax(k)
      <3>1. /\ Goto(k, "unpublish") /\ "unpublish" \in Upserting
            /\ \E m \in Nat : Set(k, [l EXCEPT !.max = m])
        BY <2>3, <2>4 DEF ReadMax, Upserting
      <3> QED BY <1>1, <2>1, <3>1, LoadInside
    <2>5. CASE Unpublish(k)
      <3>1. /\ Goto(k, "lock") /\ "lock" \in Upserting
            /\ \E m \in Nat : Set(k, [l EXCEPT !.target = m])
        BY <2>3, <2>5 DEF Unpublish, Upserting
      <3> QED BY <1>1, <2>1, <3>1, LoadInside
    <2>6. CASE Lock(k)
      <3>1. /\ Goto(k, "insert") /\ "insert" \in Upserting
            /\ \E m \in Nat : Set(k, [l EXCEPT !.held = m])
        BY <2>2, <2>6 DEF Lock, Upserting
      <3> QED BY <1>1, <2>1, <3>1, LoadInside
    <2> QED BY <1>8, <2>4, <2>5, <2>6
  <1>9. CASE InsertVersion(k) \/ InsertSteps(k)
    <2>1. pc[k] \in Upserting /\ UNCHANGED scenarios
      BY <1>9 DEF InsertVersion, InsertSteps, Upserting, tables
    <2>2. \/ Exit(k, l)
          \/ \E to \in Upserting : Goto(k, to) /\ UNCHANGED loc
      BY <1>9 DEF InsertVersion, InsertSteps, Upserting
    <2> QED BY <1>1, <1>3, <2>1, <2>2, LoadInside
  <1>10. CASE Finish(k)
    <2>1. pc[k] = "file" /\ UNCHANGED scenarios /\ l.next > Len(Files)
      BY <1>10 DEF Finish, tables
    <2>2. CASE Exit(k, l)
      BY <1>3, <2>1, <2>2
    <2>3. ASSUME l.issues = {}, Goto(k, "done"), UNCHANGED loc
          PROVE  LoadOK'
      <3>1. Moves(k, "done", l) /\ "done" \in Place
        BY <2>3 DEF Goto, Moves, Place, IInv, TypeOK
      <3>2. Passed(k)
        BY <2>1 DEF LoadOK
      <3> QED BY <1>1, <2>1, <2>3, <3>1, <3>2, LoadMoves DEF Passed
    <2> QED BY <1>10, <2>2, <2>3 DEF Finish
  <1> QED BY <1>1, <1>4, <1>5, <1>6, <1>7, <1>8, <1>9, <1>10, LoadCommits DEF Step

(* Exit code 0 means that the catalog shows the directory (cmd/seed,       *)
(* LoadFromDir): seeders of one directory write the same texts, and no     *)
(* seeder outlives a deployment.  If two files of a directory had the same *)
(* code, each would replace the other's version.                           *)
THEOREM SuccessMeansLoadedHolds ==
  ASSUME DistinctCodes
  PROVE  Spec => []SuccessMeansLoaded
  <1>1. Init => LoadOK
    BY DEF Init, LoadOK, Upserting
  <1>2. IInv /\ LoadOK /\ [Next]_vars => LoadOK'
    <2> SUFFICES ASSUME IInv, LoadOK, [Next]_vars
                 PROVE  LoadOK'
      OBVIOUS
    <2>1. ASSUME NEW k \in Seeder, Launch(k)
          PROVE  LoadOK'
      <3>1. Moves(k, "signals", NoLocal) /\ UNCHANGED <<scenarios, disk>>
        BY <2>1 DEF Launch, Goto, Set, Moves, tables
      <3>2. "signals" \in Place /\ "signals" \notin {"file", "done"} \cup Upserting
        BY DEF Place, Upserting
      <3> QED BY <3>1, <3>2, NoLocalOK, LoadMoves
    <2>2. ASSUME NEW k \in Seeder, Kill(k)
          PROVE  LoadOK'
      <3>1. Moves(k, "failed", loc[k]) /\ UNCHANGED <<scenarios, disk>>
        BY <2>2 DEF Kill, Exit, Goto, Set, Moves, tables
      <3>2. "failed" \in Place /\ "failed" \notin {"file", "done"} \cup Upserting
        BY DEF Place, Upserting
      <3> QED BY <3>1, <3>2, SeederIn, LoadMoves
    <2>3. ASSUME NEW d \in Release, Deploy(d)
          PROVE  LoadOK'
      BY <2>3 DEF Deploy, LoadOK, Upserting
    <2>4. CASE UNCHANGED vars
      BY <2>4 DEF vars, LoadOK, Passed, Files, OnOffer, Active, Versions
    <2> QED BY <2>1, <2>2, <2>3, <2>4, LoadStep DEF Next
  <1> QED BY <1>1, <1>2, IInvHolds, LoadOKMeans, PTL DEF Spec

(* The texts of the risk signals are those of one release, whenever        *)
(* seeders are killed, as long as the releases have the same signals:      *)
(* Upsert of repository/risk_signal.go sends one batch.                    *)
THEOREM SignalsOfOneReleaseHolds ==
  ASSUME Signal # {}, \A d \in Release : \A g \in Signal :
           \E i \in 1..Len(Dir[d].signals) : Dir[d].signals[i] = g
  PROVE  Spec => []SignalsOfOneRelease
  <1> DEFINE Same == \E d : signals = [g \in Signal |-> d]
  <1>1. Init => Same
    BY DEF Init
  <1>2. IInv /\ Same /\ [Next]_vars => Same'
    <2> SUFFICES ASSUME IInv, Same, [Next]_vars
                 PROVE  Same'
      OBVIOUS
    <2>1. ASSUME NEW k \in Seeder, CommitSignals(k)
          PROVE  Same'
      <3>1. ASSUME NEW g \in Signal
            PROVE  g \in HeldSignals(k)
        <4>1. PICK i \in 1..Len(Signals) : Signals[i] = g
          BY DEF IInv, TypeOK, Signals
        <4>2. i \in 1..loc[k].next - 1
          BY <2>1, SeederIn, DirOK DEF CommitSignals
        <4> QED BY <2>1, <4>1, <4>2 DEF CommitSignals, HeldSignals
      <3>2. signals' = [g \in Signal |-> disk]
        BY <2>1, <3>1 DEF CommitSignals
      <3> QED BY <3>2
    <2>2. CASE UNCHANGED signals
      BY <2>2
    <2> QED BY <2>1, <2>2 DEF Next, vars, tables, Launch, Kill, Deploy, Step, UpsertSignal,
            RejectFile, ReadActive, ReadMax, Unpublish, Lock, InsertVersion, InsertSteps,
            Commit, Finish
  <1>3. Same => SignalsOfOneRelease
    <2> SUFFICES ASSUME NEW d, signals = [g \in Signal |-> d]
                 PROVE  SignalsOfOneRelease
      OBVIOUS
    <2>1. {signals[g] : g \in Signal} = {d}
      OBVIOUS
    <2> QED BY <2>1, FS_Singleton DEF SignalsOfOneRelease
  <1> HIDE DEF Same
  <1> QED BY <1>1, <1>2, <1>3, IInvHolds, PTL DEF Spec

(* A loaded directory is left alone by its own seeders, however many run   *)
(* (the comparison of hashes in Upsert of repository/scenario.go).         *)
THEOREM LoadedStaysHolds == Spec => LoadedStays
  <1>1. IInv /\ [Next]_vars => [Settled => disk' # disk \/ (scenarios' = scenarios /\ Settled')]_vars
    <2> SUFFICES ASSUME IInv, [Next]_vars, Settled, disk' = disk
                 PROVE  scenarios' = scenarios /\ Settled'
      OBVIOUS
    <2>1. Files' = Files
      BY DEF Files
    <2>2. ASSUME UNCHANGED scenarios, \A k \in Seeder : pc'[k] \notin Upserting
          PROVE  Settled'
      BY <2>1, <2>2 DEF Settled, Loaded, Active, Versions
    <2>3. CASE UNCHANGED vars
      BY <2>2, <2>3 DEF vars, Settled
    <2>4. ASSUME NEW k \in Seeder, NEW to, Goto(k, to), to \notin Upserting, UNCHANGED scenarios
          PROVE  scenarios' = scenarios /\ Settled'
      <3>1. \A j \in Seeder : pc'[j] = to \/ pc'[j] = pc[j]
        BY <2>4 DEF Goto, IInv, TypeOK
      <3> QED BY <2>2, <2>4, <3>1 DEF Settled
    <2>5. ASSUME NEW k \in Seeder, Launch(k) \/ Kill(k)
          PROVE  \E to : Goto(k, to) /\ to \notin Upserting /\ UNCHANGED scenarios
      BY <2>5 DEF Launch, Kill, Exit, Upserting, tables
    <2>6. ASSUME NEW d \in Release
          PROVE  ~Deploy(d)
      BY DEF Deploy
    <2>7. ASSUME NEW k \in Seeder, Step(k)
          PROVE  \/ UNCHANGED <<pc, scenarios>>
                 \/ \E to : Goto(k, to) /\ to \notin Upserting /\ UNCHANGED scenarios
      <3>1. pc[k] \notin Upserting
        BY DEF Settled
      <3>2. ~ReadMax(k) /\ ~Unpublish(k) /\ ~Lock(k) /\ ~InsertVersion(k) /\ ~InsertSteps(k)
            /\ ~Commit(k)
        BY <3>1 DEF ReadMax, Unpublish, Lock, InsertVersion, InsertSteps, Commit, Upserting
      <3>3. CASE ReadActive(k)
        <4>1. AtFile(k)
          BY <3>3 DEF ReadActive
        <4>2. \E r \in Active(FileOf(k).code) : r.text = FileOf(k).text
          BY <4>1, SeederIn DEF Settled, Loaded
        <4>3. Goto(k, "file") /\ UNCHANGED scenarios
          BY <3>3, <4>2 DEF ReadActive, NextFile, tables
        <4> QED BY <4>3 DEF Upserting
      <3>4. CASE RejectFile(k)
        <4>1. Goto(k, "file") /\ UNCHANGED scenarios
          BY <3>4 DEF RejectFile, NextFile, tables
        <4> QED BY <4>1 DEF Upserting
      <3> QED BY <2>7, <3>2, <3>3, <3>4 DEF Step, UpsertSignal, CommitSignals, Finish, Exit,
              Upserting, tables
    <2>8. CASE UNCHANGED <<pc, scenarios>>
      BY <2>2, <2>8 DEF Settled
    <2> QED BY <2>3, <2>4, <2>5, <2>6, <2>7, <2>8 DEF Next
  <1> QED BY <1>1, IInvHolds, PTL DEF Spec, LoadedStays

-----------------------------------------------------------------------------
(* The order of the statements of a run, and the locks they take.          *)

(* Where a statement leads, from (at, l) to (to, n).                       *)
Ends(to) == to \in {"done", "failed"}

NextSignal(at, l, to, n) ==
  at = "signals" /\ to = "signals" /\ l.next <= Len(Signals) /\ n.next = l.next + 1

ToFiles(at, l, to, n) ==
  at = "signals" /\ to = "file" /\ l.next = Len(Signals) + 1 /\ n = NoLocal

ToNextFile(at, l, to, n) ==
  /\ at \in {"file", "commit"} /\ to = "file"
  /\ l.next <= Len(Files) /\ n.next = l.next + 1 /\ n.held = 0

Onward(at, l, to, n) ==
  /\ <<at, to>> \in {<<"file", "max">>, <<"max", "unpublish">>, <<"unpublish", "lock">>,
                     <<"lock", "insert">>, <<"insert", "steps">>, <<"steps", "commit">>}
  /\ l.next <= Len(Files) /\ n.next = l.next
  /\ to # "insert" => n.held = l.held

Leads(at, l, to, n) ==
  \/ Ends(to) \/ NextSignal(at, l, to, n) \/ ToFiles(at, l, to, n)
  \/ ToNextFile(at, l, to, n) \/ Onward(at, l, to, n)

(* How far a seeder can have got; it locks no row before the UPDATE.       *)
Queued(at, l) ==
  /\ at = "signals" => l.next <= Len(Signals) + 1
  /\ at = "file" => l.next <= Len(Files) + 1
  /\ at \in {"file", "max", "unpublish", "lock"} => l.held = 0

LocksOK ==
  /\ \A k \in Seeder : Queued(pc[k], loc[k])
  /\ \A j, k \in Seeder : j # k => HeldSignals(j) \cap HeldSignals(k) = {}

LEMMA NextFileLeads ==
  ASSUME IInv, NEW k \in Seeder, NEW report \in Local, NextFile(k, report),
         pc[k] \in {"file", "commit"}, report.next = loc[k].next, report.next <= Len(Files)
  PROVE  \E to \in Place, n \in Local : Moves(k, to, n) /\ Leads(pc[k], loc[k], to, n)
  <1> DEFINE n == [report EXCEPT !.next = @ + 1, !.max = 0, !.target = 0, !.held = 0]
  <1>1. n \in Local /\ n.next = report.next + 1 /\ n.held = 0
    <2>1. report.next + 1 \in Nat
      BY DEF Local
    <2> QED BY <2>1 DEF Local
  <1>2. Moves(k, "file", n) /\ "file" \in Place
    BY DEF NextFile, Goto, Set, Moves, Place
  <1> HIDE DEF n
  <1>3. ToNextFile(pc[k], loc[k], "file", n)
    BY <1>1 DEF ToNextFile
  <1> QED BY <1>1, <1>2, <1>3 DEF Leads

LEMMA OnwardLeads ==
  ASSUME IInv, NEW k \in Seeder, NEW to \in Upserting, NEW n \in Local, Moves(k, to, n),
         Onward(pc[k], loc[k], to, n)
  PROVE  \E x \in Place, y \in Local : Moves(k, x, y) /\ Leads(pc[k], loc[k], x, y)
  BY DEF Leads, Place

LEMMA ExitLeads ==
  ASSUME IInv, NEW k \in Seeder, Exit(k, loc[k])
  PROVE  \E x \in Place, y \in Local : Moves(k, x, y) /\ Leads(pc[k], loc[k], x, y)
  <1>1. Moves(k, "failed", loc[k]) /\ "failed" \in Place /\ loc[k] \in Local
    BY SeederIn DEF Exit, Goto, Set, Moves, Place
  <1> QED BY <1>1 DEF Leads, Ends

LEMMA StepLeads ==
  ASSUME IInv, LocksOK, NEW k \in Seeder, Step(k)
  PROVE  /\ \E to \in Place, n \in Local : Moves(k, to, n) /\ Leads(pc[k], loc[k], to, n)
         /\ pc'[k] = "signals" => \A j \in Seeder : ~WaitsFor(k, j)
         /\ UNCHANGED disk
  <1> DEFINE l == loc[k]
             Found == \E to \in Place, n \in Local : Moves(k, to, n) /\ Leads(pc[k], l, to, n)
  <1>1. UNCHANGED disk /\ l \in Local /\ l.next \in Nat \ {0} /\ SeederOK(pc[k], l)
    BY SeederIn DEF Step
  <1>2. pc[k] \in Upserting => l.next <= Len(Files)
    BY <1>1 DEF SeederOK
  <1>3. CASE UpsertSignal(k)
    <2> DEFINE n == [l EXCEPT !.next = @ + 1]
    <2>1. n \in Local /\ n.next = l.next + 1
      <3>1. l.next + 1 \in Nat
        BY <1>1
      <3> QED BY <1>1, <3>1 DEF Local
    <2>2. Moves(k, "signals", n) /\ "signals" \in Place
      BY <1>3 DEF UpsertSignal, Set, Moves, IInv, TypeOK, Place
    <2> HIDE DEF n
    <2>3. NextSignal(pc[k], l, "signals", n)
      BY <1>3, <2>1 DEF UpsertSignal, NextSignal
    <2>4. Found
      BY <2>1, <2>2, <2>3 DEF Leads
    <2> QED BY <1>1, <1>3, <2>4 DEF UpsertSignal
  <1>4. CASE CommitSignals(k)
    <2>1. Moves(k, "file", NoLocal) /\ "file" \in Place /\ NoLocal \in Local
      BY <1>4, NoLocalOK DEF CommitSignals, Goto, Set, Moves, Place
    <2>2. l.next = Len(Signals) + 1
      BY <1>1, <1>4, DirOK DEF CommitSignals, LocksOK, Queued
    <2>3. ToFiles(pc[k], l, "file", NoLocal)
      BY <1>4, <2>2 DEF CommitSignals, ToFiles
    <2> QED BY <1>1, <2>1, <2>3, MovesTo DEF Leads
  <1>5. CASE RejectFile(k)
    <2> DEFINE report == [l EXCEPT !.issues = @ \cup {l.next}]
    <2>1. report \in Local /\ report.next = l.next
      <3>1. l.issues \cup {l.next} \in SUBSET Nat
        BY <1>1 DEF Local
      <3> QED BY <1>1, <3>1 DEF Local
    <2>2. NextFile(k, report) /\ pc[k] = "file" /\ l.next <= Len(Files)
      BY <1>5 DEF RejectFile, AtFile
    <2> HIDE DEF report
    <2>3. Found
      BY <2>1, <2>2, NextFileLeads
    <2>4. pc'[k] # "signals"
      BY <2>2 DEF NextFile, Goto, IInv, TypeOK
    <2> QED BY <1>1, <2>3, <2>4
  <1>6. CASE ReadActive(k)
    <2> DEFINE f == FileOf(k)
               report == [l EXCEPT !.skipped = @ \cup {f.code}]
    <2>1. pc[k] = "file" /\ l.next <= Len(Files) /\ f.code \in Code
      BY <1>6, SeederIn DEF ReadActive, AtFile
    <2>2. CASE NextFile(k, report)
      <3>1. report \in Local /\ report.next = l.next
        <4>1. l.skipped \cup {f.code} \in SUBSET Code
          BY <1>1, <2>1 DEF Local
        <4> QED BY <1>1, <4>1 DEF Local
      <3> HIDE DEF report
      <3>2. Found
        BY <2>1, <2>2, <3>1, NextFileLeads
      <3>3. pc'[k] # "signals"
        BY <2>2 DEF NextFile, Goto, IInv, TypeOK
      <3> QED BY <1>1, <3>2, <3>3
    <2>3. CASE Goto(k, "max") /\ UNCHANGED loc
      <3>1. Moves(k, "max", l) /\ "max" \in Upserting /\ pc'[k] # "signals"
        BY <2>3 DEF Goto, Moves, IInv, TypeOK, Upserting
      <3>2. Onward(pc[k], l, "max", l)
        BY <2>1 DEF Onward
      <3> QED BY <1>1, <3>1, <3>2, OnwardLeads
    <2> QED BY <1>6, <2>2, <2>3 DEF ReadActive
  <1>7. CASE ReadMax(k)
    <2>1. PICK m \in Nat : Set(k, [l EXCEPT !.max = m])
      <3>1. FileOf(k).code \in Code
        BY <1>7, SeederIn DEF ReadMax, Upserting
      <3>2. PICK m \in Nat : Hist(FileOf(k).code, m)
        BY <3>1 DEF IInv, HistOK
      <3> QED BY <1>7, <3>2, HistMax DEF ReadMax
    <2> DEFINE n == [l EXCEPT !.max = m]
    <2>2. n \in Local /\ n.next = l.next /\ n.held = l.held
      BY <1>1 DEF Local
    <2>3. Moves(k, "unpublish", n) /\ pc[k] = "max"
      BY <1>7, <2>1 DEF ReadMax, Goto, Set, Moves
    <2> HIDE DEF n
    <2>4. Onward(pc[k], l, "unpublish", n) /\ pc'[k] # "signals" /\ "unpublish" \in Upserting
      BY <1>2, <2>2, <2>3 DEF Onward, Upserting, Moves, IInv, TypeOK
    <2> QED BY <1>1, <2>2, <2>3, <2>4, OnwardLeads
  <1>8. CASE Unpublish(k)
    <2>1. PICK m \in Nat : Set(k, [l EXCEPT !.target = m])
      <3>1. FileOf(k).code \in Code
        BY <1>8, SeederIn DEF Unpublish, Upserting
      <3>2. PICK m \in Nat : Hist(FileOf(k).code, m)
        BY <3>1 DEF IInv, HistOK
      <3> QED BY <1>8, <3>2, HistMax DEF Unpublish
    <2> DEFINE n == [l EXCEPT !.target = m]
    <2>2. n \in Local /\ n.next = l.next /\ n.held = l.held
      BY <1>1 DEF Local
    <2>3. Moves(k, "lock", n) /\ pc[k] = "unpublish"
      BY <1>8, <2>1 DEF Unpublish, Goto, Set, Moves
    <2> HIDE DEF n
    <2>4. Onward(pc[k], l, "lock", n) /\ pc'[k] # "signals" /\ "lock" \in Upserting
      BY <1>2, <2>2, <2>3 DEF Onward, Upserting, Moves, IInv, TypeOK
    <2> QED BY <1>1, <2>2, <2>3, <2>4, OnwardLeads
  <1>9. CASE Lock(k)
    <2>1. PICK m \in Nat : Set(k, [l EXCEPT !.held = m])
      BY <1>1, <1>9 DEF Lock, Local
    <2> DEFINE n == [l EXCEPT !.held = m]
    <2>2. n \in Local /\ n.next = l.next
      BY <1>1 DEF Local
    <2>3. Moves(k, "insert", n) /\ pc[k] = "lock"
      BY <1>9, <2>1 DEF Lock, Goto, Set, Moves
    <2> HIDE DEF n
    <2>4. Onward(pc[k], l, "insert", n) /\ pc'[k] # "signals" /\ "insert" \in Upserting
      BY <1>2, <2>2, <2>3 DEF Onward, Upserting, Moves, IInv, TypeOK
    <2> QED BY <1>1, <2>2, <2>3, <2>4, OnwardLeads
  <1>10. CASE InsertVersion(k) \/ InsertSteps(k)
    <2>1. CASE Exit(k, l)
      <3>1. pc'[k] # "signals"
        BY <2>1 DEF Exit, Goto, IInv, TypeOK
      <3> QED BY <1>1, <2>1, <3>1, ExitLeads
    <2>2. ASSUME NEW to \in Upserting, Goto(k, to), UNCHANGED loc,
                 <<pc[k], to>> \in {<<"insert", "steps">>, <<"steps", "commit">>}
          PROVE  Found /\ pc'[k] # "signals"
      <3>1. Moves(k, to, l) /\ pc'[k] # "signals"
        BY <2>2 DEF Goto, Moves, IInv, TypeOK, Upserting
      <3>2. Onward(pc[k], l, to, l)
        BY <1>2, <2>2 DEF Onward, Upserting
      <3> QED BY <1>1, <3>1, <3>2, OnwardLeads
    <2>3. CASE InsertVersion(k)
      BY <1>1, <2>1, <2>2, <2>3 DEF InsertVersion, Upserting
    <2>4. CASE InsertSteps(k)
      BY <1>1, <2>1, <2>2, <2>4 DEF InsertSteps, Upserting
    <2> QED BY <1>10, <2>3, <2>4
  <1>11. CASE Commit(k)
    <2>1. PICK report \in {[l EXCEPT !.created = @ \cup {FileOf(k).code}],
                           [l EXCEPT !.updated = @ \cup {FileOf(k).code}]} : NextFile(k, report)
      BY <1>11 DEF Commit
    <2>2. FileOf(k).code \in Code /\ pc[k] = "commit" /\ l.next <= Len(Files)
      BY <1>2, <1>11, SeederIn DEF Commit, Upserting
    <2>3. report \in Local /\ report.next = l.next
      <3>1. l.created \cup {FileOf(k).code} \in SUBSET Code
            /\ l.updated \cup {FileOf(k).code} \in SUBSET Code
        BY <1>1, <2>2 DEF Local
      <3> QED BY <1>1, <3>1 DEF Local
    <2>4. Found
      BY <2>1, <2>2, <2>3, NextFileLeads
    <2>5. pc'[k] # "signals"
      BY <2>1 DEF NextFile, Goto, IInv, TypeOK
    <2> QED BY <1>1, <2>4, <2>5
  <1>12. CASE Finish(k)
    <2>1. CASE Exit(k, l)
      <3>1. pc'[k] # "signals"
        BY <2>1 DEF Exit, Goto, IInv, TypeOK
      <3> QED BY <1>1, <2>1, <3>1, ExitLeads
    <2>2. CASE Goto(k, "done") /\ UNCHANGED loc
      <3>1. Moves(k, "done", l) /\ "done" \in Place /\ pc'[k] # "signals"
        BY <2>2 DEF Goto, Moves, IInv, TypeOK, Place
      <3> QED BY <1>1, <3>1 DEF Leads, Ends
    <2> QED BY <1>12, <2>1, <2>2 DEF Finish
  <1> QED BY <1>3, <1>4, <1>5, <1>6, <1>7, <1>8, <1>9, <1>10, <1>11, <1>12 DEF Step

LEMMA LeadsQueued ==
  ASSUME IInv, LocksOK, NEW k \in Seeder, NEW to \in Place, NEW n \in Local,
         Leads(pc[k], loc[k], to, n)
  PROVE  Queued(to, n)
  <1> DEFINE l == loc[k]
  <1>1. l.next \in Nat \ {0} /\ Queued(pc[k], l) /\ Len(Signals) \in Nat /\ Len(Files) \in Nat
    BY SeederIn, DirOK DEF LocksOK
  <1>2. CASE Ends(to)
    BY <1>2 DEF Ends, Queued
  <1>3. CASE NextSignal(pc[k], l, to, n)
    BY <1>1, <1>3 DEF NextSignal, Queued
  <1>4. CASE ToFiles(pc[k], l, to, n)
    BY <1>1, <1>4 DEF ToFiles, Queued, NoLocal
  <1>5. CASE ToNextFile(pc[k], l, to, n)
    BY <1>1, <1>5 DEF ToNextFile, Queued
  <1>6. CASE Onward(pc[k], l, to, n)
    BY <1>1, <1>6 DEF Onward, Queued
  <1> QED BY <1>2, <1>3, <1>4, <1>5, <1>6 DEF Leads

(* What seeder k holds after a statement: what it held, and the signal it  *)
(* did not have to wait for.                                               *)
LEMMA LeadsHeld ==
  ASSUME IInv, NEW k \in Seeder, NEW to \in Place, NEW n \in Local, Moves(k, to, n),
         Leads(pc[k], loc[k], to, n), UNCHANGED disk
  PROVE  /\ \A j \in Seeder \ {k} : HeldSignals(j)' = HeldSignals(j)
         /\ to = "signals" =>
              /\ loc[k].next <= Len(Signals) /\ pc[k] = "signals"
              /\ HeldSignals(k)' = HeldSignals(k) \cup {Signals[loc[k].next]}
         /\ to # "signals" => HeldSignals(k)' = {}
  <1>1. Signals' = Signals
    BY DEF Signals
  <1>2. /\ pc'[k] = to /\ loc'[k] = n
        /\ \A j \in Seeder \ {k} : pc'[j] = pc[j] /\ loc'[j] = loc[j]
    BY MovesTo
  <1>3. \A j \in Seeder \ {k} : HeldSignals(j)' = HeldSignals(j)
    BY <1>1, <1>2 DEF HeldSignals
  <1>4. ASSUME to = "signals"
        PROVE  /\ loc[k].next <= Len(Signals) /\ pc[k] = "signals"
               /\ HeldSignals(k)' = HeldSignals(k) \cup {Signals[loc[k].next]}
    <2>1. /\ pc[k] = "signals" /\ loc[k].next <= Len(Signals) /\ n.next = loc[k].next + 1
          /\ loc[k].next \in Nat \ {0}
      BY <1>4, SeederIn DEF Leads, Ends, NextSignal, ToFiles, ToNextFile, Onward
    <2>2. 1..n.next - 1 = 1..loc[k].next - 1 \cup {loc[k].next}
      BY <2>1
    <2>3. HeldSignals(k)' = {Signals[i] : i \in 1..n.next - 1}
      BY <1>1, <1>2, <1>4 DEF HeldSignals
    <2>4. HeldSignals(k) = {Signals[i] : i \in 1..loc[k].next - 1}
      BY <2>1 DEF HeldSignals
    <2> QED BY <2>1, <2>2, <2>3, <2>4
  <1>5. to # "signals" => HeldSignals(k)' = {}
    BY <1>2 DEF HeldSignals
  <1> QED BY <1>3, <1>4, <1>5

LEMMA LocksStep == IInv /\ LocksOK /\ [Next]_vars => LocksOK'
  <1> SUFFICES ASSUME IInv, LocksOK, [Next]_vars
               PROVE  LocksOK'
    OBVIOUS
  <1>1. CASE UNCHANGED vars
    <2>1. \A k \in Seeder : HeldSignals(k)' = HeldSignals(k)
      BY <1>1 DEF vars, HeldSignals, Signals
    <2>2. \A k \in Seeder : Queued(pc[k], loc[k])'
      BY <1>1 DEF vars, LocksOK, Queued, Signals, Files
    <2> QED BY <2>1, <2>2 DEF LocksOK
  <1>2. ASSUME NEW k \in Seeder, NEW to \in Place, NEW n \in Local, Moves(k, to, n),
               UNCHANGED disk, Queued(to, n),
               \A j \in Seeder \ {k} : HeldSignals(j)' = HeldSignals(j),
               \A j \in Seeder \ {k} : HeldSignals(j) \cap HeldSignals(k)' = {}
        PROVE  LocksOK'
    <2>1. /\ pc'[k] = to /\ loc'[k] = n
          /\ \A j \in Seeder \ {k} : pc'[j] = pc[j] /\ loc'[j] = loc[j]
      BY <1>2, MovesTo
    <2>2. \A j \in Seeder : Queued(pc[j], loc[j])'
      <3>1. \A j \in Seeder : Queued(pc'[j], loc'[j])
        BY <1>2, <2>1 DEF LocksOK
      <3> QED BY <1>2, <3>1 DEF Queued, Signals, Files
    <2>3. ASSUME NEW i \in Seeder, NEW j \in Seeder, i # j
          PROVE  HeldSignals(i)' \cap HeldSignals(j)' = {}
      <3>1. CASE i = k
        BY <1>2, <2>3, <3>1
      <3>2. CASE j = k
        BY <1>2, <2>3, <3>2
      <3>3. CASE i # k /\ j # k
        BY <1>2, <2>3, <3>3 DEF LocksOK
      <3> QED BY <3>1, <3>2, <3>3
    <2> QED BY <2>2, <2>3 DEF LocksOK
  <1>3. ASSUME NEW k \in Seeder, Step(k)
        PROVE  LocksOK'
    <2>1. PICK to \in Place, n \in Local : Moves(k, to, n) /\ Leads(pc[k], loc[k], to, n)
      BY <1>3, StepLeads
    <2>2. UNCHANGED disk /\ Queued(to, n) /\ pc'[k] = to
      BY <1>3, <2>1, StepLeads, LeadsQueued, MovesTo
    <2>3. ASSUME NEW j \in Seeder \ {k}
          PROVE  HeldSignals(j) \cap HeldSignals(k)' = {}
      <3>1. CASE to = "signals"
        <4>1. /\ loc[k].next <= Len(Signals) /\ pc[k] = "signals"
              /\ HeldSignals(k)' = HeldSignals(k) \cup {Signals[loc[k].next]}
          BY <2>1, <2>2, <3>1, LeadsHeld
        <4>2. Signals[loc[k].next] \notin HeldSignals(j)
          BY <1>3, <2>2, <3>1, <4>1, StepLeads DEF WaitsFor
        <4>3. HeldSignals(j) \cap HeldSignals(k) = {}
          BY DEF LocksOK
        <4> QED BY <4>1, <4>2, <4>3
      <3>2. CASE to # "signals"
        BY <2>1, <2>2, <3>2, LeadsHeld
      <3> QED BY <3>1, <3>2
    <2>4. \A j \in Seeder \ {k} : HeldSignals(j)' = HeldSignals(j)
      BY <2>1, <2>2, LeadsHeld
    <2> QED BY <1>2, <2>1, <2>2, <2>3, <2>4
  <1>4. ASSUME NEW k \in Seeder, NEW to \in Place, NEW n \in Local, Moves(k, to, n),
               UNCHANGED disk, Queued(to, n), to = "signals" => n.next = 1
        PROVE  LocksOK'
    <2>1. /\ pc'[k] = to /\ loc'[k] = n
          /\ \A j \in Seeder \ {k} : pc'[j] = pc[j] /\ loc'[j] = loc[j]
      BY <1>4, MovesTo
    <2>2. \A j \in Seeder \ {k} : HeldSignals(j)' = HeldSignals(j)
      BY <1>4, <2>1 DEF HeldSignals, Signals
    <2>3. HeldSignals(k)' = {}
      BY <1>4, <2>1 DEF HeldSignals
    <2> QED BY <1>2, <1>4, <2>2, <2>3
  <1>5. ASSUME NEW k \in Seeder, Launch(k)
        PROVE  LocksOK'
    <2>1. Moves(k, "signals", NoLocal) /\ UNCHANGED disk /\ "signals" \in Place
      BY <1>5 DEF Launch, Goto, Set, Moves, Place
    <2>2. Queued("signals", NoLocal)
      BY DirOK DEF Queued, NoLocal
    <2> QED BY <1>4, <2>1, <2>2, NoLocalOK
  <1>6. ASSUME NEW k \in Seeder, Kill(k)
        PROVE  LocksOK'
    <2>1. /\ Moves(k, "failed", loc[k]) /\ UNCHANGED disk /\ "failed" \in Place
          /\ loc[k] \in Local
      BY <1>6, SeederIn DEF Kill, Exit, Goto, Set, Moves, Place
    <2>2. Queued("failed", loc[k])
      BY DEF Queued
    <2> QED BY <1>4, <2>1, <2>2
  <1>7. ASSUME NEW d \in Release, Deploy(d)
        PROVE  LocksOK'
    BY <1>7 DEF Deploy, LocksOK, Queued, HeldSignals
  <1> QED BY <1>1, <1>3, <1>5, <1>6, <1>7 DEF Next

LEMMA LocksHold == Spec => [](IInv /\ LocksOK)
  <1>1. Init => LocksOK
    BY DEF Init, LocksOK, Queued, HeldSignals
  <1> QED BY <1>1, IInvHolds, LocksStep, PTL DEF Spec

LEMMA LeastOf ==
  ASSUME NEW S \in SUBSET Nat, S # {}
  PROVE  \E m \in S : \A y \in S : ~(y < m)
  <1> DEFINE R == OpToRel(<, Nat)
  <1>1. IsWellFoundedOn(R, Nat)
    BY NatLessThanWellFounded
  <1>2. \A m, k \in Nat : m < k => <<m, k>> \in R
    BY DEF OpToRel
  <1> HIDE DEF R
  <1>3. \E m \in S : \A y \in S : <<y, m>> \notin R
    BY <1>1, WFMin
  <1> QED BY <1>2, <1>3

(* Who waits for a signal is behind the one that holds it: both go through *)
(* the same list.                                                          *)
LEMMA WaitsBehind ==
  ASSUME IInv, LocksOK, NEW k \in Seeder, NEW j \in Seeder, WaitsFor(k, j)
  PROVE  pc[j] = "signals" /\ loc[k].next < loc[j].next
  <1>1. /\ j # k /\ pc[k] = "signals" /\ Signals[loc[k].next] \in HeldSignals(j)
        /\ loc[k].next \in Nat \ {0} /\ loc[j].next \in Nat \ {0}
    BY SeederIn DEF WaitsFor
  <1>2. pc[j] = "signals"
    BY <1>1 DEF HeldSignals
  <1>3. PICK i \in 1..loc[j].next - 1 : Signals[loc[k].next] = Signals[i]
    BY <1>1, <1>2 DEF HeldSignals
  <1>4. ASSUME i < loc[k].next
        PROVE  FALSE
    <2>1. Signals[i] \in HeldSignals(k)
      BY <1>1, <1>3, <1>4 DEF HeldSignals
    <2> QED BY <1>1, <1>3, <2>1 DEF LocksOK
  <1> QED BY <1>1, <1>2, <1>3, <1>4

(* Seeders never wait for each other in a circle: the batch of signals and *)
(* the transactions of the files take their locks in one order, so that a  *)
(* run can only be held up by one that is ahead of it (Upsert of           *)
(* repository/risk_signal.go and repository/scenario.go).                  *)
THEOREM NoCircleHolds == Spec => []NoCircle
  <1>1. IInv /\ LocksOK => NoCircle
    <2> SUFFICES ASSUME IInv, LocksOK, NEW K \in SUBSET Seeder, K # {}
                 PROVE  \E k \in K : \A j \in K : ~Waits(k, j)
      BY DEF NoCircle
    <2>1. ASSUME NEW k \in K, pc[k] \notin {"signals", "lock", "insert"}
          PROVE  \A j \in K : ~Waits(k, j)
      BY <2>1 DEF Waits, WaitsFor
    <2>2. ASSUME NEW k \in K, pc[k] = "insert", \A j \in K : pc[j] \in {"signals", "lock", "insert"}
          PROVE  \A j \in K : ~Waits(k, j)
      BY <2>2 DEF Waits, WaitsFor, KeysHeld
    <2>3. ASSUME NEW k \in K, pc[k] = "lock", \A j \in K : pc[j] \in {"signals", "lock"}
          PROVE  \A j \in K : ~Waits(k, j)
      BY <2>3 DEF Waits, WaitsFor, RowHeld, LocksOK, Queued, Upserting
    <2>4. ASSUME \A j \in K : pc[j] = "signals"
          PROVE  \E k \in K : \A j \in K : ~Waits(k, j)
      <3> DEFINE Behind == {Len(Signals) + 1 - loc[k].next : k \in K}
      <3>1. \A k \in K : loc[k].next \in Nat /\ loc[k].next <= Len(Signals) + 1
        BY <2>4, SeederIn DEF LocksOK, Queued
      <3>2. Behind \subseteq Nat /\ Behind # {}
        BY <3>1, DirOK
      <3>3. PICK m \in Behind : \A y \in Behind : ~(y < m)
        <4> HIDE DEF Behind
        <4> QED BY <3>2, LeastOf
      <3>4. PICK k \in K : m = Len(Signals) + 1 - loc[k].next
        BY <3>3
      <3>5. ASSUME NEW j \in K
            PROVE  ~(loc[k].next < loc[j].next)
        <4>1. Len(Signals) + 1 - loc[j].next \in Behind
          OBVIOUS
        <4>2. ~(Len(Signals) + 1 - loc[j].next < m)
          BY <3>3, <4>1
        <4> QED BY <3>1, <3>4, <4>2, DirOK
      <3>6. \A j \in K : ~Waits(k, j)
        BY <2>4, <3>5, WaitsBehind DEF Waits
      <3> QED BY <3>6
    <2> QED BY <2>1, <2>2, <2>3, <2>4
  <1> QED BY <1>1, LocksHold, PTL

LEMMA TurnIs ==
  /\ Turn["file"] = 7 /\ Turn["max"] = 6 /\ Turn["unpublish"] = 5 /\ Turn["lock"] = 4
  /\ Turn["insert"] = 3 /\ Turn["steps"] = 2 /\ Turn["commit"] = 1
  BY DEF Turn

LEMMA Sevens ==
  ASSUME NEW n \in Nat
  PROVE  7 * n \in Nat /\ 7 * (n + 1) = 7 * n + 7
  OBVIOUS

LEMMA StatementsLeftOK ==
  ASSUME IInv, LocksOK, NEW k \in Seeder, ~Stopped(k)
  PROVE  StatementsLeft(k) \in Nat \ {0}
  <1>1. /\ loc[k].next \in Nat \ {0} /\ Queued(pc[k], loc[k]) /\ SeederOK(pc[k], loc[k])
        /\ Len(Signals) \in Nat /\ Len(Files) \in Nat /\ pc[k] \in Place
    BY SeederIn, DirOK DEF LocksOK
  <1> DEFINE f == Len(Files)
             x == loc[k].next
  <1>2. CASE pc[k] = "signals"
    <2>1. 7 * (f + 1) \in Nat /\ Len(Signals) + 2 - x \in Nat \ {0}
      BY <1>1, <1>2, Sevens DEF Queued
    <2>2. StatementsLeft(k) = Len(Signals) + 2 - x + 7 * (f + 1)
      BY <1>2 DEF StatementsLeft, Stopped
    <2> QED BY <2>1, <2>2
  <1>3. CASE pc[k] = "file"
    <2>1. f + 1 - x \in Nat
      BY <1>1, <1>3 DEF Queued
    <2>2. 7 * (f + 1 - x) \in Nat
      BY <2>1, Sevens
    <2>3. StatementsLeft(k) = 7 * (f + 1 - x) + 7
      BY <1>3, TurnIs DEF StatementsLeft, Stopped
    <2> QED BY <2>2, <2>3
  <1>4. CASE pc[k] \in Upserting
    <2>1. loc[k].next <= Len(Files)
      BY <1>1, <1>4 DEF SeederOK
    <2>2. Turn[pc[k]] \in 1..6
      BY <1>4, TurnIs DEF Upserting
    <2>3. StatementsLeft(k) = 7 * (f + 1 - x) + Turn[pc[k]]
      BY <1>4 DEF StatementsLeft, Stopped, Upserting
    <2>4. f + 1 - x \in Nat
      BY <1>1, <2>1
    <2>5. 7 * (f + 1 - x) \in Nat
      BY <2>4, Sevens
    <2> QED BY <2>2, <2>3, <2>5
  <1> QED BY <1>1, <1>2, <1>3, <1>4 DEF Place, Stopped

(* A run of the seeder is as long as its directory: each statement brings  *)
(* its seeder closer to the end, or ends it (LoadFromDir has no retries).  *)
THEOREM FewStatementsHolds == Spec => FewStatements
  <1> DEFINE Fewer(k) ==
        ~Stopped(k) => UNCHANGED <<pc[k], loc[k]>>
                       \/ StatementsLeft(k)' \in 0..StatementsLeft(k) - 1
  <1>1. ASSUME IInv, LocksOK, [Next]_vars, NEW k \in Seeder
        PROVE  Fewer(k)
    <2> SUFFICES ASSUME ~Stopped(k)
                 PROVE  \/ UNCHANGED <<pc[k], loc[k]>>
                        \/ StatementsLeft(k)' \in 0..StatementsLeft(k) - 1
      OBVIOUS
    <2>1. CASE UNCHANGED vars
      BY <2>1 DEF vars
    <2>2. ASSUME Stopped(k)'
          PROVE  StatementsLeft(k)' \in 0..StatementsLeft(k) - 1
      <3>1. StatementsLeft(k)' = 0
        BY <2>2 DEF StatementsLeft
      <3>2. StatementsLeft(k) \in Nat \ {0}
        BY <1>1, StatementsLeftOK
      <3> QED BY <3>1, <3>2
    <2>3. ASSUME NEW j \in Seeder \ {k}, Launch(j) \/ Kill(j) \/ Step(j)
          PROVE  UNCHANGED <<pc[k], loc[k]>>
      <3>1. PICK to \in Place, n \in Local : Moves(j, to, n)
        <4>1. CASE Launch(j)
          BY <4>1, NoLocalOK DEF Launch, Goto, Set, Moves, Place
        <4>2. CASE Kill(j)
          BY <1>1, <4>2, SeederIn DEF Kill, Exit, Goto, Set, Moves, Place
        <4>3. CASE Step(j)
          BY <1>1, <4>3, StepLeads
        <4> QED BY <2>3, <4>1, <4>2, <4>3
      <3> QED BY <1>1, <3>1, MovesTo
    <2>4. ~Launch(k)
      BY DEF Launch
    <2>5. CASE Kill(k)
      <3>1. Stopped(k)'
        BY <1>1, <2>5 DEF Kill, Exit, Goto, Stopped, IInv, TypeOK
      <3> QED BY <2>2, <3>1
    <2>6. ASSUME NEW d \in Release, Deploy(d)
          PROVE  FALSE
      BY <2>6 DEF Deploy
    <2>7. CASE Step(k)
      <3> DEFINE l == loc[k]
      <3>1. PICK to \in Place, n \in Local : Moves(k, to, n) /\ Leads(pc[k], l, to, n)
        BY <1>1, <2>7, StepLeads
      <3>2. /\ pc'[k] = to /\ loc'[k] = n /\ Signals' = Signals /\ Files' = Files
            /\ n.next \in Nat
        BY <1>1, <2>7, <3>1, MovesTo, StepLeads DEF Signals, Files, Local
      <3>3. /\ l.next \in Nat \ {0} /\ Queued(pc[k], l) /\ SeederOK(pc[k], l)
            /\ Len(Signals) \in Nat /\ Len(Files) \in Nat
        BY <1>1, SeederIn, DirOK DEF LocksOK
      <3>4. CASE Ends(to)
        BY <2>2, <3>2, <3>4 DEF Ends, Stopped
      <3> DEFINE f == Len(Files)
                 g == Len(Signals)
                 x == l.next
      <3>5. CASE NextSignal(pc[k], l, to, n)
        <4>1. /\ StatementsLeft(k) = g + 2 - x + 7 * (f + 1)
              /\ StatementsLeft(k)' = g + 2 - (x + 1) + 7 * (f + 1) /\ x <= g
          BY <3>2, <3>5 DEF NextSignal, StatementsLeft, Stopped
        <4>2. 7 * (f + 1) \in Nat
          BY <3>3, Sevens
        <4> QED BY <3>3, <4>1, <4>2
      <3>6. CASE ToFiles(pc[k], l, to, n)
        <4>1. /\ StatementsLeft(k) = g + 2 - x + 7 * (f + 1) /\ x = g + 1
              /\ StatementsLeft(k)' = 7 * (f + 1 - 1) + 7
          BY <3>2, <3>6, TurnIs DEF ToFiles, StatementsLeft, Stopped, NoLocal
        <4>2. 7 * (f + 1) = 7 * f + 7 /\ 7 * f \in Nat /\ f + 1 - 1 = f
          BY <3>3, Sevens
        <4> QED BY <3>3, <4>1, <4>2
      <3>7. CASE ToNextFile(pc[k], l, to, n)
        <4>1. /\ StatementsLeft(k) = 7 * (f + 1 - x) + Turn[pc[k]] /\ x <= f
              /\ StatementsLeft(k)' = 7 * (f + 1 - (x + 1)) + 7 /\ Turn[pc[k]] \in {1, 7}
          BY <3>2, <3>7, TurnIs DEF ToNextFile, StatementsLeft, Stopped
        <4> DEFINE m == f - x
        <4>2. m \in Nat /\ f + 1 - x = m + 1 /\ f + 1 - (x + 1) = m
          BY <3>3, <4>1
        <4> HIDE DEF m
        <4>3. 7 * (m + 1) = 7 * m + 7 /\ 7 * m \in Nat
          BY <4>2, Sevens
        <4> QED BY <4>1, <4>2, <4>3
      <3>8. CASE Onward(pc[k], l, to, n)
        <4>1. /\ StatementsLeft(k) = 7 * (f + 1 - x) + Turn[pc[k]] /\ x <= f
              /\ StatementsLeft(k)' = 7 * (f + 1 - x) + Turn[to]
              /\ Turn[pc[k]] \in 1..7 /\ Turn[to] \in 1..6 /\ Turn[to] < Turn[pc[k]]
          BY <3>2, <3>8, TurnIs DEF Onward, StatementsLeft, Stopped
        <4>2. f + 1 - x \in Nat
          BY <3>3, <4>1
        <4>3. 7 * (f + 1 - x) \in Nat
          BY <4>2, Sevens
        <4>4. \A p \in Nat, t \in 1..7, u \in 1..6 : u < t => p + u \in 0..(p + t) - 1
          OBVIOUS
        <4>5. StatementsLeft(k)' \in 0..StatementsLeft(k) - 1
          BY <4>1, <4>3, <4>4
        <4> QED BY <4>5
      <3> QED BY <3>1, <3>4, <3>5, <3>6, <3>7, <3>8 DEF Leads
    <2> QED BY <1>1, <2>1, <2>3, <2>4, <2>5, <2>6, <2>7 DEF Next
  <1>2. IInv /\ LocksOK /\ [Next]_vars => [\A k \in Seeder : Fewer(k)]_vars
    BY <1>1
  <1> QED BY <1>2, LocksHold, PTL DEF Spec, FewStatements

(* A version that was taken off is never on offer again, and no committed  *)
(* version changes its text: sessions stay on the version they are pinned  *)
(* to (the UPDATE and the INSERT of Upsert, repository/scenario.go).       *)
THEOREM TakenOffForGoodHolds == Spec => TakenOffForGood
  <1> DEFINE Kept == \A r \in scenarios, q \in scenarios' :
                       q.code = r.code /\ q.version = r.version =>
                         q.text = r.text /\ (q.active => r.active)
  <1>1. ASSUME IInv, UNCHANGED scenarios
        PROVE  Kept
    <2> SUFFICES ASSUME NEW r \in scenarios, NEW q \in scenarios,
                        q.code = r.code, q.version = r.version
                 PROVE  q = r
      BY <1>1
    <2>1. r.code \in Code /\ r \in Versions(r.code) /\ q \in Versions(r.code)
      BY <1>1 DEF IInv, TypeOK, Row, Versions
    <2>2. PICK n \in Nat : Hist(r.code, n)
      BY <1>1, <2>1 DEF IInv, HistOK
    <2> QED BY <2>1, <2>2 DEF Hist, Numbered
  <1>2. ASSUME IInv, NEW k \in Seeder, Commit(k)
        PROVE  Kept
    <2> DEFINE c == FileOf(k).code
               h == loc[k].held
               m == loc[k].max
    <2>1. /\ c \in Code /\ m \in Nat /\ Hist(c, m)
          /\ scenarios' = {Off(r, c, h) : r \in scenarios} \cup {NewRow(k)}
      BY <1>2, CommitRows
    <2>2. ASSUME NEW r \in scenarios, NEW q \in scenarios',
                 q.code = r.code, q.version = r.version
          PROVE  q.text = r.text /\ (q.active => r.active)
      <3>1. r \in Row /\ r.code \in Code /\ r \in Versions(r.code)
        BY <1>2 DEF IInv, TypeOK, Row, Versions
      <3>2. PICK n \in Nat : Hist(r.code, n)
        BY <1>2, <3>1 DEF IInv, HistOK
      <3>3. CASE q = NewRow(k)
        <4>1. r.code = c /\ r.version = m + 1
          BY <2>2, <3>3 DEF NewRow
        <4>2. r.version \in 1..m
          BY <2>1, <3>1, <4>1 DEF Hist, Numbered
        <4> QED BY <2>1, <4>1, <4>2
      <3>4. ASSUME NEW p \in scenarios, q = Off(p, c, h)
            PROVE  q.text = r.text /\ (q.active => r.active)
        <4>1. p \in Row
          BY <1>2 DEF IInv, TypeOK
        <4>2. /\ q.code = p.code /\ q.version = p.version /\ q.text = p.text
              /\ q.active => p.active
          BY <3>4, <4>1, OffRow
        <4>3. p \in Versions(r.code) /\ p.version = r.version
          BY <2>2, <4>2 DEF Versions
        <4>4. p = r
          BY <3>1, <3>2, <4>3 DEF Hist, Numbered
        <4> QED BY <4>2, <4>4
      <3> QED BY <2>1, <3>3, <3>4
    <2> QED BY <2>2
  <1>3. ASSUME IInv, [Next]_vars
        PROVE  UNCHANGED scenarios \/ \E k \in Seeder : Commit(k)
    BY <1>3 DEF Next, vars, tables, Launch, Kill, Deploy, Step, UpsertSignal, CommitSignals,
       RejectFile, ReadActive, ReadMax, Unpublish, Lock, InsertVersion, InsertSteps, Finish
  <1>4. IInv /\ [Next]_vars => [Kept]_vars
    <2> HIDE DEF Kept
    <2> QED BY <1>1, <1>2, <1>3
  <1> QED BY <1>4, IInvHolds, PTL DEF Spec, TakenOffForGood

-----------------------------------------------------------------------------
(* The refinement: the texts of the versions, in order.                    *)

Texts(rows) == [v \in 1..Cardinality(rows) |-> (CHOOSE r \in rows : r.version = v).text]

LEMMA PublishedIs == Published = [c \in Code |-> Texts(Versions(c))]
  BY DEF Published, Texts

LEMMA TextsAre ==
  ASSUME NEW rows \in SUBSET Row, NEW n, Numbered(rows, n)
  PROVE  /\ Texts(rows) \in Seq(Text) /\ Len(Texts(rows)) = n
         /\ \A r \in rows : Texts(rows)[r.version] = r.text
  <1> DEFINE f == Texts(rows)
  <1>1. n \in Nat /\ f = [v \in 1..n |-> (CHOOSE r \in rows : r.version = v).text]
    BY NumberedCardinality DEF Numbered, Texts
  <1>2. ASSUME NEW v \in 1..n
        PROVE  \E r \in rows : r.version = v /\ f[v] = r.text /\ r.text \in Text
    <2>1. \E r \in rows : r.version = v
      BY DEF Numbered
    <2>2. (CHOOSE r \in rows : r.version = v) \in rows
          /\ (CHOOSE r \in rows : r.version = v).version = v
      BY <2>1
    <2> QED BY <1>1, <2>2 DEF Row
  <1>3. f \in [1..n -> Text]
    BY <1>1, <1>2
  <1>4. f \in Seq(Text)
    BY <1>1, <1>3, SeqDef
  <1>5. Len(f) = n
    <2>1. DOMAIN f = 1..Len(f) /\ Len(f) \in Nat /\ DOMAIN f = 1..n
      BY <1>3, <1>4, LenProperties
    <2> QED BY <1>1, <2>1
  <1>6. \A r \in rows : f[r.version] = r.text
    BY <1>2 DEF Numbered
  <1> QED BY <1>4, <1>5, <1>6

LEMMA TextsGrow ==
  ASSUME NEW old \in SUBSET Row, NEW now \in SUBSET Row, NEW n, NEW text \in Text,
         Numbered(old, n), Numbered(now, n + 1),
         \A r \in old : \E q \in now : q.version = r.version /\ q.text = r.text,
         \E q \in now : q.version = n + 1 /\ q.text = text
  PROVE  Texts(now) = Append(Texts(old), text)
  <1> DEFINE s == Texts(old)
             t == Texts(now)
  <1>1. /\ n \in Nat /\ s \in Seq(Text) /\ Len(s) = n /\ t \in Seq(Text) /\ Len(t) = n + 1
        /\ \A r \in old : s[r.version] = r.text
        /\ \A q \in now : t[q.version] = q.text
    BY TextsAre DEF Numbered
  <1>2. \A v \in 1..n : t[v] = s[v]
    <2>1. ASSUME NEW v \in 1..n
          PROVE  t[v] = s[v]
      <3>1. PICK r \in old : r.version = v
        BY DEF Numbered
      <3>2. PICK q \in now : q.version = v /\ q.text = r.text
        BY <3>1
      <3> QED BY <1>1, <3>1, <3>2
    <2> QED BY <2>1
  <1>3. t[n + 1] = text
    BY <1>1
  <1> HIDE DEF s, t
  <1>4. Append(s, text) \in Seq(Text) /\ Len(Append(s, text)) = n + 1
        /\ \A v \in 1..n + 1 : Append(s, text)[v] = IF v = n + 1 THEN text ELSE s[v]
    BY <1>1
  <1>5. \A v \in 1..n + 1 : t[v] = Append(s, text)[v]
    BY <1>1, <1>2, <1>3, <1>4
  <1>6. t = Append(s, text)
    BY <1>1, <1>4, <1>5, SeqEqual
  <1> QED BY <1>6 DEF s, t

(* The versions of the catalog are never rewritten, renumbered or removed: *)
(* loading implements a catalog to which versions are appended (Upsert of  *)
(* repository/scenario.go).                                                *)
THEOREM SeedingImplementsCatalog == Spec => ImplementsCatalog
  <1>1. Init => Loading!Init
    <2> SUFFICES ASSUME Init
                 PROVE  Published = [c \in Code |-> <<>>]
      BY DEF Loading!Init
    <2>1. ASSUME NEW c \in Code
          PROVE  Texts(Versions(c)) = <<>>
      <3>1. Versions(c) = {}
        BY DEF Init, Versions
      <3>2. {} \in SUBSET Row /\ Numbered({}, 0)
        BY DEF Numbered
      <3>3. Texts({}) \in Seq(Text) /\ Len(Texts({})) = 0
        BY <3>2, TextsAre
      <3> QED BY <3>1, <3>3, EmptySeq
    <2> QED BY <2>1, PublishedIs
  <1>2. IInv /\ [Next]_vars => [Loading!Next]_Published
    <2> SUFFICES ASSUME IInv, [Next]_vars
                 PROVE  Loading!Next \/ UNCHANGED Published
      OBVIOUS
    <2>1. ASSUME NEW k \in Seeder, Commit(k)
          PROVE  Loading!Next
      <3>1. PICK c : c = FileOf(k).code
        OBVIOUS
      <3>2. PICK n : n = loc[k].max
        OBVIOUS
      <3>3. PICK text : text = FileOf(k).text
        OBVIOUS
      <3>4. text \in Text
        <4>1. pc[k] \in Upserting
          BY <2>1 DEF Commit, Upserting
        <4> QED BY <3>3, <4>1, SeederIn DEF File
      <3>5. /\ c \in Code /\ Hist(c, n) /\ Hist(c, n + 1)'
            /\ \A r \in Versions(c) : \E q \in Versions(c)' : q.version = r.version /\ q.text = r.text
            /\ \E q \in Versions(c)' : q.version = n + 1 /\ q.text = text
            /\ \A d \in Code \ {c} : Versions(d)' = Versions(d)
        BY <2>1, <3>1, <3>2, <3>3, CommitHist, CommitVersions
      <3>6. Versions(c) \in SUBSET Row /\ Versions(c)' \in SUBSET Row
        BY <2>1, CommitRows DEF IInv, TypeOK, Versions
      <3>7. Texts(Versions(c)') = Append(Texts(Versions(c)), text)
        BY <3>4, <3>5, <3>6, TextsGrow DEF Hist
      <3>8. Published' = [d \in Code |-> Texts(Versions(d)')]
        BY DEF Published, Texts
      <3>9. Published' = [Published EXCEPT ![c] = Append(@, text)]
        BY <3>5, <3>7, <3>8, PublishedIs
      <3> QED BY <3>4, <3>5, <3>9 DEF Loading!Next, Loading!Publish
    <2>2. CASE UNCHANGED scenarios
      <3>1. \A c : Versions(c)' = Versions(c)
        BY <2>2, SameRows
      <3>2. Published' = [c \in Code |-> Texts(Versions(c)')]
        BY DEF Published, Texts
      <3> QED BY <3>1, <3>2, PublishedIs
    <2> QED BY <2>1, <2>2 DEF Next, vars, tables, Launch, Kill, Deploy, Step, UpsertSignal,
            CommitSignals, RejectFile, ReadActive, ReadMax, Unpublish, Lock, InsertVersion,
            InsertSteps, Finish
  <1> QED BY <1>1, <1>2, IInvHolds, PTL DEF Spec, ImplementsCatalog, Loading!Spec

=============================================================================
