----------------------------- MODULE MCSeeding -----------------------------
(* Instances of Seeding for TLC: content directories.                      *)
EXTENDS Seeding, TLC

CONSTANTS g1, g2, c1, c2, x, y, z, r1, r2, r3

ValidFile(c, t) == [code |-> c, text |-> t, verdict |-> "valid"]
InvalidFile(c, t) == [code |-> c, text |-> t, verdict |-> "invalid"]
UnstorableFile(c, t) == [code |-> c, text |-> t, verdict |-> "unstorable"]

DirOf(files) == [signals |-> <<g1, g2>>, files |-> files]

(* A release, one that edits c1 and brings a file with issues before it,   *)
(* and one that edits both, one of them in a way the tables refuse.        *)
Edited == r1 :> DirOf(<<ValidFile(c1, x), ValidFile(c2, x)>>)
       @@ r2 :> DirOf(<<InvalidFile(c2, z), ValidFile(c1, y)>>)
       @@ r3 :> DirOf(<<ValidFile(c2, y), UnstorableFile(c1, z)>>)

(* The second release edits c1.                                            *)
Clean == r1 :> DirOf(<<ValidFile(c1, x), ValidFile(c2, x)>>)
      @@ r2 :> DirOf(<<ValidFile(c1, y), ValidFile(c2, x)>>)

SeedersAlike == Permutations(Seeder)

=============================================================================
