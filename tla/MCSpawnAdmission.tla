-------------------------- MODULE MCSpawnAdmission --------------------------
(***************************************************************************)
(* Small instances of SpawnAdmission: two or three spawners of two profiles *)
(* whose estimates are 1 and 2 units of memory.                             *)
(***************************************************************************)
EXTENDS SpawnAdmission, TLC

CONSTANTS s1, s2, s3, i1, i2, i3, small, large, p1, p2

TwoSpawners   == {s1, s2}
SamePair      == {s1, s3}
ThreeSpawners == {s1, s2, s3}
OneClient     == {s1}
OnePrewarm    == {s3}
Nobody        == {}
ThreeIds      == {i1, i2, i3}
TwoIds        == {i1, i2}
TwoPorts      == {p1, p2}
BothProfiles  == {small, large}

\* s1 and s3 want the small profile, s2 the large one
ProfileOfSpawner == [s \in Spawners |-> IF s = s2 THEN large ELSE small]
CostOfProfile    == [p \in Profiles |-> IF p = large THEN 2 ELSE 1]

NoExternal   == {0}
SomeExternal == {0, 1}
OneLimit     == {1}
TwoLimits    == {1, 2}

Symmetry == Permutations(Ids) \cup Permutations(Ports)

============================================================================
