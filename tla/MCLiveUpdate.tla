---------------------------- MODULE MCLiveUpdate ----------------------------
(***************************************************************************)
(* Small instances of LiveUpdate.                                          *)
(***************************************************************************)
EXTENDS LiveUpdate, TLC

CONSTANTS i1, i2, a, b

OneId  == {i1}
TwoIds == {i1, i2}
TwoArgs == {a, b}

Symmetry == Permutations(Ids) \cup Permutations(Args)

============================================================================
