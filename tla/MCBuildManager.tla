--------------------------- MODULE MCBuildManager ---------------------------
(***************************************************************************)
(* Small instances of BuildManager.                                        *)
(***************************************************************************)
EXTENDS BuildManager

CONSTANTS c1, c2, c3

ThreeCommits == {c1, c2, c3}
OneBroken == {c2}

\* c3 is like c1, and c2 is one move away
TheFirst == {c1}

============================================================================
