------------------------------ MODULE MCGossip ------------------------------
(***************************************************************************)
(* Small instances of Gossip.                                              *)
(***************************************************************************)
EXTENDS Gossip

TwoSeconds == {1, 2}

============================================================================
