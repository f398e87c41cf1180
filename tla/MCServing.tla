----------------------------- MODULE MCServing -----------------------------
(***************************************************************************)
(* Instances of Serving for TLC.                                            *)
(***************************************************************************)
EXTENDS Serving

AllProtocols == Protocols
AllKinds == {"infer", "prewarm", "probe", "gossip"}
Full == {[tls |-> TRUE, noise |-> TRUE, cluster |-> TRUE], [tls |-> FALSE, noise |-> FALSE, cluster |-> FALSE]}

=============================================================================
