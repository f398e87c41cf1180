---------------------------- MODULE MCForwarding ----------------------------
(***************************************************************************)
(* Small instances of Forwarding.                                          *)
(***************************************************************************)
EXTENDS Forwarding

CONSTANTS n1, n2, c1, f1, f2, f3

TwoNodes == {n1, n2}
OneEntry == {n1}
OneClient == {c1}

ThreeFrames == {f1, f2, f3}

Machine == [ready |-> FALSE, has |-> FALSE, current |-> 0, queue |-> 0, loaded |-> FALSE,
            active |-> 0, max_instances |-> 1, tps |-> 0, vram |-> 1, sysmem |-> 0,
            available_vram |-> 1, available_sysmem |-> 1, max_vram |-> 1, max_sysmem |-> 1]

\* All nodes alike
Alike == [n \in Nodes |-> Machine]

============================================================================
