------------------------------- MODULE Gossip -------------------------------
(***************************************************************************)
(* What one node believes about another.  The sender stamps each gossip     *)
(* round with its process's epoch and a sequence number; messages are       *)
(* lost, delayed, repeated and overtake each other, the sender drains,      *)
(* exits, crashes and starts again, perhaps as an older version that does   *)
(* not stamp, perhaps with its clock set back.  The receiver keeps one      *)
(* entry, refuses what is not newer while the entry is fresh, and takes     *)
(* anything once it is stale.                                               *)
(*                                                                         *)
(* Entries of several senders are independent.  A process is numbered by    *)
(* `run`; its random epoch is that number, or 0 for an older version.       *)
(*                                                                         *)
(* Sources: cluster.rs (start_gossip_loop, process_gossip_message),         *)
(* node_state/mod.rs (get_gossip_peer_state, can_serve_locally,             *)
(* has_forwarding_target, select_best_node), api.rs (wait_for_shutdown_     *)
(* signal, wait_for_drain_gossip).                                          *)
(***************************************************************************)
EXTENDS Naturals

CONSTANTS
    MaxRuns,       \* bound on processes of the sender
    MaxSeq,        \* bound on rounds a process stamps afresh
    Timeout,       \* age up to which an entry is fresh
    Seconds,       \* start times, in seconds
    Legacy,        \* a process may be an older version
    Rejects        \* the receiver may refuse the sender's version

ASSUME GossipAssumption ==
    /\ MaxRuns \in Nat \ {0} /\ MaxSeq \in Nat \ {0} /\ Timeout \in Nat
    /\ Seconds \subseteq Nat \ {0} /\ Seconds # {}
    /\ Legacy \in BOOLEAN /\ Rejects \in BOOLEAN

VARIABLES
    \* the sender
    run,           \* its latest process
    up,            \* "up", "draining" or "down"
    stamps,        \* it stamps its messages
    started,       \* started_at_unix
    stepped,       \* its clock was set back between two processes
    seq,           \* gossip_seq
    has_binary,    \* binary_path exists
    announced,     \* the round that announces the drain has ended
    \* the network
    net,           \* messages under way
    \* the receiver
    known,         \* it has an entry for the sender
    peer,          \* the entry
    age            \* the entry's age, up to Timeout + 1

senderVars == <<run, up, stamps, started, stepped, seq, has_binary, announced>>
receiverVars == <<known, peer, age>>
vars == <<senderVars, net, receiverVars>>

\* run and drains, who sent it and whether that process was draining, are not
\* part of the message; only properties look at them
Messages == [epoch : 0 .. MaxRuns, run : 0 .. MaxRuns, seq : 0 .. MaxSeq,
             started : Seconds \cup {0}, ready : BOOLEAN, drains : BOOLEAN]

\* An entry learnt from a third node, or none at all
Placeholder == [epoch |-> 0, run |-> 0, seq |-> 0, started |-> 0, ready |-> FALSE,
                drains |-> FALSE]

Init ==
    /\ run = 1 /\ up = "up" /\ seq = 0 /\ announced = FALSE
    /\ stamps \in {TRUE} \cup (IF Legacy THEN {FALSE} ELSE {})
    /\ started \in Seconds /\ stepped = FALSE /\ has_binary \in BOOLEAN
    /\ net = {} /\ known = FALSE /\ peer = Placeholder /\ age = 0

----------------------------------------------------------------------------
\* The sender

\* can_serve_locally
Ready == up = "up" /\ has_binary

\* Variant: <= for <
NextSeqPast == IF seq <= MaxSeq THEN seq + 1 ELSE seq

\* get_gossip_peer_state: after MaxSeq rounds the last number stands for the rest
NextSeq == IF seq < MaxSeq THEN seq + 1 ELSE seq

Snapshot ==
    [epoch |-> IF stamps THEN run ELSE 0, run |-> run,
     seq |-> IF stamps THEN NextSeq ELSE 0, started |-> started, ready |-> Ready,
     drains |-> up = "draining"]

\* A round that does not announce a drain may find no permit and skip the peer
Round ==
    /\ up = "up"
    /\ seq' = NextSeq
    /\ net' \in {net, net \cup {Snapshot}}
    /\ UNCHANGED <<run, up, stamps, started, stepped, has_binary, announced, receiverVars>>

\* The announcing round takes no permit and sends to every peer
DrainRound ==
    /\ up = "draining" /\ seq < MaxSeq
    /\ seq' = seq + 1
    /\ net' = net \cup {Snapshot}
    /\ UNCHANGED <<run, up, stamps, started, stepped, has_binary, announced, receiverVars>>

\* Its sends have ended, answered or not
DrainSent ==
    /\ up = "draining" /\ ~announced
    /\ \E m \in net : m.run = run /\ m.drains
    /\ announced' = TRUE
    /\ UNCHANGED <<run, up, stamps, started, stepped, seq, has_binary, net, receiverVars>>

\* A build makes the binary available
BinaryAppears ==
    /\ up = "up" /\ ~has_binary /\ seq < MaxSeq
    /\ has_binary' = TRUE
    /\ UNCHANGED <<run, up, stamps, started, stepped, seq, announced, net, receiverVars>>

\* wait_for_shutdown_signal
BeginDrain ==
    /\ up = "up" /\ seq < MaxSeq
    /\ up' = "draining"
    /\ UNCHANGED <<run, stamps, started, stepped, seq, has_binary, announced, net, receiverVars>>

\* The process ends: drained and announced, or out of patience, or killed
Exit ==
    /\ up # "down"
    /\ up' = "down"
    /\ UNCHANGED <<run, stamps, started, stepped, seq, has_binary, announced, net, receiverVars>>

Restart ==
    /\ up = "down" /\ run < MaxRuns
    /\ run' = run + 1 /\ up' = "up" /\ seq' = 0 /\ announced' = FALSE
    /\ stamps' \in {TRUE} \cup (IF Legacy THEN {FALSE} ELSE {})
    /\ started' \in Seconds /\ stepped' = (stepped \/ started' < started)
    /\ UNCHANGED <<has_binary, net, receiverVars>>

----------------------------------------------------------------------------
\* The network

Lose(m) ==
    /\ m \in net
    /\ net' = net \ {m}
    /\ UNCHANGED <<senderVars, receiverVars>>

----------------------------------------------------------------------------
\* The receiver

Fresh == age <= Timeout

Ordered(m) == m.epoch # 0 /\ m.seq # 0

\* Variant: a process's messages are taken in any order
NewerInAnyOrder(m) ==
    ~Ordered(peer) \/ (Ordered(m) /\ (m.epoch = peer.epoch \/ m.started >= peer.started))

\* Variant: start times are not compared
NewerFromAnyProcess(m) ==
    ~Ordered(peer) \/ (Ordered(m) /\ (m.epoch = peer.epoch => m.seq > peer.seq))

Newer(m) ==
    \/ ~Ordered(peer)
    \/ /\ Ordered(m)
       /\ IF m.epoch = peer.epoch THEN m.seq > peer.seq ELSE m.started >= peer.started

\* process_gossip_message, for a message it takes, ...
Accepts(m) == known /\ Fresh => Newer(m)

Accept(m) ==
    /\ m \in net /\ Accepts(m)
    /\ known' = TRUE /\ peer' = m /\ age' = 0
    /\ net' \in {net, net \ {m}}
    /\ UNCHANGED senderVars

\* ... and for one it ignores as stale, as a duplicate or for its version
Refused(m) == ~Accepts(m) \/ Rejects

\* Variant: an ignored message refreshes the entry
IgnoreRefreshes(m) ==
    /\ m \in net /\ Refused(m)
    /\ net' = net \ {m}
    /\ age' = 0
    /\ UNCHANGED <<senderVars, known, peer>>

Ignore(m) ==
    /\ m \in net /\ Refused(m)
    /\ net' = net \ {m}
    /\ UNCHANGED <<senderVars, receiverVars>>

\* A third node's message lists the sender: only an unknown peer gets an entry
HearOf ==
    /\ ~known
    /\ known' = TRUE /\ peer' = Placeholder /\ age' = 0
    /\ UNCHANGED <<senderVars, net>>

Tick ==
    /\ known /\ age <= Timeout
    /\ age' = age + 1
    /\ UNCHANGED <<senderVars, net, known, peer>>

\* Variant: stale entries are routed to
RoutableStale == known /\ peer.ready

\* What has_forwarding_target and select_best_node ask of a peer
Routable == known /\ Fresh /\ peer.ready

----------------------------------------------------------------------------
Next ==
    \/ Round \/ DrainRound \/ DrainSent \/ BinaryAppears \/ BeginDrain \/ Exit \/ Restart
    \/ HearOf \/ Tick
    \/ \E m \in net : Lose(m) \/ Accept(m) \/ Ignore(m)

Spec == Init /\ [][Next]_vars

\* Rounds recur and some messages of the latest process arrive; no message is
\* under way for ever, and time passes
Fairness ==
    /\ SF_vars(Round /\ net' # net)
    /\ SF_vars(\E m \in net : m.run = run /\ Accept(m))
    /\ \A r \in 0 .. MaxRuns :
          WF_vars((r # run \/ up = "down") /\ \E m \in net : m.run = r /\ Lose(m))
    /\ WF_vars(Tick)

FairSpec == Spec /\ Fairness

----------------------------------------------------------------------------
\* Properties

\* Every variable stays within its type.
TypeOK ==
    /\ run \in 1 .. MaxRuns /\ up \in {"up", "draining", "down"} /\ stamps \in BOOLEAN
    /\ started \in Seconds /\ stepped \in BOOLEAN /\ seq \in 0 .. MaxSeq /\ has_binary \in BOOLEAN
    /\ announced \in BOOLEAN
    /\ net \subseteq Messages
    /\ known \in BOOLEAN /\ peer \in Messages /\ age \in 0 .. Timeout + 1

\* Once a fresh entry shows that a process drains, nothing that process sent
\* earlier makes it routable again, whatever order its messages arrive in.
DrainIsNotUndone ==
    Ordered(peer) /\ peer.drains /\ Fresh /\ peer'.run = peer.run => ~peer'.ready

\* While the sender's clock runs forward, a fresh entry of one process is only replaced
\* by an earlier process's if both started in the same second.
OldProcessesAreIgnored ==
    ~stepped /\ known /\ Fresh /\ Ordered(peer) /\ peer'.run < peer.run =>
          peer'.started = peer.started

\* A process that stays up is what the receiver knows in the end, however its
\* predecessors' messages and clocks stand in its way: a node can always rejoin.
NodeRejoins == <>[](up = "up" => known /\ peer.run = run)

\* A node that is down stops being a routing target.
DownNodeIsLeft == <>[](up = "down" => ~Routable)

\* No order of arrival makes the receiver forget what it knew: neither a late state of
\* the same process nor one of an older process replaces a newer one.
ReceiverIsNotMisled == [][TypeOK' /\ DrainIsNotUndone /\ OldProcessesAreIgnored]_vars

\* The receiver's view of the node becomes right: a restarted one is accepted and one
\* that is down is left.
ReceiverCatchesUp == NodeRejoins /\ DownNodeIsLeft

============================================================================
