---------------------------- MODULE ProxyService ----------------------------
(***************************************************************************)
(* What the mesh promises a client, without frames, circuits or reports:    *)
(* one answer to each request, and an answer the facts justify.  A drain of *)
(* a node is seen by the clients of that node only; a saturated or failed   *)
(* peer is waited out, unless the entry node itself had given up.           *)
(***************************************************************************)
CONSTANTS Nodes, NoNode, Clients

VARIABLES
    client,      \* "new", "open", "left" or "answered"
    answer,      \* the kind of answer and the node that generated it
    entry,       \* the node the request entered
    draining,    \* nodes that are shutting down
    lacked,      \* nodes that did not know the model at some time
    overdue,     \* clients whose deadline has passed
    spent        \* clients whose entry node gave up starting the model

facts == <<draining, lacked, overdue, spent>>
vars  == <<client, answer, entry, facts>>

NoAnswer == <<"none", NoNode>>

Init ==
    /\ client = [c \in Clients |-> "new"]
    /\ answer = [c \in Clients |-> NoAnswer]
    /\ entry = [c \in Clients |-> NoNode]
    /\ draining = {} /\ lacked \subseteq Nodes
    /\ overdue = {} /\ spent = {}

Submit(c) ==
    /\ client[c] = "new"
    /\ client' = [client EXCEPT ![c] = "open"]
    /\ \E n \in Nodes : entry' = [entry EXCEPT ![c] = n]
    /\ UNCHANGED <<answer, facts>>

\* Which facts allow an answer of this kind from node n
Justified(c, kind, n) ==
    \/ kind \in {"ok", "stream", "upstream"}
    \/ kind = "draining" /\ n = entry[c] /\ n \in draining
    \/ kind = "queue_timeout" /\ c \in overdue \cup spent
    \/ kind = "notfound" /\ n \in lacked
    \/ kind \in {"no_capacity", "exhausted"} /\ (n = entry[c] \/ c \in spent)
    \/ kind = "bad" /\ n # NoNode

Reply(c) ==
    /\ client[c] = "open"
    /\ client' = [client EXCEPT ![c] = "answered"]
    /\ \E n \in Nodes, kind \in {"ok", "stream", "upstream", "draining", "queue_timeout",
                                 "notfound", "no_capacity", "exhausted", "bad"} :
          /\ Justified(c, kind, n)
          /\ answer' = [answer EXCEPT ![c] = <<kind, n>>]
    /\ UNCHANGED <<entry, facts>>

Leave(c) ==
    /\ client[c] = "open"
    /\ client' = [client EXCEPT ![c] = "left"]
    /\ UNCHANGED <<answer, entry, facts>>

\* A fact becomes true; none becomes false again
Establish ==
    /\ draining \subseteq draining' /\ draining' \subseteq Nodes
    /\ lacked \subseteq lacked' /\ lacked' \subseteq Nodes
    /\ overdue \subseteq overdue' /\ overdue' \subseteq {c \in Clients : client[c] # "new"}
    /\ spent \subseteq spent' /\ spent' \subseteq {c \in Clients : client[c] # "new"}
    /\ UNCHANGED <<client, answer, entry>>

Next == Establish \/ \E c \in Clients : Submit(c) \/ Reply(c) \/ Leave(c)

Spec == Init /\ [][Next]_vars

\* No client waits for ever
Fairness == \A c \in Clients : WF_vars(Reply(c))

FairSpec == Spec /\ Fairness

============================================================================
