----------------------------- MODULE Forwarding -----------------------------
(***************************************************************************)
(* Requests for one model:profile travelling through a mesh of nodes.  Each *)
(* invocation of route_request is a frame: a client's request opens one on  *)
(* the node it enters, and every forward opens another on the peer.  A      *)
(* frame chooses a node from what it knows (stale reports of its peers,     *)
(* circuits, drained peers), forwards or serves, and retries with patience. *)
(* When a caller goes away its frame on the next node is left without one,  *)
(* and ends when it notices.                                               *)
(*                                                                         *)
(* Serving from a local instance is abstracted to its outcomes; modules     *)
(* RequestQueue and SpawnAdmission model it.  So is the circuit of a peer,  *)
(* which module CircuitBreaker models.                                     *)
(*                                                                         *)
(* Sources: router.rs (route_request, routing_preflight,                    *)
(* wait_for_capacity_or_disconnect, attempt_peer_forward and its            *)
(* classification, RequestGuard, the response cleanups), node_state/mod.rs  *)
(* (track_peer_forward, PeerForwardGuard, begin_shutdown_drain).            *)
(***************************************************************************)
EXTENDS PeerSelection, FiniteSets

CONSTANTS
    Nodes, NoNode,
    Entries,        \* nodes that clients reach
    Clients,        \* requests from outside the mesh
    Frames,         \* bound on the invocations alive at one time
    Nobody,         \* the caller of a frame whose caller has gone
    MaxHops,        \* config.max_hops
    Hardware,       \* what a node's report says of its capacity
    MaxEvents       \* bound on what happens to the nodes: reports, drains, reloads...

ASSUME ForwardingAssumption ==
    /\ MaxHops \in Nat /\ MaxEvents \in Nat
    /\ NoNode \notin Nodes /\ Entries \subseteq Nodes /\ Nobody \notin Clients \cup Frames
    /\ Clients \cap Frames = {} /\ IsFiniteSet(Frames)

VARIABLES
    client,         \* where each client is: "new", "open", "left" or "answered"
    answer,         \* the answer it received
    frame,          \* the invocations of route_request
    cookbook,       \* nodes whose cookbook has the model enabled
    binary,         \* nodes with a llama-server binary
    draining,       \* nodes that are shutting down
    view,           \* view[n][m]: the report of m that n holds
    circuit,        \* circuit[n][m]: n's circuit for m
    current,        \* metrics.current_requests of each node
    pending,        \* peer_pending_forwards of each node
    events,         \* how many of MaxEvents have happened
    \* facts the abstract specification speaks of
    entry,          \* the node a client's request entered
    lacked,         \* nodes whose cookbook lacked the model at some time
    overdue,        \* clients whose queue deadline has passed on their entry node
    spent           \* clients whose entry node gave up spawning

nodeVars == <<cookbook, binary, draining, view, events>>
factVars == <<entry, lacked, overdue, spent>>
vars == <<client, answer, frame, nodeVars, circuit, current, pending, factVars>>

NoReport == [ready |-> FALSE, has |-> FALSE, current |-> -1]

\* An answer and the node that generated it
NoAnswer == <<"none", NoNode>>

\* An unused frame
Idle == [pc |-> "free", node |-> NoNode, caller |-> Nobody, hops |-> 0, stream |-> FALSE,
         expired |-> FALSE, knows |-> FALSE, fallback |-> FALSE, found |-> FALSE,
         drained |-> {}, exclude |-> NoNode, denied |-> NoNode, target |-> NoNode,
         child |-> Nobody, ticket |-> FALSE, armed |-> "no", bounded |-> FALSE,
         skip |-> FALSE, errors |-> 0, out |-> NoAnswer, relayed |-> FALSE]

Init ==
    /\ client = [c \in Clients |-> "new"]
    /\ answer = [c \in Clients |-> NoAnswer]
    /\ frame = [f \in Frames |-> Idle]
    /\ cookbook \in SUBSET Nodes
    /\ binary \in SUBSET Nodes
    /\ draining = {}
    /\ events = 0
    /\ view = [n \in Nodes |-> [m \in Nodes |->
                  IF m = n THEN NoReport
                  ELSE [ready |-> m \in binary, has |-> m \in cookbook, current |-> 0]]]
    /\ \E c \in {"closed", "due"} : circuit = [n \in Nodes |-> [m \in Nodes |-> c]]
    /\ current = [n \in Nodes |-> 0]
    /\ pending = [n \in Nodes |-> [m \in Nodes |-> 0]]
    /\ entry = [c \in Clients |-> NoNode]
    /\ lacked = Nodes \ cookbook
    /\ overdue = {} /\ spent = {}

----------------------------------------------------------------------------
\* Answers

Healable == {"queue_timeout", "no_capacity", "exhausted"}

\* 4xx and 5xx answers
IsError(out) == out[1] \notin {"ok", "stream"}

\* peer_status_is_failure, for an answer that is no drain rejection.  Peers accept each
\* other's credentials here, so that none answers 401 or 403.
IsFailure(out) == out[1] \in Healable \cup {"upstream"}

----------------------------------------------------------------------------
\* Frames

Live(f) == frame[f].pc # "free"
Gone(f) == frame[f].caller = Nobody

\* notify_waiters on the capacity of n: it wakes the subscriptions that exist
Notified(fr, n) ==
    [g \in Frames |-> IF fr[g].node = n /\ fr[g].armed = "armed"
                      THEN [fr[g] EXCEPT !.armed = "fired"] ELSE fr[g]]

\* The caller of g drops the connection to it; an answer waiting there is lost
Abandoned(fr, g) ==
    IF g = Nobody THEN fr
    ELSE [fr EXCEPT ![g] = IF @.pc = "done" THEN Idle ELSE [@ EXCEPT !.caller = Nobody]]

Goto(f, pc) == frame' = [frame EXCEPT ![f].pc = pc]

\* An open call is counted in current_requests from the resolution of the
\* model to its end, and in pending while it forwards
\* Variant: the guard is handed to a response that never comes
HoldsForwardUnsent(f) == frame[f].target # NoNode /\ frame[f].pc \in {"sent", "stream"}

HoldsForward(f) == frame[f].target # NoNode /\ frame[f].pc \in {"dispatch", "sent", "stream"}

PendingAfter(f) ==
    IF HoldsForward(f)
    THEN [pending EXCEPT ![frame[f].node][frame[f].target] = @ - 1]
    ELSE pending

\* dec_current_requests saturates
DecCurrent(n) == [current EXCEPT ![n] = SaturatingSub(@, 1)]

\* The frame ends with an answer, for which it counts so many errors.  RequestGuard
\* or the cleanup of the response gives back the request, PeerForwardGuard the
\* forward.
Ended(f, out, relayed, counted) ==
    LET r == frame[f]
        e == IF Gone(f) THEN Idle
             ELSE [Idle EXCEPT !.pc = "done", !.out = out, !.relayed = relayed,
                               !.node = r.node, !.caller = r.caller, !.errors = r.errors + counted]
    IN  Abandoned([frame EXCEPT ![f] = e], r.child)

End(f, out, relayed, counted) ==
    /\ frame' = Ended(f, out, relayed, counted)
    /\ current' = DecCurrent(frame[f].node)
    /\ pending' = PendingAfter(f)

Own(f, kind) == <<kind, frame[f].node>>

Answer(f, kind, counted) == End(f, Own(f, kind), FALSE, counted)

\* Refused before it was counted
Refuse(f, kind) ==
    /\ frame' = Ended(f, Own(f, kind), FALSE, 0)
    /\ UNCHANGED <<current, pending>>

----------------------------------------------------------------------------
\* Arrival

FreeFrame == CHOOSE f \in Frames : ~Live(f)
SomeFree  == \E f \in Frames : ~Live(f)

Opened(caller, n, hops, stream) ==
    [Idle EXCEPT !.pc = "arrive", !.caller = caller, !.node = n, !.hops = hops,
                 !.stream = stream]

Submit(c, n, stream) ==
    /\ client[c] = "new" /\ SomeFree
    /\ client' = [client EXCEPT ![c] = "open"]
    /\ entry' = [entry EXCEPT ![c] = n]
    /\ frame' = [frame EXCEPT ![FreeFrame] = Opened(c, n, 0, stream)]
    /\ UNCHANGED <<answer, nodeVars, circuit, current, pending, lacked, overdue, spent>>

\* The first check of route_request; then the body is read
Arrive(f) ==
    /\ frame[f].pc = "arrive"
    /\ IF frame[f].node \in draining
       THEN Refuse(f, "draining")
       ELSE Goto(f, "body") /\ UNCHANGED <<current, pending>>
    /\ UNCHANGED <<client, answer, nodeVars, circuit, factVars>>

\* Variant: one hop more
TooFarByOne(f) == frame[f].hops > MaxHops + 1

TooFar(f) == frame[f].hops > MaxHops

\* The request has no valid key, its body cannot be used or was read too slowly,
\* its profile does not have the endpoint, or it has come too far
Reject(f) ==
    /\ frame[f].pc = "body"
    /\ Refuse(f, "bad")
    /\ UNCHANGED <<client, answer, nodeVars, circuit, factVars>>

\* inc_requests, with a RequestGuard to take it back
Counted(f, knows) ==
    /\ frame' = [frame EXCEPT ![f].pc = "preflight", ![f].knows = knows]
    /\ current' = [current EXCEPT ![frame[f].node] = @ + 1]
    /\ UNCHANGED <<client, answer, nodeVars, circuit, pending, factVars>>

\* The cookbook does not have the model: only peers can serve it
ResolveUnknown(f) ==
    /\ frame[f].pc = "body" /\ ~TooFar(f) /\ frame[f].node \notin cookbook
    /\ Counted(f, FALSE)

ResolveKnown(f) ==
    /\ frame[f].pc = "body" /\ ~TooFar(f) /\ frame[f].node \in cookbook
    /\ Counted(f, TRUE)

----------------------------------------------------------------------------
\* The top of the routing loop

\* routing_preflight: the answer it stops with, and whether that is counted
Preflight(f) ==
    CASE frame[f].node \in draining -> <<"draining", 1>>
      [] frame[f].node \notin draining /\ frame[f].expired -> <<"queue_timeout", 1>>
      [] frame[f].node \notin draining /\ ~frame[f].expired /\ Gone(f) -> <<"disconnected", 0>>
      [] OTHER -> <<"pass", 0>>

Stop(f, verdict) == Answer(f, verdict[1], verdict[2])

\* The loop subscribes to the capacity first, then checks.  The fallback has no
\* subscription.
BeforeChoice(f) ==
    /\ frame[f].pc = "preflight"
    /\ IF Preflight(f)[1] = "pass"
       THEN /\ frame' = [frame EXCEPT ![f].pc = "choose",
                                      ![f].armed = IF frame[f].fallback THEN "no" ELSE "armed"]
            /\ UNCHANGED <<current, pending>>
       ELSE Stop(f, Preflight(f))
    /\ UNCHANGED <<client, answer, nodeVars, circuit, factVars>>

\* What n says of itself
Report(n) == [ready |-> n \in binary /\ n \notin draining, has |-> n \in cookbook,
              current |-> current[n]]

FullReport(m, v) ==
    [Hardware[m] EXCEPT !.ready = v.ready, !.has = v.has, !.current = v.current]

Reports(n) ==
    [m \in {m \in Nodes \ {n} : view[n][m] # NoReport} |-> FullReport(m, view[n][m])]

\* should_allow_sync
Allowed(n) == {m \in Nodes : circuit[n][m] # "open"}

\* Variant: drained peers are left to gossip
ExcludedDenied(f) == {frame[f].exclude} \ {NoNode}

Excluded(f) == frame[f].drained \cup ({frame[f].exclude} \ {NoNode})

FindPeer(f) ==
    LET n == frame[f].node
    IN  Preferred(Reports(n), Usable(Reports(n), Allowed(n), Excluded(f)))

SentBy(n) == LET Sum[S \in SUBSET Nodes] ==
                     IF S = {} THEN 0
                     ELSE LET m == CHOOSE m \in S : TRUE
                          IN  pending[n][m] + Sum[S \ {m}]
             IN  Sum[Nodes]

\* select_best_node; a request that was forwarded here stays if it can
SelectBest(f) ==
    LET n      == frame[f].node
        serves == Report(n).ready /\ Report(n).has
        known  == Reports(n)
        peers  == Routable(known, Allowed(n), Excluded(f))
        own    == FullReport(n, Report(n))
        estimate == [vram |-> own.vram, sysmem |-> own.sysmem]
        ScoreOf(m) == IF m = n THEN Score(own, estimate, SelfCurrent(own, SentBy(n)))
                      ELSE Score(known[m], estimate, PeerCurrent(known[m], pending[n][m]))
    IN  IF serves /\ frame[f].hops > 0 THEN {n}
        ELSE Best([m \in peers \cup {k \in {n} : serves} |-> ScoreOf(m)])

Candidates(f) ==
    IF frame[f].knows /\ ~frame[f].fallback THEN SelectBest(f) ELSE FindPeer(f)

Choose(f) ==
    /\ frame[f].pc = "choose"
    /\ \/ \E m \in Candidates(f) :
             frame' = [frame EXCEPT ![f].pc = "track", ![f].target = m, ![f].found = TRUE,
                                    ![f].exclude = NoNode]
       \/ /\ Candidates(f) = {}
          /\ frame' = [frame EXCEPT ![f].pc = "none", ![f].exclude = NoNode]
    /\ UNCHANGED <<client, answer, nodeVars, circuit, current, pending, factVars>>

\* Wait for the cluster to change, for no longer than the probe interval when a
\* peer denied a probe
AwaitCluster(f) ==
    /\ frame' = [frame EXCEPT ![f].pc = "wait", ![f].bounded = frame[f].denied # NoNode]
    /\ UNCHANGED <<current, pending>>

\* No peer can take a model the cookbook does not have
NoPeer(f) ==
    LET n == frame[f].node
    IN
    /\ frame[f].pc = "none" /\ ~frame[f].knows
    /\ IF n \in draining THEN Answer(f, "draining", 1)
       ELSE IF ~frame[f].found /\ ~AnyAdvertises(Reports(n)) THEN Answer(f, "notfound", 1)
       ELSE AwaitCluster(f)
    /\ UNCHANGED <<client, answer, nodeVars, circuit, factVars>>

\* No node can take a model the cookbook had; a reload may have removed it
NoNodeFree(f) ==
    LET n == frame[f].node
    IN
    /\ frame[f].pc = "none" /\ frame[f].knows /\ ~frame[f].fallback
    /\ IF n \notin cookbook THEN Answer(f, "notfound", 1)
       ELSE IF n \in draining THEN Answer(f, "draining", 1)
       ELSE AwaitCluster(f)
    /\ UNCHANGED <<client, answer, nodeVars, circuit, factVars>>

----------------------------------------------------------------------------
\* Dispatch to a peer

\* track_peer_forward, then the second preflight; a request that stays here
\* has only the preflight
Track(f) ==
    LET n == frame[f].node
        m == frame[f].target
    IN
    /\ frame[f].pc = "track"
    /\ IF Preflight(f)[1] # "pass" THEN Stop(f, Preflight(f))
       ELSE IF m = n
       THEN /\ frame' = [frame EXCEPT ![f].pc = "acquire", ![f].target = NoNode]
            /\ UNCHANGED <<current, pending>>
       ELSE /\ Goto(f, "dispatch")
            /\ pending' = [pending EXCEPT ![n][m] = @ + 1]
            /\ UNCHANGED current
    /\ UNCHANGED <<client, answer, nodeVars, circuit, factVars>>

\* The circuit admits the dispatch, with a ticket when it is a probe.  The
\* request opens a frame on the peer, or is lost.
Dispatch(f) ==
    LET n == frame[f].node
        m == frame[f].target
        sent == [frame[f] EXCEPT !.pc = "sent", !.ticket = circuit[n][m] = "due"]
    IN
    /\ frame[f].pc = "dispatch" /\ circuit[n][m] \in {"closed", "due"}
    /\ circuit' = [circuit EXCEPT ![n][m] = IF @ = "due" THEN "probing" ELSE @]
    /\ \/ frame' = [frame EXCEPT ![f] = sent]
       \/ /\ SomeFree
          /\ frame' = [frame EXCEPT
                 ![f] = [sent EXCEPT !.child = FreeFrame],
                 ![FreeFrame] = Opened(f, m, frame[f].hops + 1, frame[f].stream)]
    /\ UNCHANGED <<client, answer, nodeVars, current, pending, factVars>>

\* What the loop remembers of an attempt that brought no answer
Noted(f, outcome) ==
    LET m == frame[f].target
        r == [frame[f] EXCEPT !.target = NoNode, !.child = Nobody, !.ticket = FALSE]
    IN  CASE outcome = "draining" -> [r EXCEPT !.drained = @ \cup {m}]
          [] outcome = "denied"   -> [r EXCEPT !.denied = m, !.exclude = m]
          [] OTHER                -> r

\* It selects again at once after a drained peer or a first denial
AtOnce(f, outcome) ==
    \/ outcome = "draining"
    \/ outcome = "denied" /\ frame[f].denied # frame[f].target

\* Otherwise it waits.  The loop for a model of the cookbook looks for a drain
\* either way.
RetryUnknown(f, outcome) ==
    [Noted(f, outcome) EXCEPT !.pc = IF AtOnce(f, outcome) THEN "preflight" ELSE "rearm",
                              !.skip = FALSE, !.bounded = outcome = "denied"]

RetryKnown(f, outcome) ==
    [Noted(f, outcome) EXCEPT !.pc = "rearm", !.skip = AtOnce(f, outcome),
                              !.bounded = outcome = "denied" /\ ~AtOnce(f, outcome)]

\* The fallback goes on to another peer only after a drain
RetryFallback(f, outcome) == [Noted(f, outcome) EXCEPT !.pc = "preflight"]

Retry(f, fr, outcome) ==
    /\ frame' = [fr EXCEPT ![f] = IF frame[f].fallback THEN RetryFallback(f, outcome)
                                  ELSE IF frame[f].knows THEN RetryKnown(f, outcome)
                                  ELSE RetryUnknown(f, outcome)]
    /\ pending' = PendingAfter(f)
    /\ UNCHANGED current

FallbackAnswer(outcome) == IF outcome = "body" THEN "upstream" ELSE "exhausted"

\* The attempt is over without an answer for the caller, and no drain
Over(f, fr, outcome) ==
    IF frame[f].fallback THEN Answer(f, FallbackAnswer(outcome), 1) ELSE Retry(f, fr, outcome)

\* ForwardOutcome::ProbeDenied
ProbeDenied(f) ==
    /\ frame[f].pc = "dispatch"
    /\ circuit[frame[f].node][frame[f].target] \in {"open", "probing"}
    /\ Over(f, frame, "denied")
    /\ UNCHANGED <<client, answer, nodeVars, circuit, factVars>>

\* record_failure: fewer failures than the threshold leave a closed circuit
Failure(n, m) ==
    \/ circuit' = [circuit EXCEPT ![n][m] = "open"]
    \/ circuit[n][m] = "closed" /\ UNCHANGED circuit

\* record_success and whether the waiters of n are notified
Success(f) ==
    circuit' = [circuit EXCEPT ![frame[f].node][frame[f].target] =
                    IF frame[f].ticket /\ @ # "closed" THEN "closed" ELSE @]

Recovers(f) == frame[f].ticket /\ circuit[frame[f].node][frame[f].target] # "closed"

\* Variant: a request that got lost has no timeout
TransportAnswered(f, kind) ==
    /\ frame[f].pc = "sent" /\ frame[f].child # Nobody
    /\ Failure(frame[f].node, frame[f].target)
    /\ Over(f, Abandoned(frame, frame[f].child), kind)
    /\ UNCHANGED <<client, answer, nodeVars, factVars>>

\* ForwardOutcome::Transport: the peer was not reached, answered too late, or
\* its body broke off; the frame it may have opened is left alone
Transport(f, kind) ==
    /\ frame[f].pc = "sent"
    /\ Failure(frame[f].node, frame[f].target)
    /\ Over(f, Abandoned(frame, frame[f].child), kind)
    /\ UNCHANGED <<client, answer, nodeVars, factVars>>

\* await_unless_client_gone
DropForward(f) ==
    /\ frame[f].pc = "sent" /\ Gone(f)
    /\ Answer(f, "disconnected", 0)
    /\ UNCHANGED <<client, answer, nodeVars, circuit, factVars>>

----------------------------------------------------------------------------
\* classify_peer_response

Child(f) == IF frame[f].child = Nobody THEN Idle ELSE frame[frame[f].child]

Answered(f, out) ==
    frame[f].pc = "sent" /\ Child(f).pc = "done" /\ Child(f).out = out

\* The child's answer has been read
Consumed(f) == [frame EXCEPT ![frame[f].child] = Idle]

\* The client, when it is the caller, has the head of a stream
HeadReaches(c, n) ==
    IF c \in Clients
    THEN /\ client' = [client EXCEPT ![c] = "answered"]
         /\ answer' = [answer EXCEPT ![c] = <<"stream", n>>]
    ELSE UNCHANGED <<client, answer>>

\* StreamingSurface: recorded without the ticket; request and forward are
\* held until the stream ends
StreamHead(f) ==
    /\ frame[f].pc = "sent" /\ Child(f).pc = "stream"
    /\ Goto(f, "stream")
    /\ HeadReaches(frame[f].caller, frame[f].target)
    /\ UNCHANGED <<nodeVars, circuit, current, pending, factVars>>

\* ForwardOutcome::Draining, attributed to the peer itself
PeerDrains(f) ==
    /\ Answered(f, <<"draining", frame[f].target>>)
    /\ Retry(f, Consumed(f), "draining")
    /\ UNCHANGED <<client, answer, nodeVars, circuit, factVars>>

\* Variant: a saturated peer's answer is handed on
HealSurfaces(f) ==
    /\ Answered(f, Child(f).out) /\ Child(f).out[1] \in Healable
    /\ End(f, Child(f).out, TRUE, 1)
    /\ Failure(frame[f].node, frame[f].target)
    /\ UNCHANGED <<client, answer, nodeVars, factVars>>

\* ForwardOutcome::Heal; the fallback hands the answer on
Heal(f) ==
    /\ Answered(f, Child(f).out) /\ Child(f).out[1] \in Healable
    /\ IF frame[f].fallback
       THEN End(f, Child(f).out, TRUE, 1)
       ELSE Retry(f, Consumed(f), "heal")
    /\ Failure(frame[f].node, frame[f].target)
    /\ UNCHANGED <<client, answer, nodeVars, factVars>>

\* ForwardOutcome::Surface
Surface(f) ==
    LET out == Child(f).out
        n   == frame[f].node
    IN
    /\ Answered(f, out)
    /\ out[1] \notin Healable /\ out # <<"draining", frame[f].target>>
    /\ IF out[1] = "draining" THEN UNCHANGED circuit
       ELSE IF IsFailure(out) THEN Failure(n, frame[f].target) ELSE Success(f)
    /\ frame' = LET fr == Ended(f, out, TRUE, IF frame[f].fallback /\ IsError(out) THEN 1 ELSE 0)
                IN  IF Recovers(f) /\ out[1] # "draining" /\ ~IsFailure(out)
                    THEN Notified(fr, n) ELSE fr
    /\ current' = DecCurrent(n)
    /\ pending' = PendingAfter(f)
    /\ UNCHANGED <<client, answer, nodeVars, factVars>>

----------------------------------------------------------------------------
\* Waiting for the cluster to change

\* Variant: no look at the drain after the subscription
RearmBlindly(f) ==
    /\ frame[f].pc = "rearm"
    /\ frame' = [frame EXCEPT ![f].pc = IF frame[f].skip THEN "preflight" ELSE "wait",
                              ![f].armed = "armed", ![f].skip = FALSE]
    /\ UNCHANGED <<client, answer, nodeVars, circuit, current, pending, factVars>>

\* Subscribe again after an attempt, then look for a drain
Rearm(f) ==
    /\ frame[f].pc = "rearm"
    /\ IF frame[f].node \in draining
       THEN Answer(f, "draining", 1)
       ELSE /\ frame' = [frame EXCEPT ![f].pc = IF frame[f].skip THEN "preflight" ELSE "wait",
                                      ![f].armed = "armed", ![f].skip = FALSE]
            /\ UNCHANGED <<current, pending>>
    /\ UNCHANGED <<client, answer, nodeVars, circuit, factVars>>

\* A notification, or the probe interval of a bounded wait.  A drain that
\* began meanwhile is found by the preflight that follows.
Wake(f) ==
    /\ frame[f].pc = "wait" /\ ~frame[f].expired
    /\ frame[f].armed = "fired" \/ frame[f].bounded
    /\ frame' = [frame EXCEPT ![f].pc = "preflight", ![f].bounded = FALSE]
    /\ UNCHANGED <<client, answer, nodeVars, circuit, current, pending, factVars>>

\* Variant: only a model of the cookbook has a deadline
WaitExpiresKnown(f) ==
    /\ frame[f].pc = "wait" /\ frame[f].expired /\ frame[f].knows
    /\ Answer(f, "queue_timeout", 1)
    /\ UNCHANGED <<client, answer, nodeVars, circuit, factVars>>

\* The wait prefers the deadline
WaitExpires(f) ==
    /\ frame[f].pc = "wait" /\ frame[f].expired
    /\ Answer(f, "queue_timeout", 1)
    /\ UNCHANGED <<client, answer, nodeVars, circuit, factVars>>

WaitGone(f) ==
    /\ frame[f].pc = "wait" /\ Gone(f) /\ ~frame[f].expired
    /\ Answer(f, "disconnected", 0)
    /\ UNCHANGED <<client, answer, nodeVars, circuit, factVars>>

----------------------------------------------------------------------------
\* Local service, and the fallback to a peer when spawning failed for good

Acquire(f) ==
    /\ frame[f].pc = "acquire" /\ frame[f].node \notin draining
    /\ Goto(f, "serve")
    /\ UNCHANGED <<client, answer, nodeVars, circuit, current, pending, factVars>>

\* The errors of get_instance_for_model that end the request
AcquireFails(f) ==
    LET n == frame[f].node
    IN
    /\ frame[f].pc = "acquire"
    /\ \/ Answer(f, "no_capacity", 1)
       \/ frame[f].expired /\ Answer(f, "queue_timeout", 1)
       \/ n \in draining /\ Answer(f, "draining", 1)
       \/ n \notin cookbook /\ Answer(f, "notfound", 1)
    /\ UNCHANGED <<client, answer, nodeVars, circuit, factVars>>

\* Variant: the failure is counted although a peer may still serve the request
AcquireExhaustedCounted(f) ==
    /\ frame[f].pc = "acquire"
    /\ frame' = [frame EXCEPT ![f].pc = "preflight", ![f].fallback = TRUE, ![f].errors = 1]
    /\ spent' = spent \cup ({frame[f].caller} \cap Clients)
    /\ UNCHANGED <<client, answer, nodeVars, circuit, current, pending, entry, lacked, overdue>>

\* NodeError::SpawnFailuresExhausted
AcquireExhausted(f) ==
    /\ frame[f].pc = "acquire"
    /\ frame' = [frame EXCEPT ![f].pc = "preflight", ![f].fallback = TRUE]
    /\ spent' = spent \cup ({frame[f].caller} \cap Clients)
    /\ UNCHANGED <<client, answer, nodeVars, circuit, current, pending, entry, lacked, overdue>>

\* No peer could take it either
FallbackFails(f) ==
    /\ frame[f].pc = "none" /\ frame[f].fallback
    /\ Answer(f, "exhausted", 1)
    /\ UNCHANGED <<client, answer, nodeVars, circuit, factVars>>

\* The cleanup of a local request notifies all queues when its instance
\* became idle; there is one instance
LocalOthers(f) ==
    {g \in Frames \ {f} : /\ frame[g].node = frame[f].node /\ frame[g].child = Nobody
                          /\ frame[g].pc \in {"serve", "stream"}}

AnswerLocal(f, kind, counted) ==
    LET fr == Ended(f, Own(f, kind), FALSE, counted)
    IN
    /\ frame' = IF LocalOthers(f) = {} THEN Notified(fr, frame[f].node) ELSE fr
    /\ current' = DecCurrent(frame[f].node)
    /\ UNCHANGED pending

ServeOk(f) ==
    /\ frame[f].pc = "serve"
    /\ IF frame[f].stream
       THEN /\ Goto(f, "stream")
            /\ HeadReaches(frame[f].caller, frame[f].node)
            /\ UNCHANGED <<current, pending>>
       ELSE AnswerLocal(f, "ok", 0) /\ UNCHANGED <<client, answer>>
    /\ UNCHANGED <<nodeVars, circuit, factVars>>

ServeFails(f) ==
    /\ frame[f].pc = "serve"
    /\ AnswerLocal(f, "upstream", 1)
    /\ UNCHANGED <<client, answer, nodeVars, circuit, factVars>>

DropLocal(f) ==
    /\ frame[f].pc \in {"acquire", "serve"} /\ Gone(f)
    /\ IF frame[f].pc = "serve" THEN AnswerLocal(f, "disconnected", 0)
       ELSE Answer(f, "disconnected", 0)
    /\ UNCHANGED <<client, answer, nodeVars, circuit, factVars>>

\* Variant: the cleanup needs a reader
StreamEndsRead(f) ==
    /\ frame[f].pc = "stream" /\ ~Gone(f)
    /\ IF frame[f].child = Nobody
       THEN \E broken \in 0..1 : AnswerLocal(f, "stream", broken)
       ELSE Answer(f, "stream", 0)
    /\ UNCHANGED <<client, answer, nodeVars, circuit, factVars>>

\* The body of a stream ends, breaks off or is dropped: its cleanup runs.
\* Only a local body that broke off counts as an error.
StreamEnds(f) ==
    /\ frame[f].pc = "stream"
    /\ IF frame[f].child = Nobody
       THEN \E broken \in 0..1 : AnswerLocal(f, "stream", broken)
       ELSE Answer(f, "stream", 0)
    /\ UNCHANGED <<client, answer, nodeVars, circuit, factVars>>

\* The answer leaves the node
Deliver(f) ==
    LET c == frame[f].caller
    IN
    /\ frame[f].pc = "done" /\ c \in Clients
    /\ frame' = [frame EXCEPT ![f] = Idle]
    /\ IF client[c] = "open"
       THEN /\ client' = [client EXCEPT ![c] = "answered"]
            /\ answer' = [answer EXCEPT ![c] = frame[f].out]
       ELSE UNCHANGED <<client, answer>>
    /\ UNCHANGED <<nodeVars, circuit, current, pending, factVars>>

----------------------------------------------------------------------------
\* Everything else that happens

\* Where a frame looks at its deadline and its connection.  They may pass and
\* close at any time; it makes a difference only there.
LooksAtClock == {"preflight", "track", "wait", "acquire"}

\* The client closes its connection
Leave(c) ==
    /\ \E f \in Frames : /\ frame[f].caller = c
                         /\ frame[f].pc \in LooksAtClock \cup {"sent", "serve", "stream"}
                         /\ frame' = [frame EXCEPT ![f].caller = Nobody]
    /\ client' = [client EXCEPT ![c] = IF @ = "open" THEN "left" ELSE @]
    /\ UNCHANGED <<answer, nodeVars, circuit, current, pending, factVars>>

\* The queue deadline passes
Expire(f) ==
    /\ frame[f].pc \in LooksAtClock /\ ~frame[f].expired
    /\ frame' = [frame EXCEPT ![f].expired = TRUE]
    /\ overdue' = overdue \cup ({frame[f].caller} \cap Clients)
    /\ UNCHANGED <<client, answer, nodeVars, circuit, current, pending, entry, lacked, spent>>

\* An event that changes what the nodes know or are
Happens == events < MaxEvents /\ events' = events + 1

\* Time frees the next probe of a recovering circuit
Elapse(n, m) ==
    /\ Happens
    /\ circuit[n][m] \in {"open", "probing"}
    /\ circuit' = [circuit EXCEPT ![n][m] = "due"]
    /\ UNCHANGED <<client, answer, frame, cookbook, binary, draining, view, current, pending, factVars>>

\* The result of a gossip send of n to m reaches the circuit that routing uses; one
\* that recovers it wakes the waiters
GossipSent(n, m) ==
    /\ Happens
    /\ n # m
    /\ \/ /\ circuit[n][m] # "open" /\ circuit' = [circuit EXCEPT ![n][m] = "open"]
          /\ UNCHANGED frame
       \/ /\ circuit[n][m] = "due" /\ circuit' = [circuit EXCEPT ![n][m] = "closed"]
          /\ frame' = Notified(frame, n)
    /\ UNCHANGED <<client, answer, cookbook, binary, draining, view, current, pending, factVars>>

\* n accepts a gossip message of m, or drops its report as stale
Gossip(n, m) ==
    /\ Happens
    /\ n # m /\ view[n][m] # Report(m)
    /\ view' = [view EXCEPT ![n][m] = Report(m)]
    /\ frame' = Notified(frame, n)
    /\ UNCHANGED <<client, answer, cookbook, binary, draining, circuit, current, pending, factVars>>

Stale(n, m) ==
    /\ Happens
    /\ view[n][m] # NoReport
    /\ view' = [view EXCEPT ![n][m] = NoReport]
    /\ UNCHANGED <<client, answer, frame, cookbook, binary, draining, circuit, current, pending,
                   factVars>>

\* begin_shutdown_drain
Drain(n) ==
    /\ Happens
    /\ n \notin draining
    /\ draining' = draining \cup {n}
    /\ frame' = Notified(frame, n)
    /\ UNCHANGED <<client, answer, cookbook, binary, view, circuit, current, pending, factVars>>

\* A cookbook reload adds or removes the model
Reload(n) ==
    /\ Happens
    /\ cookbook' = IF n \in cookbook THEN cookbook \ {n} ELSE cookbook \cup {n}
    /\ lacked' = lacked \cup (Nodes \ cookbook')
    /\ frame' = Notified(frame, n)
    /\ UNCHANGED <<client, answer, binary, draining, view, circuit, current, pending, entry, overdue,
                   spent>>

\* A build makes a binary available
Built(n) ==
    /\ Happens
    /\ n \notin binary
    /\ binary' = binary \cup {n}
    /\ frame' = Notified(frame, n)
    /\ UNCHANGED <<client, answer, cookbook, draining, view, circuit, current, pending, factVars>>

----------------------------------------------------------------------------
Route(f) ==
    \/ Arrive(f) \/ Reject(f) \/ ResolveUnknown(f) \/ ResolveKnown(f) \/ BeforeChoice(f)
    \/ Choose(f) \/ NoPeer(f) \/ NoNodeFree(f) \/ Track(f) \/ Dispatch(f) \/ ProbeDenied(f) \/ Rearm(f)
    \/ Wake(f) \/ WaitExpires(f) \/ WaitGone(f) \/ FallbackFails(f) \/ Deliver(f)

Receive(f) ==
    \/ DropForward(f) \/ StreamHead(f) \/ PeerDrains(f) \/ Heal(f) \/ Surface(f)
    \/ \E kind \in {"request", "body"} : Transport(f, kind)

Local(f) ==
    \/ Acquire(f) \/ AcquireFails(f) \/ AcquireExhausted(f) \/ ServeOk(f) \/ ServeFails(f)
    \/ DropLocal(f) \/ StreamEnds(f)

Environment ==
    \/ \E c \in Clients, n \in Entries, stream \in BOOLEAN : Submit(c, n, stream)
    \/ \E c \in Clients : Leave(c)
    \/ \E n, m \in Nodes : Gossip(n, m) \/ GossipSent(n, m) \/ Stale(n, m) \/ Elapse(n, m)
    \/ \E n \in Nodes : Drain(n) \/ Reload(n) \/ Built(n)

Step(f) == Route(f) \/ Receive(f) \/ Local(f)

Next ==
    \/ \E f \in Frames : Step(f) \/ Expire(f)
    \/ Environment

Spec == Init /\ [][Next]_vars

\* The handlers and streams make progress; requests to peers and instances
\* end, by a timeout if nothing else; deadlines pass.
Fairness ==
    \A f \in Frames : WF_vars(Step(f)) /\ SF_vars(Expire(f))

FairSpec == Spec /\ Fairness

----------------------------------------------------------------------------
\* Properties

\* What a frame can answer
Kinds == {"ok", "stream", "upstream", "draining", "queue_timeout", "notfound", "no_capacity",
          "exhausted", "bad"}

FrameType ==
    [pc : {"free", "arrive", "body", "preflight", "choose", "none", "track", "dispatch", "sent",
           "rearm", "wait", "acquire", "serve", "stream", "done"},
     node : Nodes \cup {NoNode}, caller : Clients \cup Frames \cup {Nobody},
     hops : 0..MaxHops + 1, stream : BOOLEAN, expired : BOOLEAN, knows : BOOLEAN,
     fallback : BOOLEAN, found : BOOLEAN, drained : SUBSET Nodes,
     exclude : Nodes \cup {NoNode}, denied : Nodes \cup {NoNode},
     target : Nodes \cup {NoNode}, child : Frames \cup {Nobody}, ticket : BOOLEAN,
     armed : {"no", "armed", "fired"}, bounded : BOOLEAN, skip : BOOLEAN,
     errors : 0..2, out : (Kinds \cup {"none"}) \X (Nodes \cup {NoNode}), relayed : BOOLEAN]

\* The shape of the state; a forwarded request is never more than one hop past
\* the limit, where route_request rejects it
TypeOK ==
    /\ \A f \in Frames : frame[f] \in FrameType
    /\ \A c \in Clients : client[c] \in {"new", "open", "left", "answered"}
    /\ \A n, m \in Nodes : circuit[n][m] \in {"closed", "open", "due", "probing"}
    /\ \A n \in Nodes : current[n] \in 0..Cardinality(Frames)
    /\ events \in 0..MaxEvents

\* RequestGuard, PeerForwardGuard and the cleanups of responses hand the two
\* counts on without a gap and give them back once, on every path out of
\* route_request: current_requests is the number of requests a node works on,
\* peer_pending_forwards the number it has with a peer.
CountsMatchFrames ==
    \A n \in Nodes :
        /\ current[n] = Cardinality({f \in Frames : /\ frame[f].node = n
                                      /\ frame[f].pc \notin {"free", "arrive", "body", "done"}})
        /\ \A m \in Nodes :
              pending[n][m] = Cardinality({f \in Frames : /\ frame[f].node = n
                                 /\ frame[f].target = m
                                 /\ frame[f].pc \in {"dispatch", "sent", "stream"}})

\* A node counts every error it makes of a request it had counted, once; the
\* fallback also counts an error that it hands on, and a request that a peer
\* served after all counts none (router.rs 1621-1716).
ErrorsCountedWhereMade ==
    \A f \in Frames : frame[f].pc = "done" =>
        LET kind == frame[f].out[1]
        IN  /\ frame[f].errors <= IF kind = "ok" THEN 0 ELSE 1
            /\ kind \in Healable \/ (kind \in {"notfound", "upstream"} /\ ~frame[f].relayed)
                  => frame[f].errors = 1

\* begin_shutdown_drain notifies once.  A request that waits for capacity on a
\* draining node was subscribed before it looked for the drain, so the
\* notification is on its way to it (router.rs 1205-1210, 1883-1920).
NoSleepThroughDrain ==
    \A f \in Frames :
        frame[f].pc = "wait" /\ frame[f].node \in draining => frame[f].armed = "fired"

\* A request is not sent again to a peer that rejected it with a drain, whatever
\* gossip says of the peer since
DrainedPeerIsLeftAlone ==
    \A f \in Frames :
        frame[f].pc \in {"track", "dispatch", "sent"} => frame[f].target \notin frame[f].drained

\* What clients see of the mesh: the answers and the facts that may justify them, and
\* nothing of the frames, the gossip or the counters
Service == INSTANCE ProxyService
               WITH client <- client, answer <- answer, entry <- entry,
                    draining <- draining, lacked <- lacked,
                    overdue <- overdue, spent <- spent

\* The promise to clients, as module ProxyService states it: one answer to each
\* request and an answer the facts justify.  A client sees a drain only of the
\* node it entered and a peer's saturation only after its own node gave up
\* (classify_buffered_peer_response, the retry loops of route_request).
AnswersAreJustified == Service!Spec

\* A drain ends: with no new clients, the requests on a draining node finish
\* although their peers may be unreachable
DrainingNodeEmpties ==
    \A n \in Nodes :
        n \in draining ~> \A f \in Frames : frame[f].node = n => frame[f].pc \in {"arrive", "done"}

\* No invocation outlives its caller for ever: a frame whose client or upstream
\* node has gone notices and ends
AbandonedFramesEnd ==
    \A f \in Frames : []<>~(Live(f) /\ Gone(f))

\* Requests, forwards and errors are counted exactly, on every path out of route_request.
RequestsAreAccounted == TypeOK /\ CountsMatchFrames /\ ErrorsCountedWhereMade

\* Every request ends for everyone concerned: its client is answered (the fairness of
\* ProxyService), a draining node is left, and nobody works for a caller that has gone.
EveryRequestEnds == Service!Fairness /\ DrainingNodeEmpties /\ AbandonedFramesEnd

============================================================================
