-------------------------- MODULE ForwardingProofs --------------------------
(***************************************************************************)
(* Proofs about Forwarding, for any mesh, any number of requests and hops:  *)
(* no request sleeps through a drain, none goes back to a peer that         *)
(* rejected it with one, the routing implements ProxyService, and requests, *)
(* forwards and errors are counted exactly.                                *)
(*                                                                         *)
(* The first two are not inductive.  A waiting request is reached by the    *)
(* drain's notification because it holds a subscription, and a subscription *)
(* that has not fired was taken before the node drained; that is kept along *)
(* the whole routing loop.  A drained peer is left alone because selection  *)
(* excludes it and a request is never its own peer.                         *)
(*                                                                         *)
(* The refinement follows an answer from the frame that makes it to the     *)
(* client: every step of a frame is an answer to its client that the facts  *)
(* justify, the departure of a client, a fact that comes true, or nothing   *)
(* that a client could see.  A drain is reported by the draining node only, *)
(* so the caller recognises it as that of its peer and tries elsewhere; the *)
(* answers of a saturated peer are handed on by a frame whose own node had  *)
(* given up.  It needs that a call and its frame stay tied to each other:   *)
(* the frame a forward waits for runs on its target and has not been        *)
(* reused.                                                                 *)
(*                                                                         *)
(* The counts are sizes of sets of frames.  Each step is followed to what   *)
(* it does to those sets: one frame joins or leaves them and no other frame *)
(* that it touches does, although it may also abandon the frame of a        *)
(* forward, consume its answer or notify all waiters.  That needs that a    *)
(* frame which serves the request itself has no target, so that its end     *)
(* gives back no forward, and that no frame counts an error before it ends. *)
(* The arithmetic of the sizes comes last.                                  *)
(***************************************************************************)
EXTENDS Forwarding, TLAPS

\* What holds of the frame r on its own while the nodes D drain.
Awake(r, D) ==
    /\ {"pc", "node", "armed", "fallback", "knows", "target", "drained"} \subseteq DOMAIN r
    /\ r.armed \in {"no", "armed", "fired"}
    /\ r.armed = "armed" => r.node \notin D
    /\ r.pc \in {"choose", "none"} /\ ~r.fallback => r.armed # "no"
    /\ r.pc = "wait" => r.armed # "no"
    /\ r.fallback \/ r.pc = "acquire" \/ (r.pc = "track" /\ r.target = r.node) => r.knows
    /\ r.node \notin r.drained
    /\ r.pc \in {"dispatch", "sent"} => r.target # r.node
    /\ r.pc \in {"track", "dispatch", "sent"} => r.target \notin r.drained

AllAwake(fr, D) == DOMAIN fr = Frames /\ \A f \in Frames : Awake(fr[f], D)

FInv == AllAwake(frame, draining)

\* Zenon proves what follows by instantiation and rewriting; the leaves about numbers,
\* function updates and larger case splits name SMT.
USE Zenon

----------------------------------------------------------------------------
(* Frames that begin, end, are abandoned or notified.                      *)

LEMMA IdleAwake == \A D : Awake(Idle, D)
  BY DEF Awake, Idle

LEMMA OpenedAwake ==
    ASSUME NEW D, NEW caller, NEW n, NEW hops, NEW stream
    PROVE  Awake(Opened(caller, n, hops, stream), D)
  BY DEF Awake, Opened, Idle

LEMMA AbandonedKeeps ==
    ASSUME NEW fr, NEW D, NEW g, AllAwake(fr, D)
    PROVE  AllAwake(Abandoned(fr, g), D)
  <1>1. Awake(Idle, D)
    BY IdleAwake
  <1>2. \A h \in Frames : Awake([fr[h] EXCEPT !.caller = Nobody], D)
    BY DEF AllAwake, Awake
  <1> QED BY <1>1, <1>2 DEF AllAwake, Abandoned

LEMMA EndedKeeps ==
    ASSUME NEW D, NEW f \in Frames, AllAwake(frame, D), NEW out, NEW relayed, NEW counted
    PROVE  AllAwake(Ended(f, out, relayed, counted), D)
  <1> DEFINE r == frame[f]
             e == IF Gone(f) THEN Idle
                  ELSE [Idle EXCEPT !.pc = "done", !.out = out, !.relayed = relayed,
                               !.node = r.node, !.caller = r.caller, !.errors = r.errors + counted]
  <1>1. Awake(e, D)
    BY IdleAwake, SMT DEF Awake, Idle
  <1>2. AllAwake([frame EXCEPT ![f] = e], D)
    BY <1>1 DEF AllAwake
  <1> QED BY <1>2, AbandonedKeeps DEF Ended

\* notify_waiters fires every subscription on the node, also when it drains.
LEMMA NotifiedKeeps ==
    ASSUME NEW fr, NEW D, NEW n, NEW E \in SUBSET (D \cup {n}), AllAwake(fr, D)
    PROVE  AllAwake(Notified(fr, n), E)
  <1>1. ASSUME NEW g \in Frames, fr[g].node = n, fr[g].armed = "armed"
        PROVE  Awake([fr[g] EXCEPT !.armed = "fired"], E)
    BY <1>1 DEF AllAwake, Awake
  <1>2. ASSUME NEW g \in Frames, ~(fr[g].node = n /\ fr[g].armed = "armed")
        PROVE  Awake(fr[g], E)
    BY <1>2 DEF AllAwake, Awake
  <1> QED BY <1>1, <1>2 DEF AllAwake, Notified

----------------------------------------------------------------------------
(* What the actions are made of.                                           *)

LEMMA AnswerKeeps ==
    ASSUME FInv, NEW f \in Frames, NEW kind, NEW counted,
           Answer(f, kind, counted) \/ AnswerLocal(f, kind, counted) \/ Refuse(f, kind)
    PROVE  AllAwake(frame', draining)
  <1> DEFINE fr == Ended(f, Own(f, kind), FALSE, counted)
             n == frame[f].node
  <1>1. AllAwake(fr, draining) /\ AllAwake(Ended(f, Own(f, kind), FALSE, 0), draining)
    BY EndedKeeps DEF FInv
  <1>2. AllAwake(Notified(fr, n), draining)
    BY <1>1, NotifiedKeeps
  <1> QED
    BY <1>1, <1>2 DEF Answer, AnswerLocal, Refuse, End

\* A failed attempt leaves the subscription alone and forgets its peer.
LEMMA RetryKeeps ==
    ASSUME FInv, NEW f \in Frames, NEW fr, AllAwake(fr, draining), NEW outcome,
           frame[f].pc \in {"dispatch", "sent"}, Retry(f, fr, outcome)
    PROVE  AllAwake(frame', draining)
  <1> DEFINE r == IF frame[f].fallback THEN RetryFallback(f, outcome)
                  ELSE IF frame[f].knows THEN RetryKnown(f, outcome)
                  ELSE RetryUnknown(f, outcome)
  <1>1. Awake(frame[f], draining)
    BY DEF FInv, AllAwake
  <1>2. /\ {"pc", "node", "armed", "fallback", "knows", "target", "drained"}
              \subseteq DOMAIN Noted(f, outcome)
        /\ Noted(f, outcome).node = frame[f].node
        /\ Noted(f, outcome).armed = frame[f].armed
        /\ Noted(f, outcome).fallback = frame[f].fallback
        /\ Noted(f, outcome).knows = frame[f].knows
        /\ Noted(f, outcome).drained \subseteq frame[f].drained \cup {frame[f].target}
    BY <1>1 DEF Awake, Noted
  <1>3. Awake(RetryFallback(f, outcome), draining)
    BY <1>1, <1>2 DEF Awake, RetryFallback
  <1>4. Awake(RetryKnown(f, outcome), draining)
    BY <1>1, <1>2 DEF Awake, RetryKnown
  <1>5. Awake(RetryUnknown(f, outcome), draining)
    BY <1>1, <1>2 DEF Awake, RetryUnknown
  <1>6. Awake(r, draining)
    BY <1>3, <1>4, <1>5
  <1> HIDE DEF r
  <1>7. frame' = [fr EXCEPT ![f] = r]
    BY DEF Retry, r
  <1> QED BY <1>6, <1>7 DEF AllAwake

LEMMA OverKeeps ==
    ASSUME FInv, NEW f \in Frames, NEW fr, AllAwake(fr, draining), NEW outcome,
           frame[f].pc \in {"dispatch", "sent"}, Over(f, fr, outcome)
    PROVE  AllAwake(frame', draining)
  <1>1. CASE Answer(f, FallbackAnswer(outcome), 1)
    BY <1>1, AnswerKeeps
  <1>2. CASE Retry(f, fr, outcome)
    BY <1>2, RetryKeeps, SMT
  <1> QED BY <1>1, <1>2 DEF Over

\* The loops select a node that has not rejected the request with a drain.
LEMMA CandidatesAreFresh ==
    ASSUME NEW f \in Frames, frame[f].node \notin frame[f].drained, NEW m \in Candidates(f)
    PROVE  m \notin frame[f].drained /\ (m = frame[f].node => frame[f].knows)
  <1>1. CASE m \in FindPeer(f)
    <2>1. m \in DOMAIN Reports(frame[f].node) /\ m \notin Excluded(f)
      BY <1>1 DEF FindPeer, Preferred, Usable
    <2> QED BY <2>1 DEF Reports, Excluded
  <1>2. CASE frame[f].knows /\ m \in SelectBest(f)
    BY <1>2 DEF SelectBest, Best, Routable, Usable, Excluded
  <1>3. m \in FindPeer(f) \/ (frame[f].knows /\ m \in SelectBest(f))
    BY DEF Candidates
  <1> QED BY <1>1, <1>2, <1>3

----------------------------------------------------------------------------
(* The actions, by the part of route_request they belong to.               *)

LEMMA RouteKeeps ==
    ASSUME FInv, NEW f \in Frames, Route(f)
    PROVE  AllAwake(frame', draining)
  <1> USE DEF FInv, AllAwake, Awake, Goto
  <1>1. CASE Arrive(f)
    BY <1>1, AnswerKeeps, SMT DEF Arrive
  <1>2. CASE Reject(f)
    BY <1>2, AnswerKeeps DEF Reject
  <1>3. CASE ResolveUnknown(f) \/ ResolveKnown(f)
    BY <1>3, SMT DEF ResolveUnknown, ResolveKnown, Counted
  <1>4. CASE BeforeChoice(f)
    <2>1. CASE Preflight(f)[1] = "pass"
      BY <1>4, <2>1, SMT DEF BeforeChoice, Preflight
    <2>2. CASE Preflight(f)[1] # "pass"
      BY <1>4, <2>2, AnswerKeeps DEF BeforeChoice, Stop
    <2> QED BY <2>1, <2>2
  <1>5. CASE Choose(f)
    <2>1. ASSUME NEW m \in Candidates(f),
                 frame' = [frame EXCEPT ![f].pc = "track", ![f].target = m, ![f].found = TRUE,
                                        ![f].exclude = NoNode]
          PROVE  AllAwake(frame', draining)
      <3> DEFINE r == [frame[f] EXCEPT !.pc = "track", !.target = m, !.found = TRUE,
                                       !.exclude = NoNode]
      <3>1. m \notin frame[f].drained /\ (m = frame[f].node => frame[f].knows)
        BY CandidatesAreFresh
      <3>2. Awake(r, draining)
        BY <3>1
      <3>3. frame' = [frame EXCEPT ![f] = r]
        BY <2>1
      <3> HIDE DEF r, Awake
      <3> QED BY <3>2, <3>3
    <2>2. CASE frame' = [frame EXCEPT ![f].pc = "none", ![f].exclude = NoNode]
      <3> DEFINE r == [frame[f] EXCEPT !.pc = "none", !.exclude = NoNode]
      <3>1. Awake(r, draining)
        <4>1. frame[f].pc = "choose"
          BY <1>5 DEF Choose
        <4> QED BY <4>1
      <3>2. frame' = [frame EXCEPT ![f] = r]
        BY <2>2
      <3> HIDE DEF r, Awake
      <3> QED BY <3>1, <3>2
    <2> QED BY <1>5, <2>1, <2>2 DEF Choose
  <1>6. CASE NoPeer(f) \/ NoNodeFree(f)
    <2>1. CASE /\ frame[f].pc = "none" /\ ~frame[f].fallback
               /\ frame' = [frame EXCEPT ![f].pc = "wait", ![f].bounded = frame[f].denied # NoNode]
      BY <2>1, SMT
    <2>2. ASSUME NEW kind, Answer(f, kind, 1) PROVE AllAwake(frame', draining)
      BY <2>2, AnswerKeeps
    <2>3. frame[f].fallback => frame[f].knows
      OBVIOUS
    <2> QED BY <1>6, <2>1, <2>2, <2>3 DEF NoPeer, NoNodeFree, AwaitCluster
  <1>7. CASE Track(f)
    BY <1>7, AnswerKeeps, SMT DEF Track, Stop
  <1>8. CASE Dispatch(f)
    <2> DEFINE sent == [frame[f] EXCEPT !.pc = "sent",
                           !.ticket = circuit[frame[f].node][frame[f].target] = "due"]
               g == FreeFrame
               o == Opened(f, frame[f].target, frame[f].hops + 1, frame[f].stream)
    <2>1. Awake(sent, draining)
      BY <1>8 DEF Dispatch
    <2>2. Awake([sent EXCEPT !.child = g], draining)
      BY <2>1
    <2>3. Awake(o, draining)
      <3> HIDE DEF Awake
      <3> QED BY OpenedAwake
    <2>4. CASE frame' = [frame EXCEPT ![f] = sent]
      BY <2>1, <2>4, SMT
    <2>5. CASE frame' = [frame EXCEPT ![f] = [sent EXCEPT !.child = g], ![g] = o]
      <3> HIDE DEF sent, g, o, Awake
      <3> QED BY <2>2, <2>3, <2>5
    <2> QED BY <1>8, <2>4, <2>5 DEF Dispatch
  <1>9. CASE ProbeDenied(f)
    BY <1>9, OverKeeps, SMT DEF ProbeDenied
  <1>10. CASE Rearm(f)
    BY <1>10, AnswerKeeps, SMT DEF Rearm
  <1>11. CASE Wake(f)
    BY <1>11, SMT DEF Wake
  <1>12. CASE WaitExpires(f) \/ WaitGone(f) \/ FallbackFails(f)
    BY <1>12, AnswerKeeps DEF WaitExpires, WaitGone, FallbackFails
  <1>13. CASE Deliver(f)
    BY <1>13, IdleAwake DEF Deliver
  <1> QED
    BY <1>1, <1>2, <1>3, <1>4, <1>5, <1>6, <1>7, <1>8, <1>9, <1>10, <1>11, <1>12, <1>13
       DEF Route

LEMMA ReceiveKeeps ==
    ASSUME FInv, NEW f \in Frames, Receive(f)
    PROVE  AllAwake(frame', draining)
  <1>1. CASE DropForward(f)
    BY <1>1, AnswerKeeps DEF DropForward
  <1>2. CASE StreamHead(f)
    BY <1>2, SMT DEF StreamHead, Goto, FInv, AllAwake, Awake
  <1>3. AllAwake(Consumed(f), draining)
    BY IdleAwake DEF Consumed, FInv, AllAwake
  <1>4. CASE PeerDrains(f)
    <2>1. frame[f].pc = "sent" /\ Retry(f, Consumed(f), "draining")
      BY <1>4 DEF PeerDrains, Answered
    <2> QED BY <1>3, <2>1, RetryKeeps, SMT
  <1>5. ASSUME NEW out, NEW relayed, NEW counted
        PROVE  /\ AllAwake(Ended(f, out, relayed, counted), draining)
               /\ AllAwake(Notified(Ended(f, out, relayed, counted), frame[f].node), draining)
    BY EndedKeeps, NotifiedKeeps, SMT DEF FInv
  <1>6. CASE Heal(f)
    <2>1. CASE frame[f].fallback
      BY <1>5, <1>6, <2>1 DEF Heal, End
    <2>2. CASE ~frame[f].fallback
      <3>1. frame[f].pc = "sent" /\ Retry(f, Consumed(f), "heal")
        BY <1>6, <2>2 DEF Heal, Answered
      <3> QED BY <1>3, <3>1, RetryKeeps, SMT
    <2> QED BY <2>1, <2>2
  <1>7. CASE Surface(f)
    BY <1>5, <1>7 DEF Surface
  <1>8. ASSUME NEW kind, Transport(f, kind) PROVE AllAwake(frame', draining)
    <2>1. AllAwake(Abandoned(frame, frame[f].child), draining)
      BY AbandonedKeeps DEF FInv
    <2>2. frame[f].pc = "sent" /\ Over(f, Abandoned(frame, frame[f].child), kind)
      BY <1>8 DEF Transport
    <2> QED BY <2>1, <2>2, OverKeeps, SMT
  <1> QED
    BY <1>1, <1>2, <1>4, <1>6, <1>7, <1>8 DEF Receive

LEMMA LocalKeeps ==
    ASSUME FInv, NEW f \in Frames, Local(f)
    PROVE  AllAwake(frame', draining)
  <1>1. CASE Acquire(f)
    BY <1>1, SMT DEF Acquire, Goto, FInv, AllAwake, Awake
  <1>2. CASE AcquireFails(f)
    BY <1>2, AnswerKeeps DEF AcquireFails
  <1>3. CASE AcquireExhausted(f)
    BY <1>3, SMT DEF AcquireExhausted, FInv, AllAwake, Awake
  <1>4. CASE ServeOk(f)
    <2>1. CASE Goto(f, "stream")
      BY <2>1, SMT DEF Goto, FInv, AllAwake, Awake
    <2> QED BY <1>4, <2>1, AnswerKeeps DEF ServeOk
  <1>5. CASE ServeFails(f)
    BY <1>5, AnswerKeeps DEF ServeFails
  <1>6. CASE DropLocal(f)
    BY <1>6, AnswerKeeps DEF DropLocal
  <1>7. CASE StreamEnds(f)
    BY <1>7, AnswerKeeps DEF StreamEnds
  <1> QED
    BY <1>1, <1>2, <1>3, <1>4, <1>5, <1>6, <1>7 DEF Local

----------------------------------------------------------------------------
LEMMA FInvInit == Init => FInv
  BY IdleAwake, SMT DEF Init, FInv, AllAwake

\* Routing never changes who drains, and a drain notifies whoever waits on the node.
LEMMA FInvStep == FInv /\ [Next]_vars => FInv'
  <1> SUFFICES ASSUME FInv, [Next]_vars PROVE AllAwake(frame', draining')
      BY DEF FInv
  <1>1. ASSUME NEW f \in Frames, Step(f) PROVE AllAwake(frame', draining')
    <2>1. Route(f) => UNCHANGED nodeVars
      BY DEF Route, Arrive, Reject, ResolveUnknown, ResolveKnown, Counted, BeforeChoice,
             Choose, NoPeer, NoNodeFree, Track, Dispatch, ProbeDenied, Rearm, Wake,
             WaitExpires, WaitGone, FallbackFails, Deliver
    <2>2. Receive(f) => UNCHANGED nodeVars
      BY DEF Receive, DropForward, StreamHead, PeerDrains, Heal, Surface, Transport
    <2>3. Local(f) => UNCHANGED nodeVars
      BY DEF Local, Acquire, AcquireFails, AcquireExhausted, ServeOk, ServeFails,
             DropLocal, StreamEnds
    <2>4. draining' = draining
      BY <1>1, <2>1, <2>2, <2>3 DEF Step, nodeVars
    <2> QED BY <1>1, <2>4, RouteKeeps, ReceiveKeeps, LocalKeeps DEF Step
  <1>2. ASSUME NEW f \in Frames, Expire(f) PROVE AllAwake(frame', draining')
    BY <1>2, SMT DEF Expire, nodeVars, FInv, AllAwake, Awake
  <1>3. ASSUME NEW c \in Clients, NEW n \in Entries, NEW stream \in BOOLEAN, Submit(c, n, stream)
        PROVE  AllAwake(frame', draining')
    BY <1>3, OpenedAwake DEF Submit, nodeVars, FInv, AllAwake
  <1>4. ASSUME NEW c \in Clients, Leave(c) PROVE AllAwake(frame', draining')
    BY <1>4, SMT DEF Leave, nodeVars, FInv, AllAwake, Awake
  <1>5. ASSUME NEW n \in Nodes, frame' = Notified(frame, n), draining' \in SUBSET (draining \cup {n})
        PROVE  AllAwake(frame', draining')
    BY <1>5, NotifiedKeeps DEF FInv
  <1>6. ASSUME NEW n \in Nodes, Drain(n) \/ Reload(n) \/ Built(n) PROVE AllAwake(frame', draining')
    BY <1>5, <1>6 DEF Drain, Reload, Built
  <1>7. ASSUME NEW n \in Nodes, NEW m \in Nodes,
               Gossip(n, m) \/ GossipSent(n, m) \/ Stale(n, m) \/ Elapse(n, m)
        PROVE  AllAwake(frame', draining')
    BY <1>5, <1>7 DEF Gossip, GossipSent, Stale, Elapse, FInv
  <1>8. CASE UNCHANGED vars
    BY <1>8 DEF vars, nodeVars, FInv
  <1> QED
    BY <1>1, <1>2, <1>3, <1>4, <1>6, <1>7, <1>8 DEF Next, Environment

----------------------------------------------------------------------------
(* Theorems about drains.                                                  *)

\* begin_shutdown_drain notifies once, and every request that waits for capacity on
\* the node is awake or about to be, whatever retries, denials and reloads led it to
\* its wait.
THEOREM DrainReachesWaiters == Spec => []NoSleepThroughDrain
  <1>1. FInv => NoSleepThroughDrain
    BY DEF FInv, AllAwake, Awake, NoSleepThroughDrain
  <1> QED BY FInvInit, FInvStep, <1>1, PTL DEF Spec

\* route_request does not dispatch a request again to a peer that rejected it with a
\* drain, in a mesh of any size and whatever gossip reports of the peer since.
THEOREM DrainedPeersAreLeft == Spec => []DrainedPeerIsLeftAlone
  <1>1. FInv => DrainedPeerIsLeftAlone
    BY DEF FInv, AllAwake, Awake, DrainedPeerIsLeftAlone
  <1> QED BY FInvInit, FInvStep, <1>1, PTL DEF Spec

----------------------------------------------------------------------------
(* The routing implements ProxyService.                                    *)

\* What the abstract specification knows.
World == [client |-> client, entry |-> entry, draining |-> draining, lacked |-> lacked,
          overdue |-> overdue, spent |-> spent]

\* Facts only come true, and a request does not move once it has entered.
Grows(w, v) ==
    /\ w.draining \subseteq v.draining /\ w.lacked \subseteq v.lacked
    /\ w.overdue \subseteq v.overdue /\ w.spent \subseteq v.spent
    /\ \A c \in Clients : w.client[c] # "new" => v.client[c] # "new" /\ v.entry[c] = w.entry[c]

JustifiedIn(w, c, kind, n) ==
    \/ kind \in {"ok", "stream", "upstream"}
    \/ kind = "draining" /\ n = w.entry[c] /\ n \in w.draining
    \/ kind = "queue_timeout" /\ c \in w.overdue \cup w.spent
    \/ kind = "notfound" /\ n \in w.lacked
    \/ kind \in {"no_capacity", "exhausted"} /\ (n = w.entry[c] \/ c \in w.spent)
    \/ kind = "bad" /\ n # NoNode

\* An answer that may leave a frame on this node for this caller.
AnswerOK(out, node, caller, w) ==
    \E kind \in Kinds, n \in Nodes :
        /\ out = <<kind, n>>
        /\ kind = "draining" => n = node /\ n \in w.draining
        /\ kind = "notfound" => n \in w.lacked
        /\ caller \in Clients => JustifiedIn(w, caller, kind, n)

Routing == {"preflight", "choose", "none", "track", "dispatch", "sent", "rearm", "wait",
            "acquire", "serve", "stream"}

\* What holds of each frame on its own.
Sound(r, w) ==
    /\ {"pc", "node", "caller", "expired", "knows", "fallback", "target", "child", "out"}
          \subseteq DOMAIN r
    /\ r.pc = "free" => r.caller = Nobody /\ r.child = Nobody
    /\ r.pc # "free" => r.node \in Nodes
    /\ r.caller \in Clients =>
          /\ w.client[r.caller] # "new" /\ w.entry[r.caller] = r.node
          /\ r.expired => r.caller \in w.overdue
          /\ r.fallback => r.caller \in w.spent
    /\ r.pc \in Routing /\ ~r.knows => r.node \in w.lacked
    /\ r.pc \in {"track", "dispatch", "sent"} => r.target \in Nodes
    /\ r.pc = "done" => AnswerOK(r.out, r.node, r.caller, w)
    /\ r.child # Nobody => r.pc \in {"sent", "stream"} /\ r.child \in Frames

AllSound(fr, w) == DOMAIN fr = Frames /\ \A f \in Frames : Sound(fr[f], w)

\* A call and its frame.
Tied(fr) ==
    /\ \A f \in Frames : fr[f].child # Nobody =>
          LET g == fr[f].child
          IN  g # f /\ fr[g].caller = f /\ fr[g].pc # "free" /\ fr[g].node = fr[f].target
    /\ \A f, g \in Frames : fr[f].caller \in Clients /\ fr[f].caller = fr[g].caller => f = g

\* A client whose request is worked on, and has no head of a stream yet, is waiting.
Awaited(fr, cl) ==
    \A f \in Frames : fr[f].caller \in Clients /\ fr[f].pc \notin {"stream", "done"}
                          => cl[fr[f].caller] = "open"

FactsOK ==
    /\ client \in [Clients -> {"new", "open", "left", "answered"}]
    /\ DOMAIN entry = Clients /\ DOMAIN answer = Clients
    /\ draining \subseteq Nodes /\ lacked \subseteq Nodes /\ Nodes \ cookbook \subseteq lacked
    /\ overdue \subseteq {c \in Clients : client[c] # "new"}
    /\ spent \subseteq {c \in Clients : client[c] # "new"}

RInv == FactsOK /\ AllSound(frame, World) /\ Tied(frame) /\ Awaited(frame, client)

----------------------------------------------------------------------------
(* Frames that begin, end or go on.                                        *)

LEMMA SoundGrows ==
    ASSUME NEW r, NEW w, NEW v, Sound(r, w), Grows(w, v)
    PROVE  Sound(r, v)
  <1>1. AnswerOK(r.out, r.node, r.caller, w) => AnswerOK(r.out, r.node, r.caller, v)
    <2> SUFFICES ASSUME NEW kind \in Kinds, NEW n \in Nodes,
                        r.out = <<kind, n>>,
                        kind = "draining" => n = r.node /\ n \in w.draining,
                        kind = "notfound" => n \in w.lacked,
                        r.caller \in Clients => JustifiedIn(w, r.caller, kind, n)
                 PROVE  AnswerOK(r.out, r.node, r.caller, v)
        BY DEF AnswerOK
    <2>1. r.caller \in Clients => JustifiedIn(v, r.caller, kind, n)
      BY DEF Sound, Grows, JustifiedIn
    <2> QED BY <2>1 DEF AnswerOK, Grows
  <1> QED BY <1>1 DEF Sound, Grows

LEMMA IdleSound == \A w : Sound(Idle, w)
  BY ForwardingAssumption DEF Sound, Idle, Routing

\* A change of the frames in which nobody gets a new caller or a new child, a frame
\* that is still waited for stays in place, and one that has answered does not resume.
Evolves(fr, to) ==
    /\ DOMAIN to = Frames
    /\ \A f \in Frames :
          /\ to[f].caller \in {fr[f].caller, Nobody}
          /\ to[f].child \in {fr[f].child, Nobody}
          /\ to[f].caller \in Clients /\ to[f].pc \notin {"stream", "done"}
                => fr[f].pc \notin {"stream", "done"}
          /\ to[f].child # Nobody =>
                LET g == to[f].child
                IN  /\ to[f].target = fr[f].target
                    /\ to[g].caller = fr[g].caller /\ to[g].pc # "free" /\ to[g].node = fr[g].node

LEMMA EvolvesKeeps ==
    ASSUME NEW fr, NEW to, NEW cl, NEW w, AllSound(fr, w), Tied(fr), Awaited(fr, cl), Evolves(fr, to)
    PROVE  Tied(to) /\ Awaited(to, cl)
  <1>1. ASSUME NEW f \in Frames, to[f].child # Nobody
        PROVE  LET g == to[f].child
               IN  g # f /\ to[g].caller = f /\ to[g].pc # "free" /\ to[g].node = to[f].target
    BY <1>1, SMT DEF Evolves, Tied
  <1>2. ASSUME NEW f \in Frames, NEW g \in Frames, to[f].caller \in Clients,
               to[f].caller = to[g].caller
        PROVE  f = g
    BY <1>2, ForwardingAssumption, SMT DEF Evolves, Tied
  <1>3. Awaited(to, cl)
    BY ForwardingAssumption DEF Evolves, Awaited
  <1> QED BY <1>1, <1>2, <1>3 DEF Tied

LEMMA NotifiedEvolves ==
    ASSUME NEW fr, NEW to, NEW w, NEW n, Evolves(fr, to), AllSound(to, w)
    PROVE  Evolves(fr, Notified(to, n)) /\ AllSound(Notified(to, n), w)
  <1> DEFINE q(f) == Notified(to, n)[f]
  <1>1. ASSUME NEW f \in Frames
        PROVE  /\ q(f).caller = to[f].caller /\ q(f).child = to[f].child /\ q(f).pc = to[f].pc
               /\ q(f).node = to[f].node /\ q(f).target = to[f].target
               /\ Sound(q(f), w)
    BY DEF Notified, AllSound, Sound
  <1>2. DOMAIN Notified(to, n) = Frames
    BY DEF Notified
  <1>3. \A f \in Frames : to[f].child # Nobody => to[f].child \in Frames
    BY DEF AllSound, Sound
  <1> HIDE DEF q
  <1>4. Evolves(fr, Notified(to, n))
    BY <1>1, <1>2, <1>3, SMT DEF Evolves, q
  <1> QED BY <1>1, <1>2, <1>4 DEF AllSound, q

\* A frame lets go of the frame it waits for and goes on as e.
LEMMA LetGo ==
    ASSUME NEW w, AllSound(frame, w), Tied(frame), NEW f \in Frames, NEW e, NEW to,
           Sound(e, w), e.child = Nobody, e.caller \in {frame[f].caller, Nobody},
           ~Gone(f) => e.caller = frame[f].caller /\ e.pc # "free" /\ e.node = frame[f].node,
           e.caller \in Clients /\ e.pc \notin {"stream", "done"}
              => frame[f].pc \notin {"stream", "done"},
           DOMAIN to = Frames, to[f] = e,
           \A h \in Frames : h # f /\ h # frame[f].child => to[h] = frame[h],
           LET g == frame[f].child
           IN  g # Nobody => to[g] \in {Idle, [frame[g] EXCEPT !.caller = Nobody]}
                             /\ (frame[g].pc # "done" => to[g] = [frame[g] EXCEPT !.caller = Nobody])
    PROVE  Evolves(frame, to) /\ AllSound(to, w)
  <1> DEFINE g == frame[f].child
  <1>1. g # Nobody => g \in Frames /\ g # f /\ frame[g].caller = f
    BY ForwardingAssumption DEF AllSound, Sound, Tied
  <1>2. g # Nobody => /\ Sound(to[g], w)
                      /\ to[g].caller = Nobody
                      /\ to[g].child \in {frame[g].child, Nobody}
                      /\ to[g].child # Nobody => to[g].target = frame[g].target
    <2>1. CASE to[g] = Idle
      <3>1. Idle.caller = Nobody /\ Idle.child = Nobody
        BY DEF Idle
      <3> QED BY <2>1, <3>1, IdleSound
    <2>2. CASE g # Nobody /\ frame[g].pc # "done" /\ to[g] = [frame[g] EXCEPT !.caller = Nobody]
      BY <1>1, <2>2, ForwardingAssumption, SMT DEF AllSound, Sound
    <2>3. CASE g # Nobody /\ frame[g].pc = "done" /\ to[g] = [frame[g] EXCEPT !.caller = Nobody]
      <3>1. AnswerOK(frame[g].out, frame[g].node, Nobody, w)
        BY <1>1, <2>3, ForwardingAssumption, SMT DEF AllSound, Sound, AnswerOK
      <3> QED BY <1>1, <2>3, <3>1, ForwardingAssumption, SMT DEF AllSound, Sound
    <2> QED BY <2>1, <2>2, <2>3
  <1>3. AllSound(to, w)
    BY <1>2, ForwardingAssumption DEF AllSound
  <1>4. ASSUME NEW h \in Frames
        PROVE  /\ to[h].caller \in {frame[h].caller, Nobody}
               /\ to[h].child \in {frame[h].child, Nobody}
               /\ to[h].caller \in Clients /\ to[h].pc \notin {"stream", "done"}
                     => frame[h].pc \notin {"stream", "done"}
               /\ to[h].child # Nobody =>
                     LET k == to[h].child
                     IN  /\ to[h].target = frame[h].target
                         /\ to[k].caller = frame[k].caller /\ to[k].pc # "free"
                         /\ to[k].node = frame[k].node
    <2>1. CASE h = f
      BY <2>1
    <2>2. CASE h # f
      <3>1. /\ to[h].caller \in {frame[h].caller, Nobody}
            /\ to[h].child \in {frame[h].child, Nobody}
            /\ to[h].caller \in Clients => to[h].pc = frame[h].pc
            /\ to[h].child # Nobody => to[h].target = frame[h].target
        BY <1>2, <2>2, ForwardingAssumption
      <3>2. ASSUME to[h].child # Nobody
            PROVE  LET k == to[h].child
                   IN  /\ to[k].caller = frame[k].caller /\ to[k].pc # "free"
                       /\ to[k].node = frame[k].node
        <4> DEFINE k == to[h].child
        <4>1. k = frame[h].child /\ k \in Frames /\ frame[k].caller = h /\ frame[k].pc # "free"
          BY <3>1, <3>2, SMT DEF AllSound, Sound, Tied
        <4>2. k # g
          BY <1>1, <2>2, <4>1, <3>2
        <4>3. CASE k = f
          <5>1. ~Gone(f)
            BY <4>1, <4>3, ForwardingAssumption DEF Gone
          <5> QED BY <4>3, <5>1
        <4>4. CASE k # f
          BY <4>1, <4>2, <4>4
        <4> QED BY <4>3, <4>4
      <3> QED BY <3>1, <3>2
    <2> QED BY <2>1, <2>2
  <1> QED BY <1>3, <1>4 DEF Evolves

\* A frame ends with an answer.
LEMMA EndedEvolves ==
    ASSUME NEW w, AllSound(frame, w), Tied(frame), NEW f \in Frames, frame[f].pc # "free",
           NEW out, NEW relayed, NEW counted,
           ~Gone(f) => AnswerOK(out, frame[f].node, frame[f].caller, w)
    PROVE  LET to == Ended(f, out, relayed, counted)
           IN  Evolves(frame, to) /\ AllSound(to, w)
  <1> DEFINE r == frame[f]
             g == r.child
             e == IF Gone(f) THEN Idle
                  ELSE [Idle EXCEPT !.pc = "done", !.out = out, !.relayed = relayed,
                               !.node = r.node, !.caller = r.caller, !.errors = r.errors + counted]
             to == Ended(f, out, relayed, counted)
  <1>1. Sound(e, w) /\ e.child = Nobody
    BY IdleSound, ForwardingAssumption, SMT DEF Sound, Idle, Gone, AllSound, Routing
  <1>2. /\ e.caller \in {r.caller, Nobody}
        /\ ~Gone(f) => e.caller = r.caller /\ e.pc = "done" /\ e.node = r.node
        /\ e.caller \in Clients => e.pc = "done"
    BY ForwardingAssumption DEF Idle, Gone
  <1>3. g # Nobody => g \in Frames /\ g # f /\ frame[g].caller = f
    BY ForwardingAssumption DEF AllSound, Sound, Tied
  <1> HIDE DEF e
  <1>4. /\ DOMAIN to = Frames
        /\ to[f] = e
        /\ \A h \in Frames : h # f /\ h # g => to[h] = frame[h]
        /\ g # Nobody => to[g] = IF frame[g].pc = "done" THEN Idle ELSE [frame[g] EXCEPT !.caller = Nobody]
    BY <1>3 DEF Ended, Abandoned, AllSound, e
  <1> HIDE DEF to
  <1>5. Evolves(frame, to) /\ AllSound(to, w)
    BY <1>1, <1>2, <1>4, LetGo
  <1> QED BY <1>5 DEF to

\* A frame goes on by itself.
LEMMA UpdateEvolves ==
    ASSUME NEW w, AllSound(frame, w), Tied(frame), NEW f \in Frames, NEW r,
           Sound(r, w), r.pc # "free",
           r.caller = frame[f].caller, r.child = frame[f].child, r.node = frame[f].node,
           r.child # Nobody => r.target = frame[f].target,
           r.pc \notin {"stream", "done"} => frame[f].pc \notin {"stream", "done"}
    PROVE  LET to == [frame EXCEPT ![f] = r]
           IN  Evolves(frame, to) /\ AllSound(to, w)
  <1> DEFINE to == [frame EXCEPT ![f] = r]
  <1>1. DOMAIN to = Frames /\ to[f] = r /\ (\A h \in Frames : h # f => to[h] = frame[h])
    BY DEF AllSound
  <1> HIDE DEF to
  <1>2. AllSound(to, w)
    BY <1>1 DEF AllSound
  <1>3. \A h \in Frames : frame[h].child # Nobody =>
            frame[h].child \in Frames /\ frame[frame[h].child].pc # "free"
    BY DEF AllSound, Sound, Tied
  <1>4. Evolves(frame, to)
    BY <1>1, <1>3, SMT DEF Evolves
  <1> QED BY <1>2, <1>4 DEF to

\* A frame gives up an attempt and tries on; the frame of the attempt is left alone, or
\* its answer has been read.
LEMMA RetryEvolves ==
    ASSUME NEW w, AllSound(frame, w), Tied(frame), NEW f \in Frames,
           frame[f].pc \in {"dispatch", "sent"}, NEW fr, NEW outcome, Retry(f, fr, outcome),
           \/ fr = Abandoned(frame, frame[f].child)
           \/ frame[f].child # Nobody /\ frame[frame[f].child].pc = "done" /\ fr = Consumed(f)
    PROVE  Evolves(frame, frame') /\ AllSound(frame', w)
  <1> DEFINE g == frame[f].child
             r == IF frame[f].fallback THEN RetryFallback(f, outcome)
                  ELSE IF frame[f].knows THEN RetryKnown(f, outcome)
                  ELSE RetryUnknown(f, outcome)
             d == Noted(f, outcome)
  <1>1. Sound(frame[f], w)
    BY DEF AllSound
  <1>2. /\ DOMAIN d = DOMAIN frame[f] /\ d.child = Nobody
        /\ d.node = frame[f].node /\ d.caller = frame[f].caller /\ d.expired = frame[f].expired
        /\ d.knows = frame[f].knows /\ d.fallback = frame[f].fallback
    BY <1>1 DEF Sound, Noted
  <1> HIDE DEF d
  <1> DEFINE Keeps(x) ==
                 /\ DOMAIN x = DOMAIN d /\ x.child = Nobody /\ x.pc \in {"preflight", "rearm"}
                 /\ x.node = d.node /\ x.caller = d.caller /\ x.expired = d.expired
                 /\ x.knows = d.knows /\ x.fallback = d.fallback
  <1>3. Keeps(r)
    <2>1. ASSUME NEW pc \in {"preflight", "rearm"}, NEW skip, NEW bounded
          PROVE  /\ Keeps([d EXCEPT !.pc = pc, !.skip = skip, !.bounded = bounded])
                 /\ Keeps([d EXCEPT !.pc = pc])
      BY <1>1, <1>2 DEF Sound
    <2> HIDE DEF Keeps
    <2>2. Keeps(RetryFallback(f, outcome)) /\ Keeps(RetryKnown(f, outcome))
      BY <2>1 DEF RetryFallback, RetryKnown, d
    <2>3. Keeps(RetryUnknown(f, outcome))
      <3>1. CASE AtOnce(f, outcome)
        BY <2>1, <3>1 DEF RetryUnknown, d
      <3>2. CASE ~AtOnce(f, outcome)
        BY <2>1, <3>2 DEF RetryUnknown, d
      <3> QED BY <3>1, <3>2
    <2> QED BY <2>2, <2>3
  <1>4. frame' = [fr EXCEPT ![f] = r]
    BY DEF Retry, r
  <1> HIDE DEF r
  <1>5. Sound(r, w)
    BY <1>1, <1>2, <1>3, SMT DEF Sound, Routing
  <1>6. g # Nobody => g \in Frames /\ g # f
    BY DEF AllSound, Sound, Tied
  <1>7. /\ DOMAIN fr = Frames
        /\ \A h \in Frames : h # f /\ h # g => fr[h] = frame[h]
        /\ g # Nobody => fr[g] \in {Idle, [frame[g] EXCEPT !.caller = Nobody]}
                         /\ (frame[g].pc # "done" => fr[g] = [frame[g] EXCEPT !.caller = Nobody])
    <2> USE <1>6 DEF AllSound
    <2>1. CASE fr = frame /\ g = Nobody
      BY <2>1
    <2>2. CASE g # Nobody /\ fr = [frame EXCEPT ![g] = IF @.pc = "done" THEN Idle ELSE [@ EXCEPT !.caller = Nobody]]
      BY <2>2
    <2>3. CASE g # Nobody /\ frame[g].pc = "done" /\ fr = [frame EXCEPT ![g] = Idle]
      BY <2>3
    <2> QED BY <2>1, <2>2, <2>3 DEF Abandoned, Consumed
  <1>8. /\ DOMAIN frame' = Frames /\ frame'[f] = r
        /\ \A h \in Frames : h # f /\ h # g => frame'[h] = frame[h]
        /\ g # Nobody => frame'[g] \in {Idle, [frame[g] EXCEPT !.caller = Nobody]}
                         /\ (frame[g].pc # "done" => frame'[g] = [frame[g] EXCEPT !.caller = Nobody])
    BY <1>4, <1>6, <1>7
  <1> QED BY <1>2, <1>3, <1>5, <1>8, LetGo, SMT

----------------------------------------------------------------------------
(* Answers that a frame makes itself.                                      *)

OwnReason(f, kind) ==
    \/ Gone(f)
    \/ kind \in {"ok", "stream", "upstream", "bad", "no_capacity", "exhausted"}
    \/ kind = "draining" /\ frame[f].node \in draining
    \/ kind = "queue_timeout" /\ frame[f].expired
    \/ kind = "notfound" /\ frame[f].node \in lacked

Quiet == Evolves(frame, frame') /\ AllSound(frame', World)

LEMMA OwnOK ==
    ASSUME AllSound(frame, World), NEW f \in Frames, frame[f].pc # "free", NEW kind,
           OwnReason(f, kind), ~Gone(f)
    PROVE  AnswerOK(Own(f, kind), frame[f].node, frame[f].caller, World)
  <1> DEFINE n == frame[f].node
  <1>1. Sound(frame[f], World)
    BY DEF AllSound
  <1>2. kind \in Kinds /\ n \in Nodes /\ n # NoNode
    BY <1>1, ForwardingAssumption DEF Sound, OwnReason, Kinds
  <1>3. kind = "draining" => n \in World.draining
    BY DEF World, OwnReason
  <1>4. kind = "notfound" => n \in World.lacked
    BY DEF World, OwnReason
  <1>5. frame[f].caller \in Clients => JustifiedIn(World, frame[f].caller, kind, n)
    BY <1>1, <1>2 DEF World, OwnReason, JustifiedIn, Sound
  <1> QED BY <1>2, <1>3, <1>4, <1>5 DEF AnswerOK, Own

LEMMA OwnAnswer ==
    ASSUME RInv, NEW f \in Frames, frame[f].pc # "free", NEW kind, NEW counted,
           OwnReason(f, kind),
           Answer(f, kind, counted) \/ AnswerLocal(f, kind, counted) \/ Refuse(f, kind)
    PROVE  Quiet
  <1> DEFINE to(k) == Ended(f, Own(f, kind), FALSE, k)
  <1>1. ~Gone(f) => AnswerOK(Own(f, kind), frame[f].node, frame[f].caller, World)
    BY OwnOK DEF RInv
  <1>2. ASSUME NEW k PROVE Evolves(frame, to(k)) /\ AllSound(to(k), World)
    BY <1>1, EndedEvolves DEF RInv
  <1>3. ASSUME NEW k
        PROVE  /\ Evolves(frame, Notified(to(k), frame[f].node))
               /\ AllSound(Notified(to(k), frame[f].node), World)
    BY <1>2, NotifiedEvolves
  <1> QED BY <1>2, <1>3 DEF Quiet, Answer, AnswerLocal, Refuse, End

----------------------------------------------------------------------------
(* The same actions, with the answers that leave them.                     *)

\* A frame with no call under way goes on as r.
Moves(f, r) ==
    /\ frame[f].pc \notin {"free", "sent", "stream", "done"}
    /\ DOMAIN r = DOMAIN frame[f] /\ r.child = Nobody
    /\ r.caller = frame[f].caller /\ r.node = frame[f].node
    /\ r.expired = frame[f].expired /\ r.fallback = frame[f].fallback
    /\ r.pc \in Routing \cup {"body"}
    /\ r.pc # "body" /\ ~r.knows => r.node \in lacked
    /\ r.pc \in {"track", "dispatch", "sent"} => r.target \in Nodes

LEMMA MoveQuiet ==
    ASSUME RInv, NEW f \in Frames, NEW r, Moves(f, r), frame' = [frame EXCEPT ![f] = r]
    PROVE  Quiet
  <1>1. Sound(frame[f], World) /\ frame[f].child = Nobody
    BY DEF RInv, AllSound, Sound, Moves
  <1>2. Sound(r, World)
    BY <1>1 DEF Sound, Routing, World, Moves
  <1>3. /\ r.caller = frame[f].caller /\ r.child = frame[f].child /\ r.node = frame[f].node
        /\ r.child # Nobody => r.target = frame[f].target
        /\ r.pc # "free" /\ frame[f].pc \notin {"stream", "done"}
    BY <1>1 DEF Routing, Moves
  <1>4. AllSound(frame, World) /\ Tied(frame)
    BY DEF RInv
  <1>5. Evolves(frame, [frame EXCEPT ![f] = r]) /\ AllSound([frame EXCEPT ![f] = r], World)
    BY <1>2, <1>3, <1>4, UpdateEvolves
  <1> QED BY <1>5 DEF Quiet

LEMMA CandidatesAreNodes ==
    ASSUME NEW f \in Frames, frame[f].node \in Nodes, NEW m \in Candidates(f)
    PROVE  m \in Nodes
  <1>1. CASE m \in FindPeer(f)
    <2>1. m \in DOMAIN Reports(frame[f].node)
      BY <1>1 DEF FindPeer, Preferred, Usable
    <2> QED BY <2>1 DEF Reports
  <1>2. CASE m \in SelectBest(f)
    <2> DEFINE n == frame[f].node
    <2>1. \A k \in Routable(Reports(n), Allowed(n), Excluded(f)) : k \in Allowed(n)
      BY DEF Routable, Usable
    <2>2. m = n \/ m \in Routable(Reports(n), Allowed(n), Excluded(f))
      BY <1>2 DEF SelectBest, Best
    <2> QED BY <2>1, <2>2 DEF Allowed
  <1> QED BY <1>1, <1>2 DEF Candidates

\* What a preflight finds is a reason.
LEMMA PreflightReason ==
    ASSUME NEW f \in Frames, Preflight(f)[1] # "pass"
    PROVE  OwnReason(f, Preflight(f)[1])
  <1>1. CASE frame[f].node \in draining
    BY <1>1 DEF Preflight, OwnReason
  <1>2. CASE frame[f].node \notin draining /\ frame[f].expired
    BY <1>2 DEF Preflight, OwnReason
  <1>3. CASE frame[f].node \notin draining /\ ~frame[f].expired /\ Gone(f)
    BY <1>3 DEF OwnReason
  <1>4. CASE frame[f].node \notin draining /\ ~frame[f].expired /\ ~Gone(f)
    BY <1>4 DEF Preflight
  <1> QED BY <1>1, <1>2, <1>3, <1>4

LEMMA ArrivalQuiet ==
    ASSUME RInv, NEW f \in Frames, Arrive(f) \/ Reject(f) \/ ResolveUnknown(f) \/ ResolveKnown(f)
    PROVE  Quiet
  <1>1. Sound(frame[f], World) /\ frame[f].pc \in {"arrive", "body"}
    BY DEF RInv, AllSound, Arrive, Reject, ResolveUnknown, ResolveKnown
  <1>2. frame[f].child = Nobody /\ frame[f].pc # "free" /\ frame[f].node \in Nodes
    BY <1>1 DEF Sound
  <1>3. ASSUME NEW kind, OwnReason(f, kind), Refuse(f, kind) PROVE Quiet
    BY <1>2, <1>3, OwnAnswer
  <1>4. CASE Arrive(f)
    <2>1. CASE Refuse(f, "draining") /\ frame[f].node \in draining
      BY <1>3, <2>1 DEF OwnReason
    <2>2. CASE Goto(f, "body")
      <3> DEFINE r == [frame[f] EXCEPT !.pc = "body"]
      <3>1. frame' = [frame EXCEPT ![f] = r]
        BY <2>2 DEF Goto
      <3>2. Moves(f, r)
        BY <1>1, <1>2 DEF Moves, Sound, Routing
      <3> QED BY <3>1, <3>2, MoveQuiet
    <2> QED BY <1>4, <2>1, <2>2 DEF Arrive
  <1>5. CASE Reject(f)
    BY <1>3, <1>5 DEF Reject, OwnReason
  <1>6. ASSUME NEW knows \in BOOLEAN, Counted(f, knows), knows \/ frame[f].node \in lacked
        PROVE  Quiet
    <2> DEFINE r == [frame[f] EXCEPT !.pc = "preflight", !.knows = knows]
    <2>1. frame' = [frame EXCEPT ![f] = r]
      BY <1>6 DEF Counted
    <2>2. Moves(f, r)
      BY <1>1, <1>2, <1>6 DEF Moves, Sound, Routing
    <2> QED BY <2>1, <2>2, MoveQuiet
  <1>7. frame[f].node \notin cookbook => frame[f].node \in lacked
    BY <1>2 DEF RInv, FactsOK
  <1> QED BY <1>4, <1>5, <1>6, <1>7 DEF ResolveUnknown, ResolveKnown

LEMMA ChoiceQuiet ==
    ASSUME RInv, NEW f \in Frames, BeforeChoice(f) \/ Choose(f) \/ NoPeer(f) \/ NoNodeFree(f) \/ Track(f)
    PROVE  Quiet
  <1>1. Sound(frame[f], World) /\ frame[f].pc \in {"preflight", "choose", "none", "track"}
    BY DEF RInv, AllSound, BeforeChoice, Choose, NoPeer, NoNodeFree, Track
  <1>2. /\ frame[f].child = Nobody /\ frame[f].pc # "free" /\ frame[f].node \in Nodes
        /\ ~frame[f].knows => frame[f].node \in lacked
    BY <1>1 DEF Sound, Routing, World
  <1>3. ASSUME NEW kind, NEW counted, OwnReason(f, kind), Answer(f, kind, counted) PROVE Quiet
    BY <1>2, <1>3, OwnAnswer
  <1>4. CASE Stop(f, Preflight(f)) /\ Preflight(f)[1] # "pass"
    BY <1>3, <1>4, PreflightReason DEF Stop
  <1>5. CASE BeforeChoice(f) /\ Preflight(f)[1] = "pass"
    <2> DEFINE a == IF frame[f].fallback THEN "no" ELSE "armed"
               r == [frame[f] EXCEPT !.pc = "choose", !.armed = a]
    <2>1. frame' = [frame EXCEPT ![f] = r]
      BY <1>5 DEF BeforeChoice
    <2> HIDE DEF a
    <2>2. Moves(f, r)
      BY <1>1, <1>2 DEF Moves, Sound, Routing
    <2> QED BY <2>1, <2>2, MoveQuiet
  <1>6. CASE Choose(f)
    <2>1. ASSUME NEW m \in Candidates(f),
                 frame' = [frame EXCEPT ![f].pc = "track", ![f].target = m, ![f].found = TRUE,
                                        ![f].exclude = NoNode]
          PROVE  Quiet
      <3> DEFINE r == [frame[f] EXCEPT !.pc = "track", !.target = m, !.found = TRUE,
                                       !.exclude = NoNode]
      <3>1. m \in Nodes
        BY <1>2, CandidatesAreNodes
      <3>2. frame' = [frame EXCEPT ![f] = r]
        BY <2>1
      <3>3. Moves(f, r)
        BY <1>1, <1>2, <3>1 DEF Moves, Sound, Routing
      <3> QED BY <3>2, <3>3, MoveQuiet
    <2>2. CASE frame' = [frame EXCEPT ![f].pc = "none", ![f].exclude = NoNode]
      <3> DEFINE r == [frame[f] EXCEPT !.pc = "none", !.exclude = NoNode]
      <3>1. frame' = [frame EXCEPT ![f] = r]
        BY <2>2
      <3>2. Moves(f, r)
        BY <1>1, <1>2 DEF Moves, Sound, Routing
      <3> QED BY <3>1, <3>2, MoveQuiet
    <2> QED BY <1>6, <2>1, <2>2 DEF Choose
  <1>7. CASE AwaitCluster(f)
    <2> DEFINE r == [frame[f] EXCEPT !.pc = "wait", !.bounded = frame[f].denied # NoNode]
    <2>1. frame' = [frame EXCEPT ![f] = r]
      BY <1>7 DEF AwaitCluster
    <2>2. Moves(f, r)
      BY <1>1, <1>2 DEF Moves, Sound, Routing
    <2> QED BY <2>1, <2>2, MoveQuiet
  <1>8. CASE NoPeer(f)
    BY <1>2, <1>3, <1>7, <1>8 DEF NoPeer, OwnReason
  <1>9. CASE NoNodeFree(f)
    <2>1. frame[f].node \notin cookbook => frame[f].node \in lacked
      BY <1>2 DEF RInv, FactsOK
    <2> QED BY <1>3, <1>7, <1>9, <2>1 DEF NoNodeFree, OwnReason
  <1>10. CASE Track(f) /\ Preflight(f)[1] = "pass"
    <2>1. frame[f].pc = "track" /\ frame[f].target \in Nodes
      <3>1. frame[f].pc = "track"
        BY <1>10 DEF Track
      <3> QED BY <1>1, <3>1 DEF Sound
    <2>2. CASE frame' = [frame EXCEPT ![f].pc = "acquire", ![f].target = NoNode]
      <3> DEFINE r == [frame[f] EXCEPT !.pc = "acquire", !.target = NoNode]
      <3>1. frame' = [frame EXCEPT ![f] = r]
        BY <2>2
      <3>2. Moves(f, r)
        BY <1>1, <1>2 DEF Moves, Sound, Routing
      <3> QED BY <3>1, <3>2, MoveQuiet
    <2>3. CASE Goto(f, "dispatch")
      <3> DEFINE r == [frame[f] EXCEPT !.pc = "dispatch"]
      <3>1. frame' = [frame EXCEPT ![f] = r]
        BY <2>3 DEF Goto
      <3>2. Moves(f, r)
        BY <1>1, <1>2, <2>1 DEF Moves, Sound, Routing
      <3> QED BY <3>1, <3>2, MoveQuiet
    <2> QED BY <1>10, <2>2, <2>3 DEF Track
  <1> QED BY <1>4, <1>5, <1>6, <1>8, <1>9, <1>10 DEF BeforeChoice, Track

LEMMA WaitQuiet ==
    ASSUME RInv, NEW f \in Frames,
           Rearm(f) \/ Wake(f) \/ WaitExpires(f) \/ WaitGone(f) \/ FallbackFails(f)
    PROVE  Quiet
  <1>1. Sound(frame[f], World) /\ frame[f].pc \in {"rearm", "wait", "none"}
    BY DEF RInv, AllSound, Rearm, Wake, WaitExpires, WaitGone, FallbackFails
  <1>2. /\ frame[f].child = Nobody /\ frame[f].pc # "free" /\ frame[f].node \in Nodes
        /\ ~frame[f].knows => frame[f].node \in lacked
    BY <1>1 DEF Sound, Routing, World
  <1>3. ASSUME NEW kind, NEW counted, OwnReason(f, kind), Answer(f, kind, counted) PROVE Quiet
    BY <1>2, <1>3, OwnAnswer
  <1>4. CASE Rearm(f)
    <2>1. CASE frame[f].node \in draining
      BY <1>3, <1>4, <2>1 DEF Rearm, OwnReason
    <2>2. CASE frame[f].node \notin draining
      <3> DEFINE pc == IF frame[f].skip THEN "preflight" ELSE "wait"
                 r == [frame[f] EXCEPT !.pc = pc, !.armed = "armed", !.skip = FALSE]
      <3>1. frame' = [frame EXCEPT ![f] = r]
        BY <1>4, <2>2 DEF Rearm
      <3>2. pc \in {"preflight", "wait"}
        OBVIOUS
      <3> HIDE DEF pc
      <3>3. Moves(f, r)
        BY <1>1, <1>2, <3>2 DEF Moves, Sound, Routing
      <3> QED BY <3>1, <3>3, MoveQuiet
    <2> QED BY <2>1, <2>2
  <1>5. CASE Wake(f)
    <2> DEFINE r == [frame[f] EXCEPT !.pc = "preflight", !.bounded = FALSE]
    <2>1. frame' = [frame EXCEPT ![f] = r]
      BY <1>5 DEF Wake
    <2>2. Moves(f, r)
      BY <1>1, <1>2 DEF Moves, Sound, Routing
    <2> QED BY <2>1, <2>2, MoveQuiet
  <1>6. CASE WaitExpires(f) \/ WaitGone(f) \/ FallbackFails(f)
    BY <1>3, <1>6 DEF WaitExpires, WaitGone, FallbackFails, OwnReason
  <1> QED BY <1>4, <1>5, <1>6

\* A frame hands on an answer of its peer: never a drain, and the saturation of the
\* peer only when the frame's own node has given up.
LEMMA RelayOK ==
    ASSUME RInv, NEW f \in Frames, NEW out, Answered(f, out),
           \/ out[1] \in Healable /\ frame[f].fallback
           \/ out[1] \notin Healable /\ out # <<"draining", frame[f].target>>
    PROVE  AnswerOK(out, frame[f].node, frame[f].caller, World)
  <1> DEFINE g == frame[f].child
  <1>1. frame[f].child # Nobody /\ frame[g].pc = "done" /\ frame[g].out = out
    BY SMTT(20) DEF Answered, Child, Idle
  <1>2. /\ g \in Frames /\ frame[g].node = frame[f].target
        /\ Sound(frame[f], World) /\ Sound(frame[g], World)
    BY <1>1, SMTT(20) DEF RInv, AllSound, Sound, Tied
  <1>3. AnswerOK(out, frame[f].target, frame[g].caller, World)
    BY <1>1, <1>2 DEF Sound
  <1>4. PICK kind \in Kinds, n \in Nodes :
            /\ out = <<kind, n>>
            /\ kind = "draining" => n = frame[f].target
            /\ kind = "notfound" => n \in World.lacked
    BY <1>3 DEF AnswerOK
  <1>5. out[1] = kind /\ kind # "draining"
    BY <1>4 DEF Healable
  <1>6. frame[f].caller \in Clients => JustifiedIn(World, frame[f].caller, kind, n)
    <2>1. CASE kind \in Healable /\ frame[f].fallback
      BY <1>2, <2>1 DEF Sound, JustifiedIn, Healable
    <2>2. CASE kind \notin Healable
      BY <1>4, <1>5, <2>2, ForwardingAssumption DEF JustifiedIn, Healable, Kinds
    <2> QED BY <1>5, <2>1, <2>2, SMTT(20)
  <1> QED BY <1>4, <1>5, <1>6 DEF AnswerOK

LEMMA ForwardQuiet ==
    ASSUME RInv, NEW f \in Frames,
           \/ ProbeDenied(f) \/ DropForward(f) \/ PeerDrains(f) \/ Heal(f) \/ Surface(f)
           \/ \E kind \in {"request", "body"} : Transport(f, kind)
    PROVE  Quiet
  <1>1. frame[f].pc \in {"dispatch", "sent"} /\ Sound(frame[f], World)
    BY DEF RInv, AllSound, ProbeDenied, DropForward, PeerDrains, Heal, Surface, Answered,
           Transport
  <1>2. frame[f].pc # "free"
    BY <1>1
  <1>3. ASSUME NEW kind, NEW counted, OwnReason(f, kind), Answer(f, kind, counted) PROVE Quiet
    BY <1>2, <1>3, OwnAnswer
  <1>4. ASSUME NEW outcome, Over(f, Abandoned(frame, frame[f].child), outcome) PROVE Quiet
    <2>1. CASE Answer(f, FallbackAnswer(outcome), 1)
      <3>1. OwnReason(f, FallbackAnswer(outcome))
        BY DEF OwnReason, FallbackAnswer
      <3> QED BY <1>3, <2>1, <3>1
    <2>2. CASE Retry(f, Abandoned(frame, frame[f].child), outcome)
      BY <1>1, <2>2, RetryEvolves DEF Quiet, RInv
    <2> QED BY <1>4, <2>1, <2>2 DEF Over
  <1>5. ASSUME NEW out, Answered(f, out)
        PROVE  frame[f].child # Nobody /\ frame[frame[f].child].pc = "done"
    BY <1>5 DEF Answered, Child, Idle
  <1>6. ASSUME NEW out, Answered(f, out), NEW outcome, Retry(f, Consumed(f), outcome) PROVE Quiet
    BY <1>1, <1>5, <1>6, RetryEvolves DEF Quiet, RInv
  <1>7. ASSUME NEW out, Answered(f, out), NEW counted,
               \/ out[1] \in Healable /\ frame[f].fallback
               \/ out[1] \notin Healable /\ out # <<"draining", frame[f].target>>,
               LET to == Ended(f, out, TRUE, counted)
               IN  frame' = to \/ frame' = Notified(to, frame[f].node)
        PROVE  Quiet
    <2> DEFINE to == Ended(f, out, TRUE, counted)
    <2>1. AnswerOK(out, frame[f].node, frame[f].caller, World)
      BY <1>7, RelayOK
    <2>2. Evolves(frame, to) /\ AllSound(to, World)
      BY <1>2, <2>1, EndedEvolves DEF RInv
    <2>3. Evolves(frame, Notified(to, frame[f].node)) /\ AllSound(Notified(to, frame[f].node), World)
      BY <2>2, NotifiedEvolves
    <2> QED BY <1>7, <2>2, <2>3 DEF Quiet
  <1>8. CASE ProbeDenied(f)
    <2>1. frame[f].child = Nobody
      BY <1>1, <1>8 DEF Sound, ProbeDenied
    <2> QED BY <1>4, <1>8, <2>1 DEF ProbeDenied, Abandoned
  <1>9. CASE DropForward(f)
    BY <1>3, <1>9 DEF DropForward, OwnReason
  <1>10. CASE PeerDrains(f)
    BY <1>6, <1>10 DEF PeerDrains
  <1>11. CASE Heal(f)
    BY <1>6, <1>7, <1>11 DEF Heal, End
  <1>12. CASE Surface(f)
    BY <1>7, <1>12 DEF Surface
  <1>13. ASSUME NEW kind, Transport(f, kind) PROVE Quiet
    BY <1>4, <1>13 DEF Transport
  <1> QED BY <1>8, <1>9, <1>10, <1>11, <1>12, <1>13

LEMMA LocalQuiet ==
    ASSUME RInv, NEW f \in Frames,
           \/ Acquire(f) \/ AcquireFails(f) \/ ServeFails(f) \/ DropLocal(f) \/ StreamEnds(f)
           \/ frame[f].pc = "serve" /\ AnswerLocal(f, "ok", 0)
    PROVE  Quiet
  <1>1. frame[f].pc \in {"acquire", "serve", "stream"} /\ Sound(frame[f], World)
    BY DEF RInv, AllSound, Acquire, AcquireFails, ServeFails, DropLocal, StreamEnds
  <1>2. frame[f].pc # "free"
    BY <1>1
  <1>3. ASSUME NEW kind, NEW counted, OwnReason(f, kind),
               Answer(f, kind, counted) \/ AnswerLocal(f, kind, counted)
        PROVE  Quiet
    BY <1>2, <1>3, OwnAnswer
  <1>4. CASE Acquire(f)
    <2> DEFINE r == [frame[f] EXCEPT !.pc = "serve"]
    <2>1. frame' = [frame EXCEPT ![f] = r]
      BY <1>4 DEF Acquire, Goto
    <2>2. Moves(f, r)
      BY <1>1, <1>4 DEF Moves, Sound, Routing, Acquire, World
    <2> QED BY <2>1, <2>2, MoveQuiet
  <1>5. CASE AcquireFails(f)
    <2>1. frame[f].node \notin cookbook => frame[f].node \in lacked
      BY <1>1 DEF RInv, FactsOK, Sound
    <2> QED BY <1>3, <1>5, <2>1 DEF AcquireFails, OwnReason
  <1>6. CASE ServeFails(f) \/ DropLocal(f) \/ StreamEnds(f) \/ AnswerLocal(f, "ok", 0)
    BY <1>3, <1>6 DEF ServeFails, DropLocal, StreamEnds, OwnReason
  <1> QED BY <1>4, <1>5, <1>6

----------------------------------------------------------------------------
(* Steps of the abstract specification.                                    *)

\* A step that no client sees.
LEMMA EstablishStep ==
    ASSUME RInv, Evolves(frame, frame'), AllSound(frame', World'), FactsOK',
           Grows(World, World'), UNCHANGED <<client, answer, entry>>
    PROVE  RInv' /\ Service!Next
  <1>1. Tied(frame') /\ Awaited(frame', client')
    BY EvolvesKeeps DEF RInv
  <1>2. Service!Establish
    BY DEF Service!Establish, FactsOK, Grows, World
  <1> QED BY <1>1, <1>2 DEF RInv, Service!Next

LEMMA QuietStep ==
    ASSUME RInv, Quiet, UNCHANGED <<client, answer, entry, overdue, spent>>,
           draining \subseteq draining', draining' \subseteq Nodes,
           lacked \subseteq lacked', lacked' \subseteq Nodes, Nodes \ cookbook' \subseteq lacked'
    PROVE  RInv' /\ Service!Next
  <1>1. Grows(World, World')
    BY DEF Grows, World
  <1>2. AllSound(frame', World')
    BY <1>1, SoundGrows DEF Quiet, AllSound
  <1>3. FactsOK'
    BY DEF RInv, FactsOK
  <1> QED BY <1>1, <1>2, <1>3, EstablishStep DEF Quiet

LEMMA RoutineStep ==
    ASSUME RInv, Quiet, UNCHANGED <<client, answer, nodeVars, factVars>>
    PROVE  RInv' /\ Service!Next
  <1>1. /\ UNCHANGED <<client, answer, entry, overdue, spent>>
        /\ draining \subseteq draining' /\ draining' \subseteq Nodes
        /\ lacked \subseteq lacked' /\ lacked' \subseteq Nodes /\ Nodes \ cookbook' \subseteq lacked'
    BY DEF nodeVars, factVars, RInv, FactsOK
  <1> QED BY <1>1, QuietStep

\* A deadline passes, or the node gives up starting the model: the frame goes on as r,
\* and its client is among those it holds for.
LEMMA FactStep ==
    ASSUME RInv, NEW f \in Frames, NEW r, frame' = [frame EXCEPT ![f] = r],
           frame[f].pc \in LooksAtClock, r.pc \in LooksAtClock, DOMAIN r = DOMAIN frame[f],
           r.caller = frame[f].caller, r.child = frame[f].child, r.node = frame[f].node,
           r.knows = frame[f].knows, r.pc = "track" => frame[f].pc = "track" /\ r.target = frame[f].target,
           UNCHANGED <<client, answer, nodeVars, entry, lacked>>,
           \/ /\ r.expired /\ r.fallback = frame[f].fallback /\ spent' = spent
              /\ overdue' = overdue \cup ({frame[f].caller} \cap Clients)
           \/ /\ r.fallback /\ r.expired = frame[f].expired /\ overdue' = overdue
              /\ spent' = spent \cup ({frame[f].caller} \cap Clients)
    PROVE  RInv' /\ Service!Next
  <1>1. Sound(frame[f], World) /\ frame[f].child = Nobody
    BY DEF RInv, AllSound, Sound, LooksAtClock
  <1>2. FactsOK'
    BY <1>1 DEF RInv, FactsOK, nodeVars, Sound, World
  <1>3. Grows(World, World')
    BY DEF Grows, World, nodeVars
  <1>4. AllSound(frame, World')
    BY <1>3, SoundGrows DEF RInv, AllSound
  <1>5. Sound(frame[f], World')
    BY <1>4 DEF AllSound
  <1>6. r.caller \in Clients => /\ r.expired => r.caller \in overdue'
                                /\ r.fallback => r.caller \in spent'
    BY <1>1, SMTT(20) DEF Sound, World
  <1>7. Sound(r, World')
    BY <1>1, <1>5, <1>6 DEF Sound, LooksAtClock, Routing, World
  <1>8. /\ r.child # Nobody => r.target = frame[f].target
        /\ r.pc # "free" /\ frame[f].pc \notin {"stream", "done"}
    BY <1>1 DEF LooksAtClock
  <1>9. Evolves(frame, frame') /\ AllSound(frame', World')
    BY <1>4, <1>7, <1>8, UpdateEvolves DEF RInv
  <1> QED BY <1>2, <1>3, <1>9, EstablishStep

\* The head of a stream reaches the caller: the client has its answer.
LEMMA HeadStep ==
    ASSUME RInv, NEW f \in Frames, frame[f].pc \in {"sent", "serve"}, Goto(f, "stream"),
           NEW n \in Nodes, HeadReaches(frame[f].caller, n), UNCHANGED <<nodeVars, factVars>>
    PROVE  RInv' /\ Service!Next
  <1> DEFINE r == [frame[f] EXCEPT !.pc = "stream"]
             c == frame[f].caller
  <1>1. Sound(frame[f], World)
    BY DEF RInv, AllSound
  <1>2. Sound(r, World)
    BY <1>1 DEF Sound, Routing
  <1>3. /\ r.caller = frame[f].caller /\ r.child = frame[f].child /\ r.node = frame[f].node
        /\ r.child # Nobody => r.target = frame[f].target
        /\ r.pc = "stream" /\ r.pc # "free" /\ frame[f].pc \notin {"stream", "done"}
    BY <1>1 DEF Sound
  <1>4. frame' = [frame EXCEPT ![f] = r]
    BY DEF Goto
  <1> HIDE DEF r
  <1>5. Evolves(frame, frame') /\ AllSound(frame', World)
    BY <1>2, <1>3, <1>4, UpdateEvolves DEF RInv
  <1>6. CASE c \notin Clients
    <2>1. UNCHANGED <<client, answer>>
      BY <1>6 DEF HeadReaches
    <2> QED BY <1>5, <2>1, RoutineStep DEF Quiet
  <1>7. CASE c \in Clients
    <2>1. /\ client[c] = "open"
          /\ client' = [client EXCEPT ![c] = "answered"]
          /\ answer' = [answer EXCEPT ![c] = <<"stream", n>>]
      <3>1. client[c] = "open"
        BY <1>3, <1>7 DEF RInv, Awaited
      <3> QED BY <1>7, <3>1 DEF HeadReaches
    <2>2. Service!Reply(c)
      <3>1. Service!Justified(c, "stream", n)
        BY DEF Service!Justified
      <3>2. UNCHANGED <<entry, Service!facts>>
        BY DEF nodeVars, factVars, Service!facts
      <3> QED BY <2>1, <3>1, <3>2 DEF Service!Reply
    <2>3. FactsOK'
      BY <1>7, <2>1 DEF RInv, FactsOK, nodeVars, factVars
    <2>4. Grows(World, World')
      BY <1>7, <2>1 DEF Grows, World, nodeVars, factVars, RInv, FactsOK
    <2>5. AllSound(frame', World')
      BY <1>5, <2>4, SoundGrows DEF AllSound
    <2>6. Tied(frame') /\ Awaited(frame', client)
      BY <1>5, EvolvesKeeps DEF RInv
    <2>7. Awaited(frame', client')
      <3>1. frame'[f].caller = c /\ frame'[f].pc = "stream"
        BY <1>3, <1>4 DEF RInv, AllSound
      <3>2. ASSUME NEW g \in Frames, frame'[g].caller \in Clients,
                   frame'[g].pc \notin {"stream", "done"}
            PROVE  client'[frame'[g].caller] = "open"
        <4>1. g # f
          BY <3>1, <3>2
        <4>2. frame'[g].caller # c
          BY <1>7, <2>6, <3>1, <4>1, SMT DEF Tied
        <4>3. client[frame'[g].caller] = "open"
          BY <2>6, <3>2 DEF Awaited
        <4> QED BY <2>1, <3>2, <4>2, <4>3 DEF RInv, FactsOK
      <3> QED BY <3>2 DEF Awaited
    <2> QED BY <1>7, <2>2, <2>3, <2>5, <2>6, <2>7 DEF RInv, Service!Next
  <1> QED BY <1>6, <1>7

\* A frame of a client gives way to e: nobody waits for it but the client.
LEMMA ClientEvolves ==
    ASSUME RInv, NEW f \in Frames, frame[f].caller \in Clients, NEW e, Sound(e, World),
           e.caller = Nobody, e.child \in {frame[f].child, Nobody},
           e.child # Nobody => e.target = frame[f].target,
           frame' = [frame EXCEPT ![f] = e]
    PROVE  Quiet
  <1>1. DOMAIN frame' = Frames /\ frame'[f] = e /\ \A h \in Frames : h # f => frame'[h] = frame[h]
    BY DEF RInv, AllSound
  <1>2. AllSound(frame', World)
    BY <1>1 DEF RInv, AllSound
  <1>3. \A h \in Frames : frame[h].child # Nobody =>
            LET g == frame[h].child
            IN  g \in Frames /\ g # f /\ frame[g].pc # "free"
    BY ForwardingAssumption, SMT DEF RInv, AllSound, Sound, Tied
  <1>4. Evolves(frame, frame')
    BY <1>1, <1>3, ForwardingAssumption, SMT DEF Evolves
  <1> QED BY <1>2, <1>4 DEF Quiet

\* A step in which only client c changes, and none of its frames is left.
LEMMA ClientStep ==
    ASSUME RInv, Quiet, NEW c \in Clients, \A f \in Frames : frame'[f].caller # c,
           NEW to \in {"left", "answered"}, client' = [client EXCEPT ![c] = to],
           DOMAIN answer' = DOMAIN answer, UNCHANGED <<nodeVars, factVars>>
    PROVE  RInv'
  <1>1. FactsOK'
    BY DEF RInv, FactsOK, nodeVars, factVars
  <1>2. Grows(World, World')
    BY DEF Grows, World, nodeVars, factVars, RInv, FactsOK
  <1>3. AllSound(frame', World')
    BY <1>2, SoundGrows DEF Quiet, AllSound
  <1>4. Tied(frame') /\ Awaited(frame', client)
    BY EvolvesKeeps DEF RInv, Quiet
  <1>5. Awaited(frame', client')
    BY <1>4 DEF Awaited, RInv, FactsOK
  <1> QED BY <1>1, <1>3, <1>4, <1>5 DEF RInv

LEMMA DeliverStep ==
    ASSUME RInv, NEW f \in Frames, Deliver(f)
    PROVE  RInv' /\ Service!Next
  <1> DEFINE c == frame[f].caller
  <1>1. /\ frame[f].pc = "done" /\ c \in Clients
        /\ frame' = [frame EXCEPT ![f] = Idle]
        /\ UNCHANGED <<nodeVars, factVars>>
    BY DEF Deliver
  <1>2. Quiet
    <2>1. Idle.caller = Nobody /\ Idle.child = Nobody
      BY DEF Idle
    <2> QED BY <1>1, <2>1, IdleSound, ClientEvolves
  <1>3. CASE client[c] # "open"
    <2>1. UNCHANGED <<client, answer>>
      BY <1>3 DEF Deliver
    <2> QED BY <1>1, <1>2, <2>1, RoutineStep
  <1>4. CASE client[c] = "open"
    <2>1. /\ client' = [client EXCEPT ![c] = "answered"]
          /\ answer' = [answer EXCEPT ![c] = frame[f].out]
      BY <1>4 DEF Deliver
    <2>2. \A g \in Frames : frame'[g].caller # c
      <3>1. ASSUME NEW g \in Frames, g # f PROVE frame'[g].caller # c
        BY <1>1, <3>1 DEF RInv, Tied, AllSound
      <3>2. frame'[f].caller # c
        BY <1>1, ForwardingAssumption DEF RInv, AllSound, Idle
      <3> QED BY <3>1, <3>2
    <2>3. DOMAIN answer' = DOMAIN answer
      BY <2>1
    <2>4. RInv'
      BY <1>1, <1>2, <2>1, <2>2, <2>3, ClientStep
    <2>5. AnswerOK(frame[f].out, frame[f].node, c, World)
      BY <1>1 DEF RInv, AllSound, Sound
    <2>6. PICK kind \in Kinds, n \in Nodes :
              frame[f].out = <<kind, n>> /\ JustifiedIn(World, c, kind, n)
      BY <1>1, <2>5 DEF AnswerOK
    <2>7. Service!Justified(c, kind, n)
      BY <2>6 DEF JustifiedIn, World, Service!Justified
    <2>8. UNCHANGED <<entry, Service!facts>>
      BY <1>1 DEF nodeVars, factVars, Service!facts
    <2>9. Service!Reply(c)
      BY <1>4, <2>1, <2>6, <2>7, <2>8 DEF Service!Reply, Kinds
    <2> QED BY <1>1, <2>4, <2>9 DEF Service!Next
  <1> QED BY <1>3, <1>4

LEMMA LeaveStep ==
    ASSUME RInv, NEW c \in Clients, Leave(c)
    PROVE  RInv' /\ Service!Next
  <1>1. PICK f \in Frames :
            /\ frame[f].caller = c
            /\ frame[f].pc \in LooksAtClock \cup {"sent", "serve", "stream"}
            /\ frame' = [frame EXCEPT ![f].caller = Nobody]
    BY DEF Leave
  <1> DEFINE e == [frame[f] EXCEPT !.caller = Nobody]
  <1>2. frame' = [frame EXCEPT ![f] = e]
    BY <1>1
  <1>3. Sound(frame[f], World)
    BY DEF RInv, AllSound
  <1>4. Sound(e, World) /\ e.caller = Nobody /\ e.child = frame[f].child /\ e.target = frame[f].target
    <2>1. {"caller", "child", "target"} \subseteq DOMAIN frame[f]
      BY <1>3 DEF Sound
    <2>2. Sound(e, World)
      BY <1>1, <1>3, ForwardingAssumption DEF Sound, LooksAtClock, Routing
    <2> QED BY <2>1, <2>2
  <1> HIDE DEF e
  <1>5. Quiet
    BY <1>1, <1>2, <1>4, ClientEvolves
  <1>6. UNCHANGED <<answer, nodeVars, factVars>>
    BY DEF Leave
  <1>7. CASE client[c] # "open"
    <2>1. client' = client
      BY <1>7 DEF Leave, RInv, FactsOK
    <2> QED BY <1>5, <1>6, <2>1, RoutineStep
  <1>8. CASE client[c] = "open"
    <2>1. client' = [client EXCEPT ![c] = "left"]
      BY <1>8 DEF Leave
    <2>2. \A g \in Frames : frame'[g].caller # c
      <3>1. ASSUME NEW g \in Frames, g # f PROVE frame'[g].caller # c
        BY <1>1, <1>2, <3>1 DEF RInv, Tied, AllSound
      <3>2. frame'[f].caller # c
        BY <1>2, <1>4, ForwardingAssumption DEF RInv, AllSound
      <3> QED BY <3>1, <3>2
    <2>3. DOMAIN answer' = DOMAIN answer
      BY <1>6
    <2>4. RInv'
      BY <1>5, <1>6, <2>1, <2>2, <2>3, ClientStep
    <2>5. UNCHANGED <<answer, entry, Service!facts>>
      BY <1>6 DEF nodeVars, factVars, Service!facts
    <2>6. Service!Leave(c)
      BY <1>8, <2>1, <2>5 DEF Service!Leave
    <2> QED BY <2>4, <2>6 DEF Service!Next
  <1> QED BY <1>7, <1>8

LEMMA FreeFrameIsFree == SomeFree => FreeFrame \in Frames /\ frame[FreeFrame].pc = "free"
  BY DEF SomeFree, FreeFrame, Live

LEMMA OpenedSound ==
    ASSUME NEW w, NEW caller, NEW n \in Nodes, NEW hops, NEW stream,
           caller \in Clients => w.client[caller] # "new" /\ w.entry[caller] = n
    PROVE  Sound(Opened(caller, n, hops, stream), w)
  BY ForwardingAssumption, SMT DEF Opened, Idle, Sound, Routing

LEMMA SubmitStep ==
    ASSUME RInv, NEW c \in Clients, NEW n \in Entries, NEW stream, Submit(c, n, stream)
    PROVE  RInv' /\ Service!Next
  <1> DEFINE g == FreeFrame
             o == Opened(c, n, 0, stream)
  <1>1. /\ client[c] = "new" /\ SomeFree
        /\ client' = [client EXCEPT ![c] = "open"]
        /\ entry' = [entry EXCEPT ![c] = n]
        /\ frame' = [frame EXCEPT ![g] = o]
        /\ UNCHANGED <<answer, nodeVars, lacked, overdue, spent>>
    BY DEF Submit
  <1>2. g \in Frames /\ frame[g].pc = "free" /\ n \in Nodes
    BY <1>1, FreeFrameIsFree, ForwardingAssumption
  <1>3. client'[c] = "open" /\ entry'[c] = n
    BY <1>1 DEF RInv, FactsOK
  <1>4. Sound(o, World') /\ o.caller = c /\ o.child = Nobody /\ o.pc = "arrive" /\ o.node = n
    <2>1. World'.client[c] # "new" /\ World'.entry[c] = n
      BY <1>3 DEF World
    <2>2. Sound(o, World')
      BY <1>2, <2>1, OpenedSound
    <2>3. o.caller = c /\ o.child = Nobody /\ o.pc = "arrive" /\ o.node = n
      BY DEF Opened, Idle
    <2> QED BY <2>2, <2>3
  <1> HIDE DEF o, g
  <1>5. Grows(World, World')
    BY <1>1 DEF Grows, World, nodeVars, RInv, FactsOK
  <1>6. DOMAIN frame' = Frames /\ frame'[g] = o /\ (\A h \in Frames : h # g => frame'[h] = frame[h])
    BY <1>1, <1>2 DEF RInv, AllSound
  <1>7. AllSound(frame', World')
    <2>1. \A h \in Frames : Sound(frame[h], World')
      BY <1>5, SoundGrows DEF RInv, AllSound
    <2> QED BY <1>4, <1>6, <2>1 DEF AllSound
  <1>8. \A h \in Frames : frame[h].caller # c
    BY <1>1 DEF RInv, AllSound, Sound, World
  <1>9. Tied(frame')
    <2>1. ASSUME NEW h \in Frames, frame'[h].child # Nobody
          PROVE  LET k == frame'[h].child
                 IN  k # h /\ frame'[k].caller = h /\ frame'[k].pc # "free"
                     /\ frame'[k].node = frame'[h].target
      <3>1. h # g /\ frame'[h] = frame[h]
        BY <1>4, <1>6, <2>1
      <3>2. LET k == frame[h].child
            IN  /\ k \in Frames /\ k # h /\ frame[k].caller = h /\ frame[k].pc # "free"
                /\ frame[k].node = frame[h].target
        BY <2>1, <3>1 DEF RInv, AllSound, Sound, Tied
      <3>3. frame[h].child # g
        BY <1>2, <3>2
      <3> QED BY <1>6, <3>1, <3>2, <3>3
    <2>2. ASSUME NEW h \in Frames, NEW k \in Frames, frame'[h].caller \in Clients,
                 frame'[h].caller = frame'[k].caller
          PROVE  h = k
      BY <1>4, <1>6, <1>8, <2>2, SMT DEF RInv, Tied
    <2> QED BY <2>1, <2>2 DEF Tied
  <1>10. Awaited(frame', client')
    BY <1>1, <1>3, <1>4, <1>6, <1>8 DEF Awaited, RInv, FactsOK
  <1>11. FactsOK'
    BY <1>1 DEF RInv, FactsOK, nodeVars
  <1>12. Service!Submit(c)
    <2>1. UNCHANGED <<answer, Service!facts>>
      BY <1>1 DEF nodeVars, Service!facts
    <2> QED BY <1>1, <1>2, <2>1 DEF Service!Submit
  <1> QED BY <1>7, <1>9, <1>10, <1>11, <1>12 DEF RInv, Service!Next

\* The request opens a frame on the peer, tied to the call.
LEMMA DispatchStep ==
    ASSUME RInv, NEW f \in Frames, Dispatch(f)
    PROVE  RInv' /\ Service!Next
  <1> DEFINE m == frame[f].target
             sent == [frame[f] EXCEPT !.pc = "sent", !.ticket = circuit[frame[f].node][m] = "due"]
             g == FreeFrame
             o == Opened(f, m, frame[f].hops + 1, frame[f].stream)
             s == [sent EXCEPT !.child = g]
  <1>1. frame[f].pc = "dispatch" /\ UNCHANGED <<client, answer, nodeVars, factVars>>
    BY ZenonT(30) DEF Dispatch
  <1>2. /\ Sound(frame[f], World) /\ m \in Nodes /\ frame[f].child = Nobody
        /\ ~frame[f].knows => frame[f].node \in lacked
    BY <1>1 DEF RInv, AllSound, Sound, Routing, World
  <1>3. CASE frame' = [frame EXCEPT ![f] = sent]
    <2>1. Moves(f, sent)
      BY <1>1, <1>2 DEF Moves, Sound, Routing
    <2>2. Quiet
      BY <1>3, <2>1, MoveQuiet
    <2> QED BY <1>1, <2>2, RoutineStep
  <1>4. CASE SomeFree /\ frame' = [frame EXCEPT ![f] = s, ![g] = o]
    <2>1. g \in Frames /\ frame[g].pc = "free" /\ g # f
      BY <1>1, <1>4, FreeFrameIsFree
    <2>2. Sound(o, World) /\ o.caller = f /\ o.child = Nobody /\ o.pc = "arrive" /\ o.node = m
      <3>1. f \notin Clients
        BY ForwardingAssumption
      <3>2. Sound(o, World)
        BY <1>2, <3>1, OpenedSound
      <3>3. o.caller = f /\ o.child = Nobody /\ o.pc = "arrive" /\ o.node = m
        BY DEF Opened, Idle
      <3> QED BY <3>2, <3>3
    <2>3. /\ Sound(s, World) /\ s.caller = frame[f].caller /\ s.child = g /\ s.pc = "sent"
          /\ s.node = frame[f].node /\ s.target = m
      BY <1>1, <1>2, <2>1 DEF Sound, Routing
    <2> HIDE DEF o, s, g, sent
    <2>4. /\ DOMAIN frame' = Frames /\ frame'[f] = s /\ frame'[g] = o
          /\ \A h \in Frames : h # f /\ h # g => frame'[h] = frame[h]
      BY <1>4, <2>1 DEF RInv, AllSound
    <2>5. AllSound(frame', World')
      <3>1. AllSound(frame', World)
        BY <2>2, <2>3, <2>4 DEF RInv, AllSound
      <3>2. World' = World
        BY <1>1 DEF World, nodeVars, factVars
      <3> QED BY <3>1, <3>2
    <2>6. Tied(frame')
      <3>1. ASSUME NEW h \in Frames, frame'[h].child # Nobody
            PROVE  LET k == frame'[h].child
                   IN  k # h /\ frame'[k].caller = h /\ frame'[k].pc # "free"
                       /\ frame'[k].node = frame'[h].target
        <4>1. CASE h = f
          BY <2>1, <2>2, <2>3, <2>4, <4>1
        <4>2. CASE h # f
          <5>1. h # g /\ frame'[h] = frame[h]
            BY <2>2, <2>4, <3>1, <4>2
          <5>2. LET k == frame[h].child
                IN  /\ k \in Frames /\ k # h /\ frame[k].caller = h /\ frame[k].pc # "free"
                    /\ frame[k].node = frame[h].target
            BY <3>1, <5>1 DEF RInv, AllSound, Sound, Tied
          <5>3. frame[h].child # g
            BY <2>1, <5>2
          <5> QED BY <2>3, <2>4, <5>1, <5>2, <5>3
        <4> QED BY <4>1, <4>2
      <3>2. ASSUME NEW h \in Frames, NEW k \in Frames, frame'[h].caller \in Clients,
                   frame'[h].caller = frame'[k].caller
            PROVE  h = k
        <4>1. h # g /\ k # g
          BY <2>2, <2>4, <3>2, ForwardingAssumption
        <4>2. frame'[h].caller = frame[h].caller /\ frame'[k].caller = frame[k].caller
          BY <2>3, <2>4, <4>1
        <4>3. \A a, b \in Frames : frame[a].caller \in Clients /\ frame[a].caller = frame[b].caller => a = b
          BY DEF RInv, Tied
        <4>4. frame[h].caller \in Clients /\ frame[h].caller = frame[k].caller
          BY <3>2, <4>2, ZenonT(30)
        <4> QED BY <4>3, <4>4
      <3> QED BY <3>1, <3>2 DEF Tied
    <2>7. Awaited(frame', client')
      <3>1. ASSUME NEW h \in Frames, frame'[h].caller \in Clients,
                   frame'[h].pc \notin {"stream", "done"}
            PROVE  client'[frame'[h].caller] = "open"
        <4>1. h # g
          BY <2>2, <2>4, <3>1, ForwardingAssumption
        <4>2. frame'[h].caller = frame[h].caller /\ frame[h].pc \notin {"stream", "done"}
          BY <1>1, <2>3, <2>4, <3>1, <4>1
        <4> QED BY <1>1, <3>1, <4>2 DEF RInv, Awaited
      <3> QED BY <3>1 DEF Awaited
    <2>8. FactsOK' /\ Service!Establish
      BY <1>1 DEF RInv, FactsOK, nodeVars, factVars, Service!Establish
    <2> QED BY <2>5, <2>6, <2>7, <2>8 DEF RInv, Service!Next
  <1> QED BY <1>3, <1>4 DEF Dispatch

----------------------------------------------------------------------------
LEMMA RInvInit == Init => RInv /\ Service!Init
  <1> SUFFICES ASSUME Init PROVE RInv /\ Service!Init
      OBVIOUS
  <1>1. FactsOK
    BY DEF Init, FactsOK
  <1>2. AllSound(frame, World)
    BY IdleSound DEF Init, AllSound
  <1>3. Tied(frame) /\ Awaited(frame, client)
    BY ForwardingAssumption DEF Init, Tied, Awaited, Idle
  <1>4. Service!Init
    BY DEF Init, Service!Init, NoAnswer, Service!NoAnswer
  <1> QED BY <1>1, <1>2, <1>3, <1>4 DEF RInv

\* Everything that only notifies the waiters of a node is quiet, and so is nothing.
LEMMA NotifyQuiet ==
    ASSUME RInv, frame' = frame \/ \E n \in Nodes : frame' = Notified(frame, n)
    PROVE  Quiet
  <1>1. \A h \in Frames : frame[h].child # Nobody =>
            frame[h].child \in Frames /\ frame[frame[h].child].pc # "free"
    BY SMTT(20) DEF RInv, AllSound, Sound, Tied
  <1>2. Evolves(frame, frame) /\ AllSound(frame, World)
    BY <1>1 DEF Evolves, RInv, AllSound
  <1>3. ASSUME NEW n PROVE Evolves(frame, Notified(frame, n)) /\ AllSound(Notified(frame, n), World)
    BY <1>2, NotifiedEvolves
  <1> QED BY <1>2, <1>3 DEF Quiet

LEMMA StepImplements ==
    ASSUME RInv, NEW f \in Frames, Step(f)
    PROVE  RInv' /\ Service!Next
  <1>1. CASE Arrive(f) \/ Reject(f) \/ ResolveUnknown(f) \/ ResolveKnown(f)
    <2>1. UNCHANGED <<client, answer, nodeVars, factVars>>
      BY <1>1 DEF Arrive, Reject, ResolveUnknown, ResolveKnown, Counted
    <2> QED BY <1>1, <2>1, ArrivalQuiet, RoutineStep
  <1>2. CASE BeforeChoice(f) \/ Choose(f) \/ NoPeer(f) \/ NoNodeFree(f) \/ Track(f)
    <2>1. UNCHANGED <<client, answer, nodeVars, factVars>>
      BY <1>2 DEF BeforeChoice, Choose, NoPeer, NoNodeFree, Track
    <2> QED BY <1>2, <2>1, ChoiceQuiet, RoutineStep
  <1>3. CASE Rearm(f) \/ Wake(f) \/ WaitExpires(f) \/ WaitGone(f) \/ FallbackFails(f)
    <2>1. UNCHANGED <<client, answer, nodeVars, factVars>>
      BY <1>3 DEF Rearm, Wake, WaitExpires, WaitGone, FallbackFails
    <2> QED BY <1>3, <2>1, WaitQuiet, RoutineStep
  <1>4. CASE \/ ProbeDenied(f) \/ DropForward(f) \/ PeerDrains(f) \/ Heal(f) \/ Surface(f)
             \/ \E kind \in {"request", "body"} : Transport(f, kind)
    <2>1. UNCHANGED <<client, answer, nodeVars, factVars>>
      BY <1>4 DEF ProbeDenied, DropForward, PeerDrains, Heal, Surface, Transport
    <2> QED BY <1>4, <2>1, ForwardQuiet, RoutineStep
  <1>5. CASE \/ Acquire(f) \/ AcquireFails(f) \/ ServeFails(f) \/ DropLocal(f) \/ StreamEnds(f)
             \/ ServeOk(f) /\ ~frame[f].stream
    <2>1. UNCHANGED <<client, answer, nodeVars, factVars>>
      BY <1>5 DEF Acquire, AcquireFails, ServeFails, DropLocal, StreamEnds, ServeOk
    <2>2. ServeOk(f) /\ ~frame[f].stream => frame[f].pc = "serve" /\ AnswerLocal(f, "ok", 0)
      BY DEF ServeOk
    <2> QED BY <1>5, <2>1, <2>2, LocalQuiet, RoutineStep
  <1>6. Sound(frame[f], World)
    BY DEF RInv, AllSound
  <1>7. CASE ServeOk(f) /\ frame[f].stream
    <2>1. /\ frame[f].pc = "serve" /\ Goto(f, "stream") /\ HeadReaches(frame[f].caller, frame[f].node)
          /\ UNCHANGED <<nodeVars, factVars>>
      BY <1>7 DEF ServeOk
    <2>2. frame[f].node \in Nodes /\ frame[f].pc \in {"sent", "serve"}
      BY <1>6, <2>1 DEF Sound
    <2> QED BY <2>1, <2>2, HeadStep
  <1>8. CASE StreamHead(f)
    <2>1. /\ frame[f].pc = "sent" /\ Goto(f, "stream") /\ HeadReaches(frame[f].caller, frame[f].target)
          /\ UNCHANGED <<nodeVars, factVars>>
      BY <1>8 DEF StreamHead
    <2>2. frame[f].target \in Nodes /\ frame[f].pc \in {"sent", "serve"}
      BY <1>6, <2>1 DEF Sound
    <2> QED BY <2>1, <2>2, HeadStep
  <1>9. CASE AcquireExhausted(f)
    <2> DEFINE r == [frame[f] EXCEPT !.pc = "preflight", !.fallback = TRUE]
    <2>1. /\ frame[f].pc = "acquire" /\ frame' = [frame EXCEPT ![f] = r]
          /\ UNCHANGED <<client, answer, nodeVars, entry, lacked>> /\ overdue' = overdue
          /\ spent' = spent \cup ({frame[f].caller} \cap Clients)
      BY <1>9 DEF AcquireExhausted
    <2>2. /\ frame[f].pc \in LooksAtClock /\ r.pc \in LooksAtClock /\ DOMAIN r = DOMAIN frame[f]
          /\ r.caller = frame[f].caller /\ r.child = frame[f].child /\ r.node = frame[f].node
          /\ r.knows = frame[f].knows /\ r.pc # "track"
          /\ r.fallback /\ r.expired = frame[f].expired
      BY <1>6, <2>1 DEF Sound, LooksAtClock
    <2> HIDE DEF r
    <2> QED BY <2>1, <2>2, FactStep
  <1> QED
    BY <1>1, <1>2, <1>3, <1>4, <1>5, <1>7, <1>8, <1>9, DispatchStep, DeliverStep
       DEF Step, Route, Receive, Local

LEMMA ExpireImplements ==
    ASSUME RInv, NEW f \in Frames, Expire(f)
    PROVE  RInv' /\ Service!Next
  <1> DEFINE r == [frame[f] EXCEPT !.expired = TRUE]
  <1>1. /\ frame[f].pc \in LooksAtClock /\ frame' = [frame EXCEPT ![f] = r]
        /\ UNCHANGED <<client, answer, nodeVars, entry, lacked>> /\ spent' = spent
        /\ overdue' = overdue \cup ({frame[f].caller} \cap Clients)
    BY DEF Expire
  <1>2. /\ r.pc = frame[f].pc /\ r.target = frame[f].target /\ DOMAIN r = DOMAIN frame[f]
        /\ r.caller = frame[f].caller /\ r.child = frame[f].child /\ r.node = frame[f].node
        /\ r.knows = frame[f].knows
        /\ r.expired /\ r.fallback = frame[f].fallback
    BY DEF RInv, AllSound, Sound
  <1> HIDE DEF r
  <1> QED BY <1>1, <1>2, FactStep

LEMMA EnvironmentImplements ==
    ASSUME RInv, Environment
    PROVE  RInv' /\ Service!Next
  <1>1. ASSUME NEW n \in Nodes, NEW m \in Nodes,
               Gossip(n, m) \/ GossipSent(n, m) \/ Stale(n, m) \/ Elapse(n, m)
        PROVE  RInv' /\ Service!Next
    <2>1. Quiet
      BY <1>1, NotifyQuiet DEF Gossip, GossipSent, Stale, Elapse
    <2>2. UNCHANGED <<client, answer, entry, lacked, overdue, spent, draining, cookbook>>
      BY <1>1 DEF Gossip, GossipSent, Stale, Elapse, factVars
    <2> QED BY <2>1, <2>2, QuietStep DEF RInv, FactsOK
  <1>2. ASSUME NEW n \in Nodes, Drain(n) \/ Reload(n) \/ Built(n)
        PROVE  RInv' /\ Service!Next
    <2>1. Quiet
      BY <1>2, NotifyQuiet DEF Drain, Reload, Built
    <2>2. /\ UNCHANGED <<client, answer, entry, overdue, spent>>
          /\ draining \subseteq draining' /\ draining' \subseteq Nodes
          /\ lacked \subseteq lacked' /\ lacked' \subseteq Nodes /\ Nodes \ cookbook' \subseteq lacked'
      <3>1. CASE Drain(n)
        BY <3>1 DEF Drain, factVars, RInv, FactsOK
      <3>2. CASE Reload(n)
        BY <3>2 DEF Reload, factVars, RInv, FactsOK
      <3>3. CASE Built(n)
        BY <3>3 DEF Built, factVars, RInv, FactsOK
      <3> QED BY <1>2, <3>1, <3>2, <3>3
    <2> QED BY <2>1, <2>2, QuietStep
  <1> QED BY <1>1, <1>2, SubmitStep, LeaveStep, ZenonT(30) DEF Environment

LEMMA NextImplements == RInv /\ [Next]_vars => RInv' /\ [Service!Next]_(Service!vars)
  <1>1. RInv /\ Next => RInv' /\ Service!Next
    BY StepImplements, ExpireImplements, EnvironmentImplements DEF Next
  <1>2. RInv /\ UNCHANGED vars => RInv' /\ UNCHANGED Service!vars
    BY DEF vars, nodeVars, factVars, RInv, FactsOK, World, Service!vars, Service!facts
  <1> QED BY <1>1, <1>2

\* Whatever the mesh, route_request implements ProxyService: a client is answered at
\* most once, and only with an answer that the state of its own node, or of the node
\* that made the answer, justifies.
THEOREM RoutingImplementsService == Spec => AnswersAreJustified
  BY RInvInit, NextImplements, PTL DEF Spec, AnswersAreJustified, Service!Spec

----------------------------------------------------------------------------
(* Requests, forwards and errors are counted.                              *)

\* Counted in current_requests, and in peer_pending_forwards of its target.
Works(r) == r.pc \notin {"free", "arrive", "body", "done"}
Holds(r) == r.pc \in {"dispatch", "sent", "stream"}

Working(fr, n) == {f \in Frames : fr[f].node = n /\ Works(fr[f])}
Holding(fr, n, m) == {f \in Frames : fr[f].node = n /\ fr[f].target = m /\ Holds(fr[f])}

CurrentCounts(fr, cur) ==
    /\ cur \in [Nodes -> Nat]
    /\ \A n \in Nodes : cur[n] = Cardinality(Working(fr, n))

PendingCounts(fr, pen) ==
    /\ pen \in [Nodes -> [Nodes -> Nat]]
    /\ \A n, m \in Nodes : pen[n][m] = Cardinality(Holding(fr, n, m))

\* The errors counted for an answer of this kind.
Tallied(kind, relayed, errors) ==
    /\ errors <= IF kind = "ok" THEN 0 ELSE 1
    /\ kind \in Healable \/ (kind \in {"notfound", "upstream"} /\ ~relayed) => errors = 1

\* What holds of each frame on its own.  A frame has counted no error before it ends,
\* and one that serves the request itself has no target.
Proper(r) ==
    /\ r \in FrameType
    /\ r.pc # "free" => r.node \in Nodes
    /\ Works(r) => r.hops <= MaxHops
    /\ r.pc \in {"track", "dispatch", "sent"} => r.target \in Nodes
    /\ r.pc \in {"acquire", "serve"} \/ (r.pc = "stream" /\ r.child = Nobody) => r.target = NoNode
    /\ IF r.pc = "done" THEN Tallied(r.out[1], r.relayed, r.errors) ELSE r.errors = 0

AllProper(fr) == DOMAIN fr = Frames /\ \A f \in Frames : Proper(fr[f])

\* The frame is counted in pending.
Sends(r) == Holds(r) /\ r.target # NoNode

\* The frames and the counts; the other variables.
Accounted == AllProper(frame) /\ CurrentCounts(frame, current) /\ PendingCounts(frame, pending)

Circuits == {"closed", "open", "due", "probing"}

CircuitType == [Nodes -> [Nodes -> Circuits]]

ClientType == [Clients -> {"new", "open", "left", "answered"}]

Others ==
    /\ client \in ClientType
    /\ circuit \in CircuitType
    /\ events \in 0..MaxEvents

AInv == Accounted /\ Others

----------------------------------------------------------------------------
(* Frames that begin, end or go on.                                        *)

PcType == {"free", "arrive", "body", "preflight", "choose", "none", "track", "dispatch",
           "sent", "rearm", "wait", "acquire", "serve", "stream", "done"}

\* A frame stays one when a field gets another value of its type.
LEMMA FieldTypes ==
    ASSUME NEW r \in FrameType
    PROVE  /\ \A x \in PcType : [r EXCEPT !.pc = x] \in FrameType
           /\ \A x \in Nodes \cup {NoNode} : /\ [r EXCEPT !.node = x] \in FrameType
                                             /\ [r EXCEPT !.target = x] \in FrameType
                                             /\ [r EXCEPT !.exclude = x] \in FrameType
                                             /\ [r EXCEPT !.denied = x] \in FrameType
           /\ \A x \in BOOLEAN : /\ [r EXCEPT !.stream = x] \in FrameType
                                 /\ [r EXCEPT !.expired = x] \in FrameType
                                 /\ [r EXCEPT !.knows = x] \in FrameType
                                 /\ [r EXCEPT !.fallback = x] \in FrameType
                                 /\ [r EXCEPT !.found = x] \in FrameType
           /\ \A x \in BOOLEAN : /\ [r EXCEPT !.ticket = x] \in FrameType
                                 /\ [r EXCEPT !.bounded = x] \in FrameType
                                 /\ [r EXCEPT !.skip = x] \in FrameType
                                 /\ [r EXCEPT !.relayed = x] \in FrameType
           /\ \A x \in SUBSET Nodes : [r EXCEPT !.drained = x] \in FrameType
           /\ \A x \in Clients \cup Frames \cup {Nobody} : [r EXCEPT !.caller = x] \in FrameType
           /\ \A x \in Frames \cup {Nobody} : [r EXCEPT !.child = x] \in FrameType
           /\ \A x \in {"no", "armed", "fired"} : [r EXCEPT !.armed = x] \in FrameType
           /\ \A x \in 0..MaxHops + 1 : [r EXCEPT !.hops = x] \in FrameType
           /\ \A x \in 0..2 : [r EXCEPT !.errors = x] \in FrameType
           /\ \A x \in (Kinds \cup {"none"}) \X (Nodes \cup {NoNode}) :
                 [r EXCEPT !.out = x] \in FrameType
  <1>1. \A x \in PcType : [r EXCEPT !.pc = x] \in FrameType
    BY SMT DEF FrameType, PcType
  <1>2. \A x \in Nodes \cup {NoNode} : /\ [r EXCEPT !.node = x] \in FrameType
                                       /\ [r EXCEPT !.target = x] \in FrameType
                                       /\ [r EXCEPT !.exclude = x] \in FrameType
                                       /\ [r EXCEPT !.denied = x] \in FrameType
    BY SMT DEF FrameType
  <1>3. \A x \in BOOLEAN : /\ [r EXCEPT !.stream = x] \in FrameType
                           /\ [r EXCEPT !.expired = x] \in FrameType
                           /\ [r EXCEPT !.knows = x] \in FrameType
                           /\ [r EXCEPT !.fallback = x] \in FrameType
                           /\ [r EXCEPT !.found = x] \in FrameType
    BY SMT DEF FrameType
  <1>4. \A x \in BOOLEAN : /\ [r EXCEPT !.ticket = x] \in FrameType
                           /\ [r EXCEPT !.bounded = x] \in FrameType
                           /\ [r EXCEPT !.skip = x] \in FrameType
                           /\ [r EXCEPT !.relayed = x] \in FrameType
    BY SMT DEF FrameType
  <1>5. /\ \A x \in SUBSET Nodes : [r EXCEPT !.drained = x] \in FrameType
        /\ \A x \in Clients \cup Frames \cup {Nobody} : [r EXCEPT !.caller = x] \in FrameType
        /\ \A x \in Frames \cup {Nobody} : [r EXCEPT !.child = x] \in FrameType
        /\ \A x \in {"no", "armed", "fired"} : [r EXCEPT !.armed = x] \in FrameType
    BY SMT DEF FrameType
  <1>6. /\ \A x \in 0..MaxHops + 1 : [r EXCEPT !.hops = x] \in FrameType
        /\ \A x \in 0..2 : [r EXCEPT !.errors = x] \in FrameType
        /\ \A x \in (Kinds \cup {"none"}) \X (Nodes \cup {NoNode}) :
              [r EXCEPT !.out = x] \in FrameType
    BY SMT DEF FrameType
  <1> QED BY <1>1, <1>2, <1>3, <1>4, <1>5, <1>6

LEMMA IdleProper == Proper(Idle)
  <1>1. NoAnswer \in (Kinds \cup {"none"}) \X (Nodes \cup {NoNode})
    BY DEF NoAnswer
  <1>2. 0 \in 0 .. MaxHops + 1
    BY ForwardingAssumption, SMT
  <1>3. Idle \in FrameType
    BY <1>1, <1>2, SMT DEF Idle, FrameType
  <1> QED BY <1>3 DEF Proper, Idle, Works

LEMMA OpenedProper ==
    ASSUME NEW c \in Clients \cup Frames, NEW n \in Nodes, NEW h \in 0..MaxHops + 1,
           NEW stream \in BOOLEAN
    PROVE  Proper(Opened(c, n, h, stream))
  <1> DEFINE r == Opened(c, n, h, stream)
  <1>1. r \in FrameType
    BY IdleProper, FieldTypes DEF Proper, Opened, PcType
  <1>2. r.pc = "arrive" /\ r.node = n /\ r.errors = 0
    BY DEF Opened, Idle
  <1> HIDE DEF r
  <1>3. Proper(r)
    BY <1>1, <1>2 DEF Proper, Works
  <1> QED BY <1>3 DEF r

\* Not distinguished by the counts.
Steady(r, q) ==
    /\ Works(q) <=> Works(r)
    /\ Holds(q) <=> Holds(r)
    /\ Works(r) => q.node = r.node
    /\ Holds(r) => q.target = r.target

KeptBut(fr, F) == AllProper(fr) /\ \A g \in Frames \ F : Steady(frame[g], fr[g])

\* What a step does to the counts.  The requests and forwards of the other frames
\* stay as they are; that of f begins, ends or goes on.
Recounts(f) ==
    /\ KeptBut(frame', {f})
    /\ \/ /\ current' = current /\ (Works(frame'[f]) <=> Works(frame[f]))
          /\ Works(frame[f]) => frame'[f].node = frame[f].node
       \/ /\ current' = [current EXCEPT ![frame[f].node] = @ + 1]
          /\ ~Works(frame[f]) /\ Works(frame'[f]) /\ frame'[f].node = frame[f].node
       \/ current' = DecCurrent(frame[f].node) /\ Works(frame[f]) /\ ~Works(frame'[f])
    /\ \/ /\ pending' = pending /\ (Sends(frame'[f]) <=> Sends(frame[f]))
          /\ Sends(frame[f]) => /\ frame'[f].node = frame[f].node
                                /\ frame'[f].target = frame[f].target
       \/ /\ pending' = [pending EXCEPT ![frame[f].node][frame[f].target] = @ + 1]
          /\ ~Holds(frame[f]) /\ Holds(frame'[f]) /\ frame'[f].node = frame[f].node
          /\ frame'[f].target = frame[f].target
       \/ pending' = PendingAfter(f) /\ ~Sends(frame'[f])

Recounted ==
    \/ /\ AllProper(frame') /\ \A h \in Frames : Steady(frame[h], frame'[h])
       /\ UNCHANGED <<current, pending>>
    \/ \E f \in Frames : Recounts(f)

LEMMA AbandonedProper ==
    ASSUME NEW fr, NEW g, AllProper(fr)
    PROVE  /\ AllProper(Abandoned(fr, g))
           /\ \A h \in Frames : Steady(fr[h], Abandoned(fr, g)[h])
  <1> DEFINE q(h) == [fr[h] EXCEPT !.caller = Nobody]
  <1>1. ASSUME NEW h \in Frames PROVE Proper(q(h)) /\ Steady(fr[h], q(h))
    <2>1. fr[h] \in FrameType
      BY DEF AllProper, Proper
    <2>2. q(h) \in FrameType
      BY <2>1, FieldTypes
    <2>3. /\ q(h).pc = fr[h].pc /\ q(h).node = fr[h].node /\ q(h).target = fr[h].target
          /\ q(h).hops = fr[h].hops /\ q(h).child = fr[h].child /\ q(h).errors = fr[h].errors
          /\ q(h).out = fr[h].out /\ q(h).relayed = fr[h].relayed
      BY <2>1 DEF FrameType
    <2> HIDE DEF q
    <2> QED BY <2>2, <2>3 DEF AllProper, Proper, Steady, Works, Holds
  <1>2. ASSUME NEW h \in Frames, fr[h].pc = "done" PROVE Steady(fr[h], Idle)
    BY <1>2 DEF Steady, Works, Holds, Idle
  <1>3. \A h \in Frames : Steady(fr[h], fr[h])
    BY DEF Steady
  <1> HIDE DEF q
  <1>4. \A h \in Frames :
          Abandoned(fr, g)[h] \in {fr[h], q(h)} \/ (fr[h].pc = "done" /\ Abandoned(fr, g)[h] = Idle)
    BY DEF Abandoned, AllProper, q
  <1>5. DOMAIN Abandoned(fr, g) = Frames
    BY DEF Abandoned, AllProper
  <1> QED BY <1>1, <1>2, <1>3, <1>4, <1>5, IdleProper DEF AllProper

LEMMA NotifiedProper ==
    ASSUME NEW fr, NEW n, AllProper(fr)
    PROVE  /\ AllProper(Notified(fr, n))
           /\ \A h \in Frames : Steady(fr[h], Notified(fr, n)[h])
  <1> DEFINE q(h) == [fr[h] EXCEPT !.armed = "fired"]
  <1>1. ASSUME NEW h \in Frames PROVE Proper(q(h)) /\ Steady(fr[h], q(h))
    <2>1. fr[h] \in FrameType
      BY DEF AllProper, Proper
    <2>2. q(h) \in FrameType
      BY <2>1, FieldTypes
    <2>3. /\ q(h).pc = fr[h].pc /\ q(h).node = fr[h].node /\ q(h).target = fr[h].target
          /\ q(h).hops = fr[h].hops /\ q(h).child = fr[h].child /\ q(h).errors = fr[h].errors
          /\ q(h).out = fr[h].out /\ q(h).relayed = fr[h].relayed
      BY <2>1 DEF FrameType
    <2> HIDE DEF q
    <2> QED BY <2>2, <2>3 DEF AllProper, Proper, Steady, Works, Holds
  <1>2. \A h \in Frames : Steady(fr[h], fr[h])
    BY DEF Steady
  <1> HIDE DEF q
  <1>3. \A h \in Frames : Notified(fr, n)[h] \in {fr[h], q(h)}
    BY DEF Notified, q
  <1> QED BY <1>1, <1>2, <1>3 DEF AllProper, Notified

----------------------------------------------------------------------------
(* Steps that end a request, or leave it counted as it was.                *)

LEMMA Updated ==
    ASSUME NEW S, NEW T, NEW g \in [S -> T], NEW x, NEW y, x \in S => y \in T
    PROVE  [g EXCEPT ![x] = y] \in [S -> T]
  OBVIOUS

LEMMA UpdatedTwice ==
    ASSUME NEW S, NEW T, NEW U, NEW g \in [S -> [T -> U]], NEW x, NEW y, NEW z,
           x \in S /\ y \in T => z \in U
    PROVE  [g EXCEPT ![x][y] = z] \in [S -> [T -> U]]
  <1> DEFINE h == [g[x] EXCEPT ![y] = z]
  <1>1. x \in S => g[x] \in [T -> U]
    OBVIOUS
  <1>2. x \in S => h \in [T -> U]
    BY <1>1, Updated
  <1> HIDE DEF h
  <1>3. [g EXCEPT ![x] = h] \in [S -> [T -> U]]
    BY <1>2
  <1> QED BY <1>3 DEF h

LEMMA SteadyTwice ==
    ASSUME NEW r, NEW q, NEW s, Steady(r, q), Steady(q, s)
    PROVE  Steady(r, s)
  BY DEF Steady, Works, Holds

LEMMA EndedKept ==
    ASSUME AllProper(frame), NEW f \in Frames, frame[f].pc \notin {"free", "done"},
           NEW out, NEW relayed \in BOOLEAN, NEW counted \in 0..1,
           ~Gone(f) => /\ out \in (Kinds \cup {"none"}) \X (Nodes \cup {NoNode})
                       /\ Tallied(out[1], relayed, counted)
    PROVE  LET fr == Ended(f, out, relayed, counted) IN KeptBut(fr, {f}) /\ ~Works(fr[f])
  <1> DEFINE r == frame[f]
             d == [Idle EXCEPT !.pc = "done", !.out = out, !.relayed = relayed, !.node = r.node,
                               !.caller = r.caller, !.errors = r.errors + counted]
             e == IF Gone(f) THEN Idle ELSE d
             fr == [frame EXCEPT ![f] = e]
  <1>1. r \in FrameType /\ r.node \in Nodes /\ r.errors = 0
    BY DEF AllProper, Proper
  <1>2. r.caller \in Clients \cup Frames \cup {Nobody}
    BY <1>1 DEF FrameType
  <1>3. Proper(e) /\ ~Works(e)
    <2>1. CASE Gone(f)
      BY <2>1, IdleProper DEF Idle, Works
    <2>2. CASE ~Gone(f)
      <3>1. r.errors + counted = counted /\ counted \in 0..2
        BY <1>1, SMT
      <3>2. out \in (Kinds \cup {"none"}) \X (Nodes \cup {NoNode})
        BY <2>2
      <3>3. d \in FrameType
        BY <1>1, <1>2, <3>1, <3>2, IdleProper, FieldTypes DEF Proper, PcType
      <3>4. /\ d.pc = "done" /\ d.node = r.node /\ d.out = out /\ d.relayed = relayed
            /\ d.errors = counted
        BY <3>1 DEF Idle
      <3> HIDE DEF d
      <3>5. Proper(d) /\ ~Works(d)
        BY <1>1, <2>2, <3>3, <3>4 DEF Proper, Works
      <3> QED BY <2>2, <3>5
    <2> QED BY <2>1, <2>2
  <1> HIDE DEF e
  <1>4. AllProper(fr) /\ fr[f] = e /\ \A g \in Frames \ {f} : fr[g] = frame[g]
    BY <1>3 DEF AllProper
  <1>5. Ended(f, out, relayed, counted) = Abandoned(fr, r.child)
    BY DEF Ended, e
  <1> HIDE DEF fr
  <1>6. /\ AllProper(Abandoned(fr, r.child))
        /\ \A h \in Frames : Steady(fr[h], Abandoned(fr, r.child)[h])
    BY <1>4, AbandonedProper
  <1>7. ~Works(Abandoned(fr, r.child)[f])
    BY <1>3, <1>4, <1>6 DEF Steady
  <1> QED BY <1>4, <1>5, <1>6, <1>7 DEF KeptBut

LEMMA NotifiedKept ==
    ASSUME NEW fr, NEW f \in Frames, NEW n, KeptBut(fr, {f}), ~Works(fr[f])
    PROVE  KeptBut(Notified(fr, n), {f}) /\ ~Works(Notified(fr, n)[f])
  <1>1. /\ AllProper(Notified(fr, n))
        /\ \A h \in Frames : Steady(fr[h], Notified(fr, n)[h])
    BY NotifiedProper DEF KeptBut
  <1> QED BY <1>1, SteadyTwice DEF KeptBut, Steady

\* The frame has ended and its request and forward are given back
LEMMA EndRecounts ==
    ASSUME NEW f \in Frames, Works(frame[f]), KeptBut(frame', {f}), ~Works(frame'[f]),
           current' = DecCurrent(frame[f].node),
           pending' = PendingAfter(f) \/ (pending' = pending /\ ~Sends(frame[f]))
    PROVE  Recounted
  <1>1. ~Sends(frame'[f])
    BY DEF Works, Holds, Sends
  <1> QED BY <1>1 DEF Recounts, Recounted

LEMMA AnswerRecounts ==
    ASSUME AllProper(frame), NEW f \in Frames, Works(frame[f]), NEW kind, NEW counted \in 0..1,
           ~Gone(f) => kind \in Kinds /\ Tallied(kind, FALSE, counted), Answer(f, kind, counted)
    PROVE  Recounted
  <1>1. frame[f].pc \notin {"free", "done"}
    BY DEF Works
  <1>2. frame[f].node \in Nodes
    BY <1>1 DEF AllProper, Proper
  <1>3. ~Gone(f) => /\ Own(f, kind) \in (Kinds \cup {"none"}) \X (Nodes \cup {NoNode})
                    /\ Own(f, kind)[1] = kind
    BY <1>2 DEF Own
  <1>4. LET fr == Ended(f, Own(f, kind), FALSE, counted) IN KeptBut(fr, {f}) /\ ~Works(fr[f])
    BY <1>1, <1>3, EndedKept
  <1> QED BY <1>4, EndRecounts DEF Answer, End

LEMMA AnswerLocalRecounts ==
    ASSUME AllProper(frame), NEW f \in Frames, NEW kind, NEW counted \in 0..1,
           frame[f].pc = "serve" \/ (frame[f].pc = "stream" /\ frame[f].child = Nobody),
           ~Gone(f) => kind \in Kinds /\ Tallied(kind, FALSE, counted),
           AnswerLocal(f, kind, counted)
    PROVE  Recounted
  <1>1. frame[f].pc \notin {"free", "done"} /\ Works(frame[f])
    BY DEF Works
  <1>2. frame[f].node \in Nodes /\ frame[f].target = NoNode
    BY <1>1 DEF AllProper, Proper
  <1>3. ~Gone(f) => /\ Own(f, kind) \in (Kinds \cup {"none"}) \X (Nodes \cup {NoNode})
                    /\ Own(f, kind)[1] = kind
    BY <1>2 DEF Own
  <1> DEFINE fr == Ended(f, Own(f, kind), FALSE, counted)
  <1>4. KeptBut(fr, {f}) /\ ~Works(fr[f])
    BY <1>1, <1>3, EndedKept
  <1>5. frame' = fr \/ frame' = Notified(fr, frame[f].node)
    BY DEF AnswerLocal
  <1> HIDE DEF fr
  <1>6. KeptBut(frame', {f}) /\ ~Works(frame'[f])
    BY <1>4, <1>5, NotifiedKept
  <1> QED BY <1>1, <1>2, <1>6, EndRecounts DEF AnswerLocal, Sends

LEMMA RefuseRecounts ==
    ASSUME AllProper(frame), NEW f \in Frames, frame[f].pc \in {"arrive", "body"},
           NEW kind \in Kinds, Tallied(kind, FALSE, 0), Refuse(f, kind)
    PROVE  Recounted
  <1>1. frame[f].pc \notin {"free", "done"} /\ ~Works(frame[f]) /\ ~Sends(frame[f])
    BY DEF Works, Sends, Holds
  <1>2. frame[f].node \in Nodes
    BY <1>1 DEF AllProper, Proper
  <1>3. /\ 0 \in 0..1 /\ Own(f, kind)[1] = kind
        /\ Own(f, kind) \in (Kinds \cup {"none"}) \X (Nodes \cup {NoNode})
    BY <1>2, SMT DEF Own
  <1>4. KeptBut(frame', {f}) /\ ~Works(frame'[f])
    BY <1>1, <1>3, EndedKept DEF Refuse
  <1>5. ~Sends(frame'[f])
    BY <1>4 DEF Works, Holds, Sends
  <1> QED BY <1>1, <1>4, <1>5 DEF Refuse, Recounts, Recounted

\* The frame goes on; its request and its forward stay what they were
LEMMA OnRecounts ==
    ASSUME NEW f \in Frames, KeptBut(frame', {f}), Works(frame'[f]) <=> Works(frame[f]),
           Works(frame[f]) => frame'[f].node = frame[f].node,
           Sends(frame'[f]) <=> Sends(frame[f]),
           Sends(frame[f]) => frame'[f].target = frame[f].target, UNCHANGED <<current, pending>>
    PROVE  Recounted
  <1>1. Sends(frame[f]) => Works(frame[f])
    BY DEF Sends, Holds, Works
  <1> QED BY <1>1 DEF Recounts, Recounted

LEMMA AllOnRecounts ==
    ASSUME AllProper(frame'), \A h \in Frames : Steady(frame[h], frame'[h]),
           UNCHANGED <<current, pending>>
    PROVE  Recounted
  BY DEF Recounted

LEMMA ReplacedKept ==
    ASSUME AllProper(frame), NEW f \in Frames, NEW q, Proper(q), NEW fr,
           fr = [frame EXCEPT ![f] = q]
    PROVE  KeptBut(fr, {f}) /\ fr[f] = q
  BY DEF AllProper, KeptBut, Steady

\* A frame at work becomes another one of the same request
LEMMA StillProper ==
    ASSUME NEW r, Proper(r), r.pc \notin {"free", "done"}, NEW q \in FrameType,
           q.pc \notin {"free", "done"}, Works(q) => Works(r) \/ r.hops <= MaxHops,
           q.node = r.node, q.hops = r.hops, q.errors = r.errors,
           q.pc \in {"track", "dispatch", "sent"} => q.target \in Nodes,
           q.pc \in {"acquire", "serve"} \/ (q.pc = "stream" /\ q.child = Nobody)
              => q.target = NoNode
    PROVE  Proper(q)
  BY DEF Proper

LEMMA ChangedRecounts ==
    ASSUME AllProper(frame), NEW f \in Frames, Works(frame[f]), NEW q \in FrameType, Works(q),
           q.node = frame[f].node, q.hops = frame[f].hops, q.errors = frame[f].errors,
           q.pc \in {"track", "dispatch", "sent"} => q.target \in Nodes,
           q.pc \in {"acquire", "serve"} \/ (q.pc = "stream" /\ q.child = Nobody)
              => q.target = NoNode,
           Sends(q) <=> Sends(frame[f]), Sends(q) => q.target = frame[f].target,
           frame' = [frame EXCEPT ![f] = q], UNCHANGED <<current, pending>>
    PROVE  Recounted
  <1>1. Proper(q)
    BY StillProper DEF AllProper, Works
  <1>2. KeptBut(frame', {f}) /\ frame'[f] = q
    BY <1>1, ReplacedKept
  <1> QED BY <1>2, OnRecounts

\* What is known of a frame at its start
LEMMA FrameFacts ==
    ASSUME AllProper(frame), NEW f \in Frames
    PROVE  /\ Proper(frame[f]) /\ frame[f] \in FrameType
           /\ frame[f].target \in Nodes \cup {NoNode}
           /\ frame[f].denied \in Nodes \cup {NoNode}
           /\ frame[f].drained \in SUBSET Nodes
           /\ frame[f].hops \in 0..MaxHops + 1
           /\ frame[f].out \in (Kinds \cup {"none"}) \X (Nodes \cup {NoNode})
           /\ frame[f].stream \in BOOLEAN
           /\ frame[f].caller \in Clients \cup Frames \cup {Nobody}
           /\ frame[f].child \in Frames \cup {Nobody}
  <1>1. Proper(frame[f]) /\ frame[f] \in FrameType
    BY DEF AllProper, Proper
  <1> QED BY <1>1 DEF FrameType

----------------------------------------------------------------------------
(* Attempts that bring no answer.                                          *)

LEMMA NotedType ==
    ASSUME AllProper(frame), NEW f \in Frames, frame[f].target \in Nodes, NEW outcome
    PROVE  LET q == Noted(f, outcome) IN
           /\ q \in FrameType
           /\ q.node = frame[f].node /\ q.hops = frame[f].hops /\ q.errors = frame[f].errors
           /\ q.target = NoNode
  <1> DEFINE m == frame[f].target
             r == [frame[f] EXCEPT !.target = NoNode, !.child = Nobody, !.ticket = FALSE]
  <1>1. frame[f] \in FrameType
    BY FrameFacts
  <1>2. r \in FrameType
    BY <1>1, FieldTypes
  <1>3. /\ r.node = frame[f].node /\ r.hops = frame[f].hops /\ r.errors = frame[f].errors
        /\ r.target = NoNode
    BY <1>1 DEF FrameType
  <1> HIDE DEF r
  <1>4. r.drained \cup {m} \in SUBSET Nodes
    BY <1>2 DEF FrameType
  <1>5. [r EXCEPT !.drained = r.drained \cup {m}] \in FrameType
    BY <1>2, <1>4, FieldTypes
  <1>6. [r EXCEPT !.denied = m, !.exclude = m] \in FrameType
    BY <1>2, FieldTypes
  <1>7. Noted(f, outcome) \in {[r EXCEPT !.drained = r.drained \cup {m}],
                               [r EXCEPT !.denied = m, !.exclude = m], r}
    BY DEF Noted, r
  <1>8. \A q \in {[r EXCEPT !.drained = r.drained \cup {m}],
                  [r EXCEPT !.denied = m, !.exclude = m]} :
            q.node = r.node /\ q.hops = r.hops /\ q.errors = r.errors /\ q.target = r.target
    BY <1>2 DEF FrameType
  <1> QED BY <1>2, <1>3, <1>5, <1>6, <1>7, <1>8

LEMMA RetryRecounts ==
    ASSUME AllProper(frame), NEW f \in Frames, frame[f].pc \in {"dispatch", "sent"},
           NEW fr, AllProper(fr), \A g \in Frames \ {f} : Steady(frame[g], fr[g]),
           NEW outcome, Retry(f, fr, outcome)
    PROVE  Recounted
  <1> DEFINE p == Noted(f, outcome)
             q == IF frame[f].fallback THEN RetryFallback(f, outcome)
                  ELSE IF frame[f].knows THEN RetryKnown(f, outcome)
                  ELSE RetryUnknown(f, outcome)
  <1>1. Proper(frame[f]) /\ Works(frame[f]) /\ frame[f].target \in Nodes
    BY DEF AllProper, Proper, Works
  <1>2. /\ p \in FrameType
        /\ p.node = frame[f].node /\ p.hops = frame[f].hops /\ p.errors = frame[f].errors
        /\ p.target = NoNode
    BY <1>1, NotedType
  <1> HIDE DEF p
  <1>3. q \in FrameType
    <2> DEFINE o == AtOnce(f, outcome)
               d == outcome = "denied"
               b == outcome = "denied" /\ ~o
    <2>1. /\ o \in BOOLEAN /\ d \in BOOLEAN /\ b \in BOOLEAN
          /\ (IF o THEN "preflight" ELSE "rearm") \in PcType
      BY DEF AtOnce, PcType
    <2>2. "preflight" \in PcType /\ "rearm" \in PcType
      BY DEF PcType
    <2> HIDE DEF o, d, b
    <2>3. [p EXCEPT !.pc = "preflight"] \in FrameType
      BY <1>2, <2>2, FieldTypes
    <2>4. [p EXCEPT !.pc = "rearm", !.skip = o, !.bounded = b] \in FrameType
      BY <1>2, <2>1, <2>2, FieldTypes
    <2>5. [p EXCEPT !.pc = IF o THEN "preflight" ELSE "rearm", !.skip = FALSE, !.bounded = d]
             \in FrameType
      BY <1>2, <2>1, FieldTypes
    <2> QED BY <2>3, <2>4, <2>5 DEF o, d, b, p, RetryFallback, RetryKnown, RetryUnknown
  <1>4. /\ q.node = frame[f].node /\ q.hops = frame[f].hops /\ q.errors = frame[f].errors
        /\ q.target = NoNode /\ q.pc \in {"preflight", "rearm"}
    BY <1>2, SMT DEF p, RetryFallback, RetryKnown, RetryUnknown, FrameType
  <1>5. frame' = [fr EXCEPT ![f] = q] /\ pending' = PendingAfter(f) /\ current' = current
    BY DEF Retry
  <1> HIDE DEF q
  <1>6. Proper(q) /\ Works(q) /\ ~Sends(q)
    BY <1>1, <1>3, <1>4, StillProper DEF Works, Sends, Holds
  <1>7. KeptBut(frame', {f}) /\ frame'[f] = q
    BY <1>5, <1>6 DEF KeptBut, AllProper
  <1> QED BY <1>1, <1>4, <1>5, <1>6, <1>7 DEF Recounts, Recounted

LEMMA OverRecounts ==
    ASSUME AllProper(frame), NEW f \in Frames, frame[f].pc \in {"dispatch", "sent"},
           NEW fr, AllProper(fr), \A g \in Frames \ {f} : Steady(frame[g], fr[g]),
           NEW outcome, Over(f, fr, outcome)
    PROVE  Recounted
  <1>1. CASE frame[f].fallback
    <2>1. /\ FallbackAnswer(outcome) \in Kinds
          /\ Tallied(FallbackAnswer(outcome), FALSE, 1) /\ 1 \in 0..1 /\ Works(frame[f])
      BY SMT DEF FallbackAnswer, Kinds, Tallied, Works
    <2>2. Answer(f, FallbackAnswer(outcome), 1)
      BY <1>1 DEF Over
    <2> QED BY <2>1, <2>2, AnswerRecounts
  <1>2. CASE ~frame[f].fallback
    BY <1>2, RetryRecounts DEF Over
  <1> QED BY <1>1, <1>2

----------------------------------------------------------------------------
(* The steps of route_request.                                             *)

\* The kinds of answers a frame makes itself, and the errors it counts for them
LEMMA Tallies ==
    /\ 0 \in 0..1 /\ 1 \in 0..1
    /\ {"draining", "queue_timeout", "notfound", "no_capacity", "exhausted", "upstream", "bad",
        "stream", "ok"} \subseteq Kinds
    /\ \A kind \in {"draining", "queue_timeout", "notfound", "no_capacity", "exhausted", "upstream",
                    "stream"} : Tallied(kind, FALSE, 1)
    /\ \A kind \in {"draining", "bad", "ok", "stream"} : Tallied(kind, FALSE, 0)
  BY SMT DEF Kinds, Tallied, Healable

LEMMA StopRecounts ==
    ASSUME AllProper(frame), NEW f \in Frames, Works(frame[f]), Preflight(f)[1] # "pass",
           Stop(f, Preflight(f))
    PROVE  Recounted
  <1>1. \/ Preflight(f) = <<"draining", 1>> \/ Preflight(f) = <<"queue_timeout", 1>>
        \/ Preflight(f) = <<"disconnected", 0>> /\ Gone(f)
    BY DEF Preflight
  <1>2. \/ Answer(f, "draining", 1) \/ Answer(f, "queue_timeout", 1)
        \/ Answer(f, "disconnected", 0) /\ Gone(f)
    BY <1>1, SMT DEF Stop
  <1> QED BY <1>2, AnswerRecounts, Tallies

LEMMA ArriveRecounts ==
    ASSUME AllProper(frame), NEW f \in Frames, Arrive(f) \/ Reject(f)
    PROVE  Recounted
  <1>1. CASE Refuse(f, "draining") /\ frame[f].pc = "arrive"
    BY <1>1, RefuseRecounts, Tallies
  <1>2. CASE Refuse(f, "bad") /\ frame[f].pc = "body"
    BY <1>2, RefuseRecounts, Tallies
  <1>3. CASE frame[f].pc = "arrive" /\ Goto(f, "body") /\ UNCHANGED <<current, pending>>
    <2> DEFINE q == [frame[f] EXCEPT !.pc = "body"]
    <2>1. Proper(frame[f]) /\ frame[f] \in FrameType
      BY FrameFacts
    <2>2. q \in FrameType
      BY <2>1, FieldTypes DEF PcType
    <2>3. /\ q.pc = "body" /\ q.node = frame[f].node /\ q.hops = frame[f].hops
          /\ q.errors = frame[f].errors
      BY <2>1 DEF FrameType
    <2>4. frame' = [frame EXCEPT ![f] = q]
      BY <1>3 DEF Goto
    <2> HIDE DEF q
    <2>5. Proper(q) /\ ~Works(q) /\ ~Works(frame[f]) /\ ~Sends(q) /\ ~Sends(frame[f])
      BY <1>3, <2>1, <2>2, <2>3, StillProper DEF Works, Sends, Holds
    <2>6. KeptBut(frame', {f}) /\ frame'[f] = q
      BY <2>4, <2>5, ReplacedKept
    <2> QED BY <1>3, <2>5, <2>6, OnRecounts
  <1> QED BY <1>1, <1>2, <1>3 DEF Arrive, Reject

LEMMA ResolveRecounts ==
    ASSUME AllProper(frame), NEW f \in Frames, ResolveUnknown(f) \/ ResolveKnown(f)
    PROVE  Recounted
  <1>1. PICK knows \in BOOLEAN : frame[f].pc = "body" /\ ~TooFar(f) /\ Counted(f, knows)
    BY DEF ResolveUnknown, ResolveKnown
  <1> DEFINE q == [frame[f] EXCEPT !.pc = "preflight", !.knows = knows]
  <1>2. Proper(frame[f]) /\ frame[f] \in FrameType /\ frame[f].hops \in 0..MaxHops + 1
    BY FrameFacts
  <1>3. q \in FrameType
    BY <1>2, FieldTypes DEF PcType
  <1>4. /\ q.pc = "preflight" /\ q.node = frame[f].node /\ q.hops = frame[f].hops
        /\ q.errors = frame[f].errors
    BY <1>2 DEF FrameType
  <1>5. frame' = [frame EXCEPT ![f] = q]
    BY <1>1 DEF Counted
  <1> HIDE DEF q
  <1>6. frame[f].hops <= MaxHops
    BY <1>1, <1>2, ForwardingAssumption, SMT DEF TooFar
  <1>7. Proper(q) /\ Works(q) /\ ~Works(frame[f]) /\ ~Sends(q) /\ ~Sends(frame[f])
    BY <1>1, <1>2, <1>3, <1>4, <1>6, StillProper DEF Works, Sends, Holds
  <1>8. KeptBut(frame', {f}) /\ frame'[f] = q
    BY <1>5, <1>7, ReplacedKept
  <1>9. UNCHANGED pending /\ current' = [current EXCEPT ![frame[f].node] = @ + 1]
    BY <1>1 DEF Counted
  <1> QED BY <1>4, <1>7, <1>8, <1>9 DEF Recounts, Recounted

LEMMA BeforeChoiceRecounts ==
    ASSUME AllProper(frame), NEW f \in Frames, BeforeChoice(f)
    PROVE  Recounted
  <1>1. CASE Preflight(f)[1] # "pass"
    <2>1. Works(frame[f]) /\ Stop(f, Preflight(f))
      BY <1>1 DEF BeforeChoice, Works
    <2> QED BY <1>1, <2>1, StopRecounts
  <1>2. CASE Preflight(f)[1] = "pass"
    <2> DEFINE a == IF frame[f].fallback THEN "no" ELSE "armed"
               q == [frame[f] EXCEPT !.pc = "choose", !.armed = a]
    <2>1. frame[f] \in FrameType /\ frame[f].pc = "preflight"
      BY FrameFacts DEF BeforeChoice
    <2>2. a \in {"no", "armed", "fired"}
      OBVIOUS
    <2>3. frame' = [frame EXCEPT ![f] = q] /\ UNCHANGED <<current, pending>>
      BY <1>2 DEF BeforeChoice
    <2> HIDE DEF a
    <2>4. q \in FrameType
      BY <2>1, <2>2, FieldTypes DEF PcType
    <2>5. /\ q.pc = "choose" /\ q.node = frame[f].node /\ q.hops = frame[f].hops
          /\ q.errors = frame[f].errors
      BY <2>1 DEF FrameType
    <2> HIDE DEF q
    <2>6. Works(q) /\ Works(frame[f]) /\ ~Sends(q) /\ ~Sends(frame[f])
      BY <2>1, <2>5 DEF Works, Sends, Holds
    <2> QED BY <2>3, <2>4, <2>5, <2>6, ChangedRecounts
  <1> QED BY <1>1, <1>2

LEMMA ChooseRecounts ==
    ASSUME AllProper(frame), NEW f \in Frames, Choose(f)
    PROVE  Recounted
  <1>1. frame[f] \in FrameType /\ frame[f].pc = "choose" /\ frame[f].node \in Nodes
    BY FrameFacts DEF Choose, Proper
  <1>2. Works(frame[f]) /\ ~Sends(frame[f])
    BY <1>1 DEF Works, Sends, Holds
  <1>3. UNCHANGED <<current, pending>>
    BY DEF Choose
  <1>4. ASSUME NEW m \in Candidates(f),
               frame' = [frame EXCEPT ![f].pc = "track", ![f].target = m, ![f].found = TRUE,
                                      ![f].exclude = NoNode]
        PROVE  Recounted
    <2> DEFINE q == [frame[f] EXCEPT !.pc = "track", !.target = m, !.found = TRUE,
                                     !.exclude = NoNode]
    <2>1. m \in Nodes
      BY <1>1, CandidatesAreNodes
    <2>2. q \in FrameType
      BY <1>1, <2>1, FieldTypes DEF PcType
    <2>3. /\ q.pc = "track" /\ q.node = frame[f].node /\ q.hops = frame[f].hops
          /\ q.errors = frame[f].errors /\ q.target = m
      BY <1>1 DEF FrameType
    <2>4. frame' = [frame EXCEPT ![f] = q]
      BY <1>4
    <2> HIDE DEF q
    <2>5. Works(q) /\ ~Sends(q)
      BY <2>3 DEF Works, Sends, Holds
    <2> QED BY <1>2, <1>3, <2>1, <2>2, <2>3, <2>4, <2>5, ChangedRecounts
  <1>5. ASSUME frame' = [frame EXCEPT ![f].pc = "none", ![f].exclude = NoNode]
        PROVE  Recounted
    <2> DEFINE q == [frame[f] EXCEPT !.pc = "none", !.exclude = NoNode]
    <2>1. q \in FrameType
      BY <1>1, FieldTypes DEF PcType
    <2>2. /\ q.pc = "none" /\ q.node = frame[f].node /\ q.hops = frame[f].hops
          /\ q.errors = frame[f].errors
      BY <1>1 DEF FrameType
    <2>3. frame' = [frame EXCEPT ![f] = q]
      BY <1>5
    <2> HIDE DEF q
    <2>4. Works(q) /\ ~Sends(q)
      BY <2>2 DEF Works, Sends, Holds
    <2> QED BY <1>2, <1>3, <2>1, <2>2, <2>3, <2>4, ChangedRecounts
  <1> QED BY <1>4, <1>5 DEF Choose

LEMMA AwaitClusterRecounts ==
    ASSUME AllProper(frame), NEW f \in Frames, frame[f].pc = "none", AwaitCluster(f)
    PROVE  Recounted
  <1> DEFINE b == frame[f].denied # NoNode
             q == [frame[f] EXCEPT !.pc = "wait", !.bounded = b]
  <1>1. frame[f] \in FrameType /\ b \in BOOLEAN
    BY FrameFacts
  <1>2. frame' = [frame EXCEPT ![f] = q] /\ UNCHANGED <<current, pending>>
    BY DEF AwaitCluster
  <1> HIDE DEF b
  <1>3. q \in FrameType
    BY <1>1, FieldTypes DEF PcType
  <1>4. /\ q.pc = "wait" /\ q.node = frame[f].node /\ q.hops = frame[f].hops
        /\ q.errors = frame[f].errors
    BY <1>1 DEF FrameType
  <1> HIDE DEF q
  <1>5. Works(q) /\ Works(frame[f]) /\ ~Sends(q) /\ ~Sends(frame[f])
    BY <1>4 DEF Works, Sends, Holds
  <1> QED BY <1>2, <1>3, <1>4, <1>5, ChangedRecounts

LEMMA NoneRecounts ==
    ASSUME AllProper(frame), NEW f \in Frames, NoPeer(f) \/ NoNodeFree(f) \/ FallbackFails(f)
    PROVE  Recounted
  <1>1. /\ frame[f].pc = "none"
        /\ \/ \E kind \in {"draining", "notfound", "exhausted"} : Answer(f, kind, 1)
           \/ AwaitCluster(f)
    BY DEF NoPeer, NoNodeFree, FallbackFails
  <1>2. Works(frame[f])
    BY <1>1 DEF Works
  <1>3. CASE AwaitCluster(f)
    BY <1>1, <1>3, AwaitClusterRecounts
  <1>4. CASE \E kind \in {"draining", "notfound", "exhausted"} : Answer(f, kind, 1)
    BY <1>2, <1>4, AnswerRecounts, Tallies
  <1> QED BY <1>1, <1>3, <1>4

LEMMA TrackRecounts ==
    ASSUME AllProper(frame), NEW f \in Frames, Track(f)
    PROVE  Recounted
  <1>1. /\ frame[f] \in FrameType /\ frame[f].pc = "track" /\ frame[f].target \in Nodes
        /\ Proper(frame[f])
    BY FrameFacts DEF Track, Proper
  <1>2. Works(frame[f]) /\ ~Sends(frame[f]) /\ ~Holds(frame[f])
    BY <1>1 DEF Works, Sends, Holds
  <1>3. CASE Preflight(f)[1] # "pass"
    <2>1. Stop(f, Preflight(f))
      BY <1>3 DEF Track
    <2> QED BY <1>2, <1>3, <2>1, StopRecounts
  <1>4. CASE /\ frame' = [frame EXCEPT ![f].pc = "acquire", ![f].target = NoNode]
             /\ UNCHANGED <<current, pending>>
    <2> DEFINE q == [frame[f] EXCEPT !.pc = "acquire", !.target = NoNode]
    <2>1. q \in FrameType
      BY <1>1, FieldTypes DEF PcType
    <2>2. /\ q.pc = "acquire" /\ q.node = frame[f].node /\ q.hops = frame[f].hops
          /\ q.errors = frame[f].errors /\ q.target = NoNode
      BY <1>1 DEF FrameType
    <2>3. frame' = [frame EXCEPT ![f] = q]
      BY <1>4
    <2> HIDE DEF q
    <2>4. Works(q) /\ ~Sends(q)
      BY <2>2 DEF Works, Sends, Holds
    <2> QED BY <1>2, <1>4, <2>1, <2>2, <2>3, <2>4, ChangedRecounts
  <1>5. CASE /\ Goto(f, "dispatch") /\ UNCHANGED current
             /\ pending' = [pending EXCEPT ![frame[f].node][frame[f].target] = @ + 1]
    <2> DEFINE q == [frame[f] EXCEPT !.pc = "dispatch"]
    <2>1. q \in FrameType
      BY <1>1, FieldTypes DEF PcType
    <2>2. /\ q.pc = "dispatch" /\ q.node = frame[f].node /\ q.hops = frame[f].hops
          /\ q.errors = frame[f].errors /\ q.target = frame[f].target
      BY <1>1 DEF FrameType
    <2>3. frame' = [frame EXCEPT ![f] = q]
      BY <1>5 DEF Goto
    <2> HIDE DEF q
    <2>4. Works(q) /\ Holds(q)
      BY <2>2 DEF Works, Holds
    <2>5. Proper(q)
      BY <1>1, <1>2, <2>1, <2>2, StillProper
    <2>6. KeptBut(frame', {f}) /\ frame'[f] = q
      BY <2>3, <2>5, ReplacedKept
    <2> QED BY <1>2, <1>5, <2>2, <2>4, <2>6 DEF Recounts, Recounted
  <1> QED BY <1>3, <1>4, <1>5 DEF Track

LEMMA DispatchRecounts ==
    ASSUME AllProper(frame), NEW f \in Frames, Dispatch(f)
    PROVE  Recounted
  <1> DEFINE m == frame[f].target
             t == circuit[frame[f].node][m] = "due"
             sent == [frame[f] EXCEPT !.pc = "sent", !.ticket = t]
             open == [sent EXCEPT !.child = FreeFrame]
             new == Opened(f, m, frame[f].hops + 1, frame[f].stream)
  <1>1. /\ frame[f] \in FrameType /\ frame[f].pc = "dispatch" /\ m \in Nodes
        /\ Proper(frame[f]) /\ frame[f].stream \in BOOLEAN
    BY FrameFacts DEF Dispatch, Proper
  <1>2. Works(frame[f])
    BY <1>1 DEF Works
  <1>3. frame[f].hops + 1 \in 0..MaxHops + 1
    <2>1. frame[f].hops \in 0..MaxHops + 1 /\ frame[f].hops <= MaxHops
      BY <1>1, <1>2, FrameFacts DEF Proper
    <2> QED BY <2>1, ForwardingAssumption, SMT
  <1>4. /\ \/ frame' = [frame EXCEPT ![f] = sent]
           \/ SomeFree /\ frame' = [frame EXCEPT ![f] = open, ![FreeFrame] = new]
        /\ UNCHANGED <<current, pending>>
    BY DEF Dispatch
  <1>5. t \in BOOLEAN
    OBVIOUS
  <1> HIDE DEF t
  <1>6. sent \in FrameType
    BY <1>1, <1>5, FieldTypes DEF PcType
  <1>7. /\ sent.pc = "sent" /\ sent.node = frame[f].node /\ sent.hops = frame[f].hops
        /\ sent.errors = frame[f].errors /\ sent.target = m
    BY <1>1 DEF FrameType
  <1> HIDE DEF sent
  <1>8. Works(sent) /\ (Sends(sent) <=> Sends(frame[f]))
    BY <1>1, <1>7 DEF Works, Sends, Holds
  <1>9. CASE frame' = [frame EXCEPT ![f] = sent]
    BY <1>1, <1>2, <1>4, <1>6, <1>7, <1>8, <1>9, ChangedRecounts
  <1>10. CASE SomeFree /\ frame' = [frame EXCEPT ![f] = open, ![FreeFrame] = new]
    <2>1. FreeFrame \in Frames /\ frame[FreeFrame].pc = "free" /\ FreeFrame # f
      BY <1>1, <1>10, FreeFrameIsFree
    <2>2. open \in FrameType
      BY <1>6, <2>1, FieldTypes
    <2>3. /\ open.pc = "sent" /\ open.node = frame[f].node /\ open.hops = frame[f].hops
          /\ open.errors = frame[f].errors /\ open.target = m
      BY <1>6, <1>7 DEF FrameType
    <2>4. Proper(new)
      BY <1>1, <1>3, OpenedProper
    <2>5. new.pc = "arrive"
      BY DEF Opened, Idle
    <2> HIDE DEF open, new
    <2>6. Works(open) /\ (Sends(open) <=> Sends(frame[f]))
      BY <1>1, <2>3 DEF Works, Sends, Holds
    <2>7. Proper(open)
      BY <1>1, <1>2, <2>2, <2>3, <2>6, StillProper
    <2>8. Steady(frame[FreeFrame], new)
      BY <2>1, <2>5 DEF Steady, Works, Holds
    <2>9. DOMAIN frame' = Frames /\ frame'[f] = open /\ frame'[FreeFrame] = new
      BY <1>10, <2>1 DEF AllProper
    <2>10. \A g \in Frames \ {f, FreeFrame} : frame'[g] = frame[g]
      BY <1>10, <2>1 DEF AllProper
    <2>11. KeptBut(frame', {f})
      BY <2>4, <2>7, <2>8, <2>9, <2>10 DEF AllProper, KeptBut, Steady
    <2> QED BY <1>2, <1>4, <2>3, <2>6, <2>9, <2>11, OnRecounts
  <1> QED BY <1>4, <1>9, <1>10

LEMMA WaitingRecounts ==
    ASSUME AllProper(frame), NEW f \in Frames, Rearm(f) \/ Wake(f) \/ WaitExpires(f) \/ WaitGone(f)
    PROVE  Recounted
  <1>1. frame[f].pc \in {"rearm", "wait"}
    BY DEF Rearm, Wake, WaitExpires, WaitGone
  <1>2. frame[f] \in FrameType /\ Works(frame[f]) /\ ~Sends(frame[f])
    BY <1>1, FrameFacts DEF Works, Sends, Holds
  <1>3. CASE Answer(f, "draining", 1) \/ Answer(f, "queue_timeout", 1)
    BY <1>2, <1>3, AnswerRecounts, Tallies
  <1>4. CASE WaitGone(f)
    BY <1>2, <1>4, AnswerRecounts, Tallies DEF WaitGone
  <1>5. CASE /\ frame' = [frame EXCEPT ![f].pc = IF frame[f].skip THEN "preflight" ELSE "wait",
                                       ![f].armed = "armed", ![f].skip = FALSE]
             /\ UNCHANGED <<current, pending>>
    <2> DEFINE p == IF frame[f].skip THEN "preflight" ELSE "wait"
               q == [frame[f] EXCEPT !.pc = p, !.armed = "armed", !.skip = FALSE]
    <2>1. p \in {"preflight", "wait"} /\ p \in PcType
      BY DEF PcType
    <2>2. frame' = [frame EXCEPT ![f] = q]
      BY <1>5
    <2> HIDE DEF p
    <2>3. q \in FrameType
      BY <1>2, <2>1, FieldTypes
    <2>4. q.pc = p /\ q.node = frame[f].node /\ q.hops = frame[f].hops /\ q.errors = frame[f].errors
      BY <1>2 DEF FrameType
    <2> HIDE DEF q
    <2>5. Works(q) /\ ~Sends(q) /\ q.pc \in {"preflight", "wait"}
      BY <2>1, <2>4 DEF Works, Sends, Holds
    <2> QED BY <1>2, <1>5, <2>2, <2>3, <2>4, <2>5, ChangedRecounts
  <1>6. CASE Wake(f)
    <2> DEFINE q == [frame[f] EXCEPT !.pc = "preflight", !.bounded = FALSE]
    <2>1. frame' = [frame EXCEPT ![f] = q] /\ UNCHANGED <<current, pending>>
      BY <1>6 DEF Wake
    <2>2. q \in FrameType
      BY <1>2, FieldTypes DEF PcType
    <2>3. /\ q.pc = "preflight" /\ q.node = frame[f].node /\ q.hops = frame[f].hops
          /\ q.errors = frame[f].errors
      BY <1>2 DEF FrameType
    <2> HIDE DEF q
    <2>4. Works(q) /\ ~Sends(q)
      BY <2>3 DEF Works, Sends, Holds
    <2> QED BY <1>2, <2>1, <2>2, <2>3, <2>4, ChangedRecounts
  <1> QED BY <1>3, <1>4, <1>5, <1>6 DEF Rearm, WaitExpires

LEMMA DeliverRecounts ==
    ASSUME AllProper(frame), NEW f \in Frames, Deliver(f)
    PROVE  Recounted
  <1>1. /\ frame[f].pc = "done" /\ frame' = [frame EXCEPT ![f] = Idle]
        /\ UNCHANGED <<current, pending>>
    BY DEF Deliver
  <1>2. Steady(frame[f], Idle)
    BY <1>1 DEF Steady, Works, Holds, Idle
  <1>3. KeptBut(frame', {f}) /\ frame'[f] = Idle
    BY <1>1, IdleProper, ReplacedKept
  <1> QED BY <1>1, <1>2, <1>3, AllOnRecounts DEF KeptBut

LEMMA RouteRecounts ==
    ASSUME AllProper(frame), NEW f \in Frames, Route(f)
    PROVE  Recounted
  <1>1. CASE ProbeDenied(f)
    <2>1. AllProper(frame) /\ \A g \in Frames \ {f} : Steady(frame[g], frame[g])
      BY DEF Steady
    <2> QED BY <1>1, <2>1, OverRecounts DEF ProbeDenied
  <1> QED BY <1>1, ArriveRecounts, ResolveRecounts, BeforeChoiceRecounts, ChooseRecounts,
             NoneRecounts, TrackRecounts, DispatchRecounts, WaitingRecounts,
             DeliverRecounts
             DEF Route

LEMMA ChildAnswer ==
    ASSUME AllProper(frame), NEW f \in Frames, Child(f).pc = "done"
    PROVE  /\ frame[f].child \in Frames /\ Child(f) = frame[frame[f].child]
           /\ Child(f).out \in (Kinds \cup {"none"}) \X (Nodes \cup {NoNode})
  <1>1. frame[f].child \in Frames /\ Child(f) = frame[frame[f].child]
    BY FrameFacts DEF Child, Idle
  <1> QED BY <1>1, FrameFacts

LEMMA AfterAnswerRecounts ==
    ASSUME AllProper(frame), NEW f \in Frames, Answered(f, Child(f).out), NEW outcome,
           Retry(f, Consumed(f), outcome)
    PROVE  Recounted
  <1>1. frame[f].pc = "sent" /\ Child(f).pc = "done"
    BY DEF Answered
  <1>2. frame[f].child \in Frames /\ frame[frame[f].child].pc = "done"
    BY <1>1, ChildAnswer
  <1>3. AllProper(Consumed(f))
    BY <1>2, IdleProper DEF AllProper, Consumed
  <1>4. \A g \in Frames : Steady(frame[g], Consumed(f)[g])
    BY <1>2 DEF AllProper, Consumed, Steady, Works, Holds, Idle
  <1> QED BY <1>1, <1>3, <1>4, RetryRecounts

LEMMA RelayRecounts ==
    ASSUME AllProper(frame), NEW f \in Frames, frame[f].pc = "sent", Child(f).pc = "done",
           NEW counted \in 0..1, Tallied(Child(f).out[1], TRUE, counted), NEW n,
           LET fr == Ended(f, Child(f).out, TRUE, counted)
           IN  frame' = fr \/ frame' = Notified(fr, n),
           current' = DecCurrent(frame[f].node), pending' = PendingAfter(f)
    PROVE  Recounted
  <1> DEFINE fr == Ended(f, Child(f).out, TRUE, counted)
  <1>1. Works(frame[f]) /\ frame[f].pc \notin {"free", "done"} /\ TRUE \in BOOLEAN
    BY DEF Works
  <1>2. Child(f).out \in (Kinds \cup {"none"}) \X (Nodes \cup {NoNode})
    BY ChildAnswer
  <1>3. KeptBut(fr, {f}) /\ ~Works(fr[f])
    BY <1>1, <1>2, EndedKept
  <1> HIDE DEF fr
  <1>4. frame' = fr \/ frame' = Notified(fr, n)
    BY DEF fr
  <1>5. KeptBut(frame', {f}) /\ ~Works(frame'[f])
    BY <1>3, <1>4, NotifiedKept
  <1> QED BY <1>1, <1>5, EndRecounts

LEMMA ReceiveRecounts ==
    ASSUME AllProper(frame), NEW f \in Frames, Receive(f)
    PROVE  Recounted
  <1>1. CASE DropForward(f)
    <2>1. Works(frame[f])
      BY <1>1 DEF DropForward, Works
    <2> QED BY <1>1, <2>1, AnswerRecounts, Tallies DEF DropForward
  <1>2. CASE StreamHead(f)
    <2> DEFINE q == [frame[f] EXCEPT !.pc = "stream"]
    <2>1. /\ frame[f] \in FrameType /\ frame[f].pc = "sent" /\ frame[f].child # Nobody
          /\ UNCHANGED <<current, pending>>
      BY <1>2, FrameFacts DEF StreamHead, Child, Idle
    <2>2. frame' = [frame EXCEPT ![f] = q]
      BY <1>2 DEF StreamHead, Goto
    <2>3. q \in FrameType
      BY <2>1, FieldTypes DEF PcType
    <2>4. /\ q.pc = "stream" /\ q.node = frame[f].node /\ q.hops = frame[f].hops
          /\ q.errors = frame[f].errors /\ q.target = frame[f].target /\ q.child = frame[f].child
      BY <2>1 DEF FrameType
    <2> HIDE DEF q
    <2>5. Works(q) /\ Works(frame[f]) /\ (Sends(q) <=> Sends(frame[f]))
      BY <2>1, <2>4 DEF Works, Sends, Holds
    <2> QED BY <2>1, <2>2, <2>3, <2>4, <2>5, ChangedRecounts
  <1>3. CASE PeerDrains(f)
    <2>1. Answered(f, Child(f).out) /\ Retry(f, Consumed(f), "draining")
      BY <1>3 DEF PeerDrains, Answered
    <2> QED BY <2>1, AfterAnswerRecounts
  <1>4. CASE Heal(f)
    <2>1. CASE Retry(f, Consumed(f), "heal")
      BY <1>4, <2>1, AfterAnswerRecounts DEF Heal
    <2>2. CASE End(f, Child(f).out, TRUE, 1)
      <3>1. frame[f].pc = "sent" /\ Child(f).pc = "done" /\ Child(f).out[1] \in Healable
        BY <1>4 DEF Heal, Answered
      <3>2. Tallied(Child(f).out[1], TRUE, 1)
        BY <3>1, SMT DEF Tallied, Healable
      <3> QED BY <2>2, <3>1, <3>2, RelayRecounts, Tallies DEF End
    <2> QED BY <1>4, <2>1, <2>2 DEF Heal
  <1>5. CASE Surface(f)
    <2> DEFINE out == Child(f).out
               k == IF frame[f].fallback /\ IsError(out) THEN 1 ELSE 0
    <2>1. frame[f].pc = "sent" /\ Child(f).pc = "done" /\ out[1] \notin Healable
      BY <1>5 DEF Surface, Answered
    <2>2. k \in 0..1 /\ Tallied(out[1], TRUE, k)
      BY <2>1, SMT DEF Tallied, IsError
    <2>3. /\ LET fr == Ended(f, out, TRUE, k) IN frame' = fr \/ frame' = Notified(fr, frame[f].node)
          /\ current' = DecCurrent(frame[f].node) /\ pending' = PendingAfter(f)
      BY <1>5 DEF Surface
    <2> HIDE DEF k
    <2> QED BY <2>1, <2>2, <2>3, RelayRecounts
  <1>6. ASSUME NEW kind, Transport(f, kind) PROVE Recounted
    <2>1. frame[f].pc = "sent" /\ Over(f, Abandoned(frame, frame[f].child), kind)
      BY <1>6 DEF Transport
    <2>2. /\ AllProper(Abandoned(frame, frame[f].child))
          /\ \A h \in Frames : Steady(frame[h], Abandoned(frame, frame[f].child)[h])
      BY AbandonedProper
    <2> QED BY <2>1, <2>2, OverRecounts
  <1> QED BY <1>1, <1>2, <1>3, <1>4, <1>5, <1>6 DEF Receive

LEMMA LocalRecounts ==
    ASSUME AllProper(frame), NEW f \in Frames, Local(f)
    PROVE  Recounted
  <1>1. CASE AcquireFails(f) \/ (DropLocal(f) /\ frame[f].pc = "acquire")
    <2>1. Works(frame[f])
      BY <1>1 DEF AcquireFails, Works
    <2>2. \/ \E kind \in {"no_capacity", "queue_timeout", "draining", "notfound"} :
                Answer(f, kind, 1)
          \/ Gone(f) /\ Answer(f, "disconnected", 0)
      BY <1>1 DEF AcquireFails, DropLocal
    <2> QED BY <2>1, <2>2, AnswerRecounts, Tallies
  <1>2. CASE Acquire(f) \/ AcquireExhausted(f) \/ (ServeOk(f) /\ frame[f].stream)
    <2> DEFINE a == [frame[f] EXCEPT !.pc = "serve"]
               b == [frame[f] EXCEPT !.pc = "preflight", !.fallback = TRUE]
               c == [frame[f] EXCEPT !.pc = "stream"]
    <2>1. frame[f] \in FrameType /\ Proper(frame[f])
      BY FrameFacts
    <2>2. /\ frame[f].pc \in {"acquire", "serve"} /\ UNCHANGED <<current, pending>>
          /\ \E q \in {a, b, c} : frame' = [frame EXCEPT ![f] = q]
      BY <1>2 DEF Acquire, AcquireExhausted, ServeOk, Goto
    <2>3. frame[f].target = NoNode /\ Works(frame[f]) /\ ~Sends(frame[f])
      BY <2>1, <2>2 DEF Proper, Works, Sends
    <2>4. a \in FrameType /\ b \in FrameType /\ c \in FrameType
      BY <2>1, FieldTypes DEF PcType
    <2>5. \A q \in {a, b, c} :
             /\ q.pc \in {"serve", "preflight", "stream"} /\ q.target = NoNode
             /\ q.node = frame[f].node /\ q.hops = frame[f].hops /\ q.errors = frame[f].errors
      <3>1. a.pc = "serve" /\ b.pc = "preflight" /\ c.pc = "stream"
        BY <2>1 DEF FrameType
      <3>2. a.target = NoNode /\ b.target = NoNode /\ c.target = NoNode
        BY <2>1, <2>3 DEF FrameType
      <3>3. \A q \in {a, b, c} : q.node = frame[f].node /\ q.hops = frame[f].hops
        BY <2>1 DEF FrameType
      <3>4. \A q \in {a, b, c} : q.errors = frame[f].errors
        BY <2>1 DEF FrameType
      <3> HIDE DEF a, b, c
      <3> QED BY <3>1, <3>2, <3>3, <3>4
    <2> HIDE DEF a, b, c
    <2>6. PICK q \in {a, b, c} : frame' = [frame EXCEPT ![f] = q]
      BY <2>2
    <2>7. /\ q \in FrameType /\ Works(q) /\ ~Sends(q) /\ q.target = NoNode
          /\ q.pc \notin {"track", "dispatch", "sent"}
          /\ q.node = frame[f].node /\ q.hops = frame[f].hops /\ q.errors = frame[f].errors
      BY <2>4, <2>5, <2>6 DEF Works, Sends
    <2> QED BY <2>2, <2>3, <2>6, <2>7, ChangedRecounts
  <1>3. CASE \/ ServeOk(f) /\ ~frame[f].stream
             \/ ServeFails(f)
             \/ DropLocal(f) /\ frame[f].pc = "serve"
    <2>1. /\ frame[f].pc = "serve"
          /\ \/ AnswerLocal(f, "ok", 0) \/ AnswerLocal(f, "upstream", 1)
             \/ Gone(f) /\ AnswerLocal(f, "disconnected", 0)
      BY <1>3 DEF ServeOk, ServeFails, DropLocal
    <2> QED BY <2>1, AnswerLocalRecounts, Tallies
  <1>4. CASE StreamEnds(f)
    <2>1. CASE frame[f].child = Nobody
      <3>1. frame[f].pc = "stream" /\ \E broken \in 0..1 : AnswerLocal(f, "stream", broken)
        BY <1>4, <2>1 DEF StreamEnds
      <3>2. \A broken \in 0..1 : Tallied("stream", FALSE, broken) /\ "stream" \in Kinds
        BY SMT DEF Tallied, Healable, Kinds
      <3> QED BY <2>1, <3>1, <3>2, AnswerLocalRecounts
    <2>2. CASE frame[f].child # Nobody
      <3>1. Works(frame[f]) /\ Answer(f, "stream", 0)
        BY <1>4, <2>2 DEF StreamEnds, Works
      <3> QED BY <3>1, AnswerRecounts, Tallies
    <2> QED BY <2>1, <2>2
  <1> QED BY <1>1, <1>2, <1>3, <1>4 DEF Local, DropLocal

LEMMA UnchangedRecounts ==
    ASSUME AllProper(frame), UNCHANGED <<frame, current, pending>>
    PROVE  Recounted
  <1>1. frame' = frame /\ UNCHANGED <<current, pending>>
    OBVIOUS
  <1>2. AllProper(frame') /\ \A h \in Frames : Steady(frame[h], frame'[h])
    BY <1>1 DEF AllProper, Steady
  <1> QED BY <1>1, <1>2, AllOnRecounts

\* The frame looks on while its deadline passes or its client leaves
LEMMA ClockRecounts ==
    ASSUME AllProper(frame), NEW f \in Frames, NEW x \in BOOLEAN,
           frame[f].pc \in LooksAtClock \cup {"sent", "serve", "stream"},
           \/ frame' = [frame EXCEPT ![f].caller = Nobody]
           \/ frame' = [frame EXCEPT ![f].expired = x],
           UNCHANGED <<current, pending>>
    PROVE  Recounted
  <1> DEFINE a == [frame[f] EXCEPT !.caller = Nobody]
             b == [frame[f] EXCEPT !.expired = x]
  <1>1. frame[f] \in FrameType /\ Proper(frame[f])
    BY FrameFacts
  <1>2. a \in FrameType /\ b \in FrameType
    BY <1>1, FieldTypes
  <1>3. \A q \in {a, b} :
           /\ q.pc = frame[f].pc /\ q.node = frame[f].node /\ q.hops = frame[f].hops
           /\ q.errors = frame[f].errors /\ q.target = frame[f].target /\ q.child = frame[f].child
    BY <1>1 DEF FrameType
  <1>4. PICK q \in {a, b} : frame' = [frame EXCEPT ![f] = q]
    OBVIOUS
  <1> HIDE DEF a, b
  <1>5. Works(frame[f])
    BY DEF Works, LooksAtClock
  <1>6. /\ q \in FrameType /\ Works(q) /\ (Sends(q) <=> Sends(frame[f]))
        /\ q.pc \in {"track", "dispatch", "sent"} => q.target \in Nodes
        /\ q.pc \in {"acquire", "serve"} \/ (q.pc = "stream" /\ q.child = Nobody)
              => q.target = NoNode
    BY <1>1, <1>2, <1>3, <1>4, <1>5 DEF Works, Sends, Holds, Proper
  <1> QED BY <1>3, <1>4, <1>5, <1>6, ChangedRecounts

LEMMA SubmitRecounts ==
    ASSUME AllProper(frame), NEW c \in Clients, NEW n \in Entries, NEW stream \in BOOLEAN,
           Submit(c, n, stream)
    PROVE  Recounted
  <1> DEFINE new == Opened(c, n, 0, stream)
  <1>1. FreeFrame \in Frames /\ frame[FreeFrame].pc = "free"
    BY FreeFrameIsFree DEF Submit
  <1>2. frame' = [frame EXCEPT ![FreeFrame] = new] /\ UNCHANGED <<current, pending>>
    BY DEF Submit
  <1>3. n \in Nodes /\ 0 \in 0..MaxHops + 1
    BY ForwardingAssumption, SMT
  <1>4. Proper(new)
    BY <1>3, OpenedProper
  <1>5. new.pc = "arrive"
    BY DEF Opened, Idle
  <1> HIDE DEF new
  <1>6. Steady(frame[FreeFrame], new)
    BY <1>1, <1>5 DEF Steady, Works, Holds
  <1>7. KeptBut(frame', {FreeFrame}) /\ frame'[FreeFrame] = new
    BY <1>1, <1>2, <1>4, ReplacedKept
  <1> QED BY <1>1, <1>2, <1>6, <1>7, AllOnRecounts DEF KeptBut

LEMMA EnvironmentRecounts ==
    ASSUME AllProper(frame), Environment
    PROVE  Recounted
  <1>1. CASE \E n \in Nodes : frame' = Notified(frame, n) /\ UNCHANGED <<current, pending>>
    <2>1. PICK n \in Nodes : frame' = Notified(frame, n) /\ UNCHANGED <<current, pending>>
      BY <1>1
    <2>2. AllProper(frame') /\ \A h \in Frames : Steady(frame[h], frame'[h])
      BY <2>1, NotifiedProper
    <2> QED BY <2>1, <2>2, AllOnRecounts
  <1>2. CASE UNCHANGED <<frame, current, pending>>
    BY <1>2, UnchangedRecounts
  <1>3. ASSUME NEW c \in Clients, Leave(c) PROVE Recounted
    <2>1. PICK f \in Frames : /\ frame[f].pc \in LooksAtClock \cup {"sent", "serve", "stream"}
                              /\ frame' = [frame EXCEPT ![f].caller = Nobody]
      BY <1>3 DEF Leave
    <2>2. UNCHANGED <<current, pending>> /\ TRUE \in BOOLEAN
      BY <1>3 DEF Leave
    <2> QED BY <2>1, <2>2, ClockRecounts
  <1>4. ASSUME NEW n \in Nodes, NEW m \in Nodes,
               Gossip(n, m) \/ GossipSent(n, m) \/ Stale(n, m) \/ Elapse(n, m)
        PROVE  Recounted
    BY <1>1, <1>2, <1>4 DEF Gossip, GossipSent, Stale, Elapse
  <1>5. ASSUME NEW n \in Nodes, Drain(n) \/ Reload(n) \/ Built(n)
        PROVE  Recounted
    BY <1>1, <1>5 DEF Drain, Reload, Built
  <1> QED BY <1>3, <1>4, <1>5, SubmitRecounts DEF Environment

LEMMA NextRecounts ==
    ASSUME AllProper(frame), [Next]_vars
    PROVE  Recounted
  <1>1. CASE UNCHANGED vars
    BY <1>1, UnchangedRecounts DEF vars
  <1>2. ASSUME NEW f \in Frames, Step(f) PROVE Recounted
    BY <1>2, RouteRecounts, ReceiveRecounts, LocalRecounts DEF Step
  <1>3. ASSUME NEW f \in Frames, Expire(f) PROVE Recounted
    <2>1. /\ frame[f].pc \in LooksAtClock \cup {"sent", "serve", "stream"} /\ TRUE \in BOOLEAN
          /\ frame' = [frame EXCEPT ![f].expired = TRUE] /\ UNCHANGED <<current, pending>>
      BY <1>3 DEF Expire
    <2> QED BY <2>1, ClockRecounts
  <1> QED BY <1>1, <1>2, <1>3, EnvironmentRecounts DEF Next

----------------------------------------------------------------------------
(* The rest of the state.                                                  *)

LEMMA OthersInit == Init => Others
  BY ForwardingAssumption, SMT DEF Init, Others, Circuits, CircuitType, ClientType

LEMMA CircuitTyped ==
    ASSUME Others, NEW n, NEW m, NEW k,
           n \in Nodes /\ m \in Nodes => k \in Circuits
    PROVE  [circuit EXCEPT ![n][m] = k] \in CircuitType
  <1>1. circuit \in [Nodes -> [Nodes -> Circuits]]
    BY DEF Others, CircuitType
  <1> QED BY <1>1, UpdatedTwice, ZenonT(30) DEF CircuitType

LEMMA FailureTyped ==
    ASSUME Others, NEW n, NEW m, Failure(n, m)
    PROVE  circuit' \in CircuitType
  <1>1. CASE circuit' = [circuit EXCEPT ![n][m] = "open"]
    BY <1>1, CircuitTyped DEF Circuits
  <1> QED BY <1>1 DEF Failure, Others

LEMMA HeadTyped ==
    ASSUME Others, NEW c, NEW n, HeadReaches(c, n)
    PROVE  client' \in ClientType
  <1>1. CASE client' = [client EXCEPT ![c] = "answered"]
    BY <1>1, Updated DEF Others, ClientType
  <1> QED BY <1>1 DEF HeadReaches, Others

LEMMA RouteTyped ==
    ASSUME Others, NEW f, Route(f)
    PROVE  Others'
  <1>1. CASE Dispatch(f)
    <2> DEFINE n == frame[f].node
               m == frame[f].target
               k == IF circuit[n][m] = "due" THEN "probing" ELSE circuit[n][m]
    <2>1. circuit' = [circuit EXCEPT ![n][m] = k] /\ UNCHANGED <<client, events>>
      BY <1>1 DEF Dispatch, nodeVars
    <2>2. n \in Nodes /\ m \in Nodes => k \in Circuits
      BY DEF Others, Circuits, CircuitType, ClientType
    <2> HIDE DEF n, m, k
    <2>3. circuit' \in CircuitType
      BY <2>1, <2>2, CircuitTyped
    <2> QED BY <2>1, <2>3 DEF Others
  <1>2. CASE Deliver(f)
    <2>1. UNCHANGED <<circuit, events>>
      BY <1>2 DEF Deliver, nodeVars
    <2>2. client' = client \/ client' = [client EXCEPT ![frame[f].caller] = "answered"]
      BY <1>2 DEF Deliver
    <2>3. [client EXCEPT ![frame[f].caller] = "answered"]
             \in ClientType
      BY Updated DEF Others, ClientType
    <2> QED BY <2>1, <2>2, <2>3 DEF Others
  <1>3. CASE UNCHANGED <<client, circuit, events>>
    BY <1>3 DEF Others
  <1>4. CASE \/ Arrive(f) \/ Reject(f) \/ ResolveUnknown(f) \/ ResolveKnown(f)
             \/ BeforeChoice(f) \/ Choose(f)
    BY <1>3, <1>4
       DEF Arrive, Reject, ResolveUnknown, ResolveKnown, Counted, BeforeChoice, Choose,
           nodeVars
  <1>5. CASE NoPeer(f) \/ NoNodeFree(f) \/ Track(f) \/ ProbeDenied(f) \/ Rearm(f) \/ Wake(f)
    BY <1>3, <1>5 DEF NoPeer, NoNodeFree, Track, ProbeDenied, Rearm, Wake, nodeVars
  <1>6. CASE WaitExpires(f) \/ WaitGone(f) \/ FallbackFails(f)
    BY <1>3, <1>6 DEF WaitExpires, WaitGone, FallbackFails, nodeVars
  <1> QED BY <1>1, <1>2, <1>4, <1>5, <1>6 DEF Route

LEMMA ReceiveTyped ==
    ASSUME Others, NEW f, Receive(f)
    PROVE  Others'
  <1>1. CASE DropForward(f) \/ PeerDrains(f)
    BY <1>1 DEF DropForward, PeerDrains, nodeVars, Others
  <1>2. CASE StreamHead(f)
    BY <1>2, HeadTyped DEF StreamHead, nodeVars, Others
  <1>3. CASE Heal(f) \/ \E kind \in {"request", "body"} : Transport(f, kind)
    BY <1>3, FailureTyped DEF Heal, Transport, nodeVars, Others
  <1>4. CASE Surface(f)
    <2> DEFINE n == frame[f].node
               m == frame[f].target
               k == IF frame[f].ticket /\ circuit[n][m] # "closed" THEN "closed" ELSE circuit[n][m]
    <2>1. UNCHANGED <<client, events>> /\ (UNCHANGED circuit \/ Failure(n, m) \/ Success(f))
      BY <1>4 DEF Surface, nodeVars
    <2>2. Success(f) => circuit' = [circuit EXCEPT ![n][m] = k]
      BY DEF Success
    <2>3. n \in Nodes /\ m \in Nodes => k \in Circuits
      BY DEF Others, Circuits, CircuitType, ClientType
    <2> HIDE DEF n, m, k
    <2>4. circuit' \in CircuitType
      <3>1. [circuit EXCEPT ![n][m] = k] \in CircuitType
        BY <2>3, CircuitTyped
      <3>2. Failure(n, m) => circuit' \in CircuitType
        BY FailureTyped
      <3> QED BY <2>1, <2>2, <3>1, <3>2 DEF Others
    <2> QED BY <2>1, <2>4 DEF Others
  <1> QED BY <1>1, <1>2, <1>3, <1>4 DEF Receive

LEMMA LocalTyped ==
    ASSUME Others, NEW f, Local(f) \/ Expire(f)
    PROVE  Others'
  <1>1. CASE ServeOk(f)
    BY <1>1, HeadTyped DEF ServeOk, nodeVars, Others
  <1>2. CASE UNCHANGED <<client, circuit, events>>
    BY <1>2 DEF Others
  <1>3. CASE Acquire(f) \/ AcquireFails(f) \/ AcquireExhausted(f) \/ ServeFails(f)
    BY <1>2, <1>3 DEF Acquire, AcquireFails, AcquireExhausted, ServeFails, nodeVars
  <1>4. CASE DropLocal(f) \/ StreamEnds(f) \/ Expire(f)
    BY <1>2, <1>4 DEF DropLocal, StreamEnds, Expire, nodeVars
  <1> QED BY <1>1, <1>3, <1>4 DEF Local

LEMMA EnvironmentTyped ==
    ASSUME Others, Environment
    PROVE  Others'
  <1>1. ASSUME NEW c \in Clients, NEW n, NEW stream, Submit(c, n, stream) PROVE Others'
    <2>1. client' = [client EXCEPT ![c] = "open"] /\ UNCHANGED <<circuit, events>>
      BY <1>1 DEF Submit, nodeVars
    <2>2. [client EXCEPT ![c] = "open"] \in ClientType
      BY Updated DEF Others, ClientType
    <2> QED BY <2>1, <2>2 DEF Others
  <1>2. ASSUME NEW c \in Clients, Leave(c) PROVE Others'
    <2> DEFINE k == IF client[c] = "open" THEN "left" ELSE client[c]
    <2>1. client' = [client EXCEPT ![c] = k] /\ UNCHANGED <<circuit, events>>
      BY <1>2 DEF Leave, nodeVars
    <2>2. k \in {"new", "open", "left", "answered"}
      BY DEF Others, Circuits, CircuitType, ClientType
    <2> HIDE DEF k
    <2>3. [client EXCEPT ![c] = k] \in ClientType
      BY <2>2, Updated DEF Others, ClientType
    <2> QED BY <2>1, <2>3 DEF Others
  <1>3. Happens => events' \in 0..MaxEvents
    BY ForwardingAssumption, SMT DEF Happens, Others
  <1>4. \A n, m \in Nodes, x \in Circuits :
           [circuit EXCEPT ![n][m] = x] \in CircuitType
    BY CircuitTyped
  <1>5. ASSUME NEW n \in Nodes, NEW m \in Nodes,
               Gossip(n, m) \/ GossipSent(n, m) \/ Stale(n, m) \/ Elapse(n, m)
        PROVE  Others'
    <2>1. CASE Gossip(n, m) \/ Stale(n, m)
      BY <1>3, <2>1 DEF Gossip, Stale, Others
    <2>2. CASE GossipSent(n, m) \/ Elapse(n, m)
      <3>1. /\ Happens /\ UNCHANGED client
            /\ \E x \in {"closed", "open", "due"} : circuit' = [circuit EXCEPT ![n][m] = x]
        BY <2>2 DEF GossipSent, Elapse
      <3>2. PICK x \in {"closed", "open", "due"} : circuit' = [circuit EXCEPT ![n][m] = x]
        BY <3>1
      <3>3. x \in Circuits
        BY DEF Circuits
      <3>4. circuit' \in CircuitType
        BY <1>4, <3>2, <3>3
      <3> QED BY <1>3, <3>1, <3>4 DEF Others
    <2> QED BY <1>5, <2>1, <2>2
  <1>6. ASSUME NEW n \in Nodes, Drain(n) \/ Reload(n) \/ Built(n)
        PROVE  Others'
    BY <1>3, <1>6 DEF Drain, Reload, Built, Others
  <1> QED BY <1>1, <1>2, <1>5, <1>6 DEF Environment

LEMMA OthersStep == Others /\ [Next]_vars => Others'
  <1> SUFFICES ASSUME Others, [Next]_vars PROVE Others'
    OBVIOUS
  <1>1. CASE UNCHANGED vars
    BY <1>1 DEF vars, nodeVars, Others
  <1> QED BY <1>1, RouteTyped, ReceiveTyped, LocalTyped, EnvironmentTyped DEF Next, Step

----------------------------------------------------------------------------
(* The sizes of the counted sets.                                          *)

INSTANCE FiniteSetTheorems

LEMMA OneMember ==
    ASSUME NEW A, NEW B, NEW f, IsFiniteSet(A), A \ {f} = B \ {f}
    PROVE  /\ Cardinality(A) \in Nat
           /\ (f \in A <=> f \in B) => Cardinality(B) = Cardinality(A)
           /\ f \notin A /\ f \in B => Cardinality(B) = Cardinality(A) + 1
           /\ f \in A /\ f \notin B => Cardinality(A) >= 1 /\ Cardinality(B) = Cardinality(A) - 1
  <1>1. Cardinality(A) \in Nat
    BY FS_CardinalityType
  <1>2. (f \in A <=> f \in B) => A = B
    BY SMT
  <1>3. f \notin A /\ f \in B => B = A \cup {f}
    OBVIOUS
  <1>4. f \in A /\ f \notin B => B = A \ {f}
    OBVIOUS
  <1>5. f \notin A => Cardinality(A \cup {f}) = Cardinality(A) + 1
    BY FS_AddElement
  <1>6. f \in A => Cardinality(A \ {f}) = Cardinality(A) - 1 /\ Cardinality(A) >= 1
    <2>1. SUFFICES ASSUME f \in A
                   PROVE  Cardinality(A \ {f}) = Cardinality(A) - 1 /\ Cardinality(A) >= 1
      OBVIOUS
    <2>2. Cardinality(A \ {f}) = Cardinality(A) - 1 /\ IsFiniteSet(A \ {f})
      BY <2>1, FS_RemoveElement
    <2>3. Cardinality(A \ {f}) \in Nat
      BY <2>2, FS_CardinalityType
    <2> QED BY <1>1, <2>2, <2>3, SMT
  <1> QED BY <1>1, <1>2, <1>3, <1>4, <1>5, <1>6, ZenonT(30)

LEMMA SetsAreFinite ==
    ASSUME NEW fr, NEW n, NEW m
    PROVE  IsFiniteSet(Working(fr, n)) /\ IsFiniteSet(Holding(fr, n, m))
  BY ForwardingAssumption, FS_Subset DEF Working, Holding

LEMMA OthersCounted ==
    ASSUME NEW fr, NEW f, KeptBut(fr, {f}), NEW n, NEW m
    PROVE  /\ Working(frame, n) \ {f} = Working(fr, n) \ {f}
           /\ Holding(frame, n, m) \ {f} = Holding(fr, n, m) \ {f}
  BY DEF KeptBut, Steady, Working, Holding, Works, Holds

\* How the counted sets change when f joins or leaves them
LEMMA WorkingCount ==
    ASSUME NEW fr, NEW f, KeptBut(fr, {f}), CurrentCounts(frame, current), NEW n \in Nodes
    PROVE  LET A == Working(frame, n)
               B == Working(fr, n)
           IN  /\ current[n] \in Nat
               /\ (f \in A <=> f \in B) => Cardinality(B) = current[n]
               /\ f \notin A /\ f \in B => Cardinality(B) = current[n] + 1
               /\ f \in A /\ f \notin B => current[n] >= 1 /\ Cardinality(B) = current[n] - 1
  <1>1. Working(frame, n) \ {f} = Working(fr, n) \ {f}
    BY OthersCounted, ZenonT(30)
  <1>2. current[n] = Cardinality(Working(frame, n))
    BY DEF CurrentCounts
  <1>3. IsFiniteSet(Working(frame, n))
    BY SetsAreFinite
  <1> QED BY <1>1, <1>2, <1>3, OneMember, SMT

LEMMA HoldingCount ==
    ASSUME NEW fr, NEW f, KeptBut(fr, {f}), PendingCounts(frame, pending),
           NEW n \in Nodes, NEW m \in Nodes
    PROVE  LET A == Holding(frame, n, m)
               B == Holding(fr, n, m)
           IN  /\ pending[n][m] \in Nat
               /\ (f \in A <=> f \in B) => Cardinality(B) = pending[n][m]
               /\ f \notin A /\ f \in B => Cardinality(B) = pending[n][m] + 1
               /\ f \in A /\ f \notin B => pending[n][m] >= 1 /\ Cardinality(B) = pending[n][m] - 1
  <1>1. Holding(frame, n, m) \ {f} = Holding(fr, n, m) \ {f}
    BY OthersCounted, SMT
  <1>2. pending[n][m] = Cardinality(Holding(frame, n, m))
    BY DEF PendingCounts
  <1>3. IsFiniteSet(Holding(frame, n, m))
    BY SetsAreFinite
  <1> QED BY <1>1, <1>2, <1>3, OneMember

LEMMA CurrentKept ==
    ASSUME NEW fr, NEW f \in Frames, KeptBut(fr, {f}), CurrentCounts(frame, current),
           Works(fr[f]) <=> Works(frame[f]), Works(frame[f]) => fr[f].node = frame[f].node
    PROVE  CurrentCounts(fr, current)
  <1>1. \A n : f \in Working(frame, n) <=> f \in Working(fr, n)
    BY DEF Working
  <1>2. \A n \in Nodes : Cardinality(Working(fr, n)) = current[n]
    BY <1>1, WorkingCount
  <1> QED BY <1>2 DEF CurrentCounts

LEMMA CurrentBegins ==
    ASSUME NEW fr, NEW f \in Frames, KeptBut(fr, {f}), CurrentCounts(frame, current),
           ~Works(frame[f]), Works(fr[f]), fr[f].node = frame[f].node
    PROVE  CurrentCounts(fr, [current EXCEPT ![frame[f].node] = @ + 1])
  <1> DEFINE cur == [current EXCEPT ![frame[f].node] = @ + 1]
  <1>1. \A n : f \notin Working(frame, n) /\ (f \in Working(fr, n) <=> n = frame[f].node)
    BY DEF Working
  <1>2. \A n \in Nodes : Cardinality(Working(fr, n)) = IF n = frame[f].node THEN current[n] + 1
                                                       ELSE current[n]
    BY <1>1, WorkingCount
  <1>3. current \in [Nodes -> Nat]
    BY DEF CurrentCounts
  <1>4. cur \in [Nodes -> Nat]
    <2>1. frame[f].node \in Nodes => current[frame[f].node] + 1 \in Nat
      BY <1>3, SMT
    <2> QED BY <1>3, <2>1, Updated, ZenonT(30)
  <1>5. \A n \in Nodes : cur[n] = IF n = frame[f].node THEN current[n] + 1 ELSE current[n]
    BY <1>3
  <1> HIDE DEF cur
  <1>6. CurrentCounts(fr, cur)
    BY <1>2, <1>4, <1>5 DEF CurrentCounts
  <1> QED BY <1>6 DEF cur

LEMMA CurrentEnds ==
    ASSUME NEW fr, NEW f \in Frames, KeptBut(fr, {f}), CurrentCounts(frame, current),
           Works(frame[f]), ~Works(fr[f])
    PROVE  CurrentCounts(fr, DecCurrent(frame[f].node))
  <1> DEFINE cur == DecCurrent(frame[f].node)
  <1>1. \A n : f \notin Working(fr, n) /\ (f \in Working(frame, n) <=> n = frame[f].node)
    BY DEF Working
  <1>2. \A n \in Nodes : /\ n = frame[f].node => current[n] >= 1
                         /\ Cardinality(Working(fr, n)) = IF n = frame[f].node THEN current[n] - 1
                                                          ELSE current[n]
    BY <1>1, WorkingCount
  <1>3. current \in [Nodes -> Nat]
    BY DEF CurrentCounts
  <1>4. cur \in [Nodes -> Nat]
    <2>1. frame[f].node \in Nodes => SaturatingSub(current[frame[f].node], 1) \in Nat
      BY <1>3, SMT DEF SaturatingSub
    <2> QED BY <1>3, <2>1, Updated, ZenonT(30) DEF DecCurrent
  <1>5. \A n \in Nodes : cur[n] = IF n = frame[f].node THEN current[n] - 1 ELSE current[n]
    BY <1>2, <1>3 DEF DecCurrent, SaturatingSub
  <1> HIDE DEF cur
  <1>6. CurrentCounts(fr, cur)
    BY <1>2, <1>4, <1>5 DEF CurrentCounts
  <1> QED BY <1>6 DEF cur

LEMMA PendingKept ==
    ASSUME NEW fr, NEW f \in Frames, KeptBut(fr, {f}), PendingCounts(frame, pending),
           Sends(fr[f]) <=> Sends(frame[f]),
           Sends(frame[f]) => fr[f].node = frame[f].node /\ fr[f].target = frame[f].target
    PROVE  PendingCounts(fr, pending)
  <1>1. \A n, m \in Nodes : f \in Holding(frame, n, m) <=> f \in Holding(fr, n, m)
    BY ForwardingAssumption DEF Holding, Sends
  <1>2. \A n, m \in Nodes : Cardinality(Holding(fr, n, m)) = pending[n][m]
    BY <1>1, HoldingCount, ZenonT(30)
  <1> QED BY <1>2 DEF PendingCounts

LEMMA PendingBegins ==
    ASSUME NEW fr, NEW f \in Frames, KeptBut(fr, {f}), PendingCounts(frame, pending),
           ~Holds(frame[f]), Holds(fr[f]), fr[f].node = frame[f].node,
           fr[f].target = frame[f].target
    PROVE  PendingCounts(fr, [pending EXCEPT ![frame[f].node][frame[f].target] = @ + 1])
  <1> DEFINE pen == [pending EXCEPT ![frame[f].node][frame[f].target] = @ + 1]
             isOne(n, m) == n = frame[f].node /\ m = frame[f].target
  <1>1. \A n, m : f \notin Holding(frame, n, m) /\ (f \in Holding(fr, n, m) <=> isOne(n, m))
    BY DEF Holding
  <1> HIDE DEF isOne
  <1>2. ASSUME NEW n \in Nodes, NEW m \in Nodes
        PROVE  Cardinality(Holding(fr, n, m)) = IF isOne(n, m) THEN pending[n][m] + 1
                                                ELSE pending[n][m]
    BY <1>1, HoldingCount, ZenonT(30)
  <1>3. pending \in [Nodes -> [Nodes -> Nat]]
    BY DEF PendingCounts
  <1>4. pen \in [Nodes -> [Nodes -> Nat]]
    <2> DEFINE n == frame[f].node
               m == frame[f].target
    <2>1. n \in Nodes /\ m \in Nodes => pending[n][m] + 1 \in Nat
      BY <1>3, SMT
    <2> DEFINE k == pending[n][m] + 1
    <2> HIDE DEF k, n, m
    <2>2. n \in Nodes /\ m \in Nodes => k \in Nat
      BY <2>1 DEF k
    <2>3. [pending EXCEPT ![n][m] = k] \in [Nodes -> [Nodes -> Nat]]
      BY <1>3, <2>2, UpdatedTwice, ZenonT(30)
    <2> QED BY <2>3 DEF k, n, m
  <1>5. \A n, m \in Nodes : pen[n][m] = IF isOne(n, m) THEN pending[n][m] + 1 ELSE pending[n][m]
    BY <1>3 DEF isOne
  <1> HIDE DEF pen
  <1>6. PendingCounts(fr, pen)
    BY <1>2, <1>4, <1>5, ZenonT(30) DEF PendingCounts
  <1> QED BY <1>6 DEF pen

LEMMA PendingEnds ==
    ASSUME NEW fr, NEW f \in Frames, KeptBut(fr, {f}), PendingCounts(frame, pending), ~Sends(fr[f])
    PROVE  PendingCounts(fr, PendingAfter(f))
  <1> DEFINE pen == [pending EXCEPT ![frame[f].node][frame[f].target] = @ - 1]
             isOne(n, m) == n = frame[f].node /\ m = frame[f].target
  <1>1. CASE ~Sends(frame[f])
    <2>1. PendingAfter(f) = pending
      BY <1>1 DEF PendingAfter, HoldsForward, Sends, Holds
    <2> QED BY <1>1, <2>1, PendingKept
  <1>2. CASE Sends(frame[f])
    <2>1. PendingAfter(f) = pen
      BY <1>2 DEF PendingAfter, HoldsForward, Sends, Holds
    <2>2. \A n, m \in Nodes : /\ f \notin Holding(fr, n, m)
                              /\ f \in Holding(frame, n, m) <=> isOne(n, m)
      BY <1>2, ForwardingAssumption DEF Holding, Sends
    <2> HIDE DEF isOne
    <2>3. ASSUME NEW n \in Nodes, NEW m \in Nodes
          PROVE  /\ isOne(n, m) => pending[n][m] >= 1
                 /\ Cardinality(Holding(fr, n, m)) = IF isOne(n, m) THEN pending[n][m] - 1
                                                     ELSE pending[n][m]
      BY <2>2, HoldingCount, ZenonT(30)
    <2>4. pending \in [Nodes -> [Nodes -> Nat]]
      BY DEF PendingCounts
    <2>5. pen \in [Nodes -> [Nodes -> Nat]]
      <3> DEFINE n == frame[f].node
                 m == frame[f].target
      <3>1. n \in Nodes /\ m \in Nodes => pending[n][m] - 1 \in Nat
        BY <2>3, <2>4, SMT DEF isOne
      <3> DEFINE k == pending[n][m] - 1
      <3> HIDE DEF k, n, m
      <3>2. n \in Nodes /\ m \in Nodes => k \in Nat
        BY <3>1 DEF k
      <3>3. [pending EXCEPT ![n][m] = k] \in [Nodes -> [Nodes -> Nat]]
        BY <2>4, <3>2, UpdatedTwice, ZenonT(30)
      <3> QED BY <3>3 DEF k, n, m
    <2>6. \A n, m \in Nodes : pen[n][m] = IF isOne(n, m) THEN pending[n][m] - 1 ELSE pending[n][m]
      BY <2>4 DEF isOne
    <2> HIDE DEF pen
    <2>7. PendingCounts(fr, pen)
      BY <2>3, <2>5, <2>6, ZenonT(30) DEF PendingCounts
    <2> QED BY <2>1, <2>7
  <1> QED BY <1>1, <1>2

LEMMA AccountedInit == Init => Accounted
  <1> SUFFICES ASSUME Init PROVE Accounted
    OBVIOUS
  <1>1. AllProper(frame)
    BY IdleProper DEF Init, AllProper
  <1>2. \A n, m : Working(frame, n) = {} /\ Holding(frame, n, m) = {}
    BY DEF Init, Working, Holding, Works, Holds, Idle
  <1>3. Cardinality({}) = 0
    BY FS_EmptySet
  <1>4. current \in [Nodes -> Nat] /\ \A n \in Nodes : current[n] = 0
    BY DEF Init
  <1>5. pending \in [Nodes -> [Nodes -> Nat]] /\ \A n, m \in Nodes : pending[n][m] = 0
    BY DEF Init
  <1> QED BY <1>1, <1>2, <1>3, <1>4, <1>5 DEF Accounted, CurrentCounts, PendingCounts

LEMMA AccountedStep == Accounted /\ [Next]_vars => Accounted'
  <1> SUFFICES ASSUME Accounted, [Next]_vars PROVE Accounted'
    OBVIOUS
  <1>1. Recounted
    BY NextRecounts DEF Accounted
  <1>2. SUFFICES /\ AllProper(frame') /\ CurrentCounts(frame', current')
                 /\ PendingCounts(frame', pending')
    BY DEF Accounted, AllProper, CurrentCounts, PendingCounts, Working, Holding
  <1>3. CASE /\ AllProper(frame') /\ (\A h \in Frames : Steady(frame[h], frame'[h]))
             /\ UNCHANGED <<current, pending>>
    <2>1. \A n, m : /\ Working(frame', n) = Working(frame, n)
                    /\ Holding(frame', n, m) = Holding(frame, n, m)
      BY <1>3, SMT DEF Working, Holding, Steady, Works, Holds
    <2> QED BY <1>3, <2>1 DEF Accounted, CurrentCounts, PendingCounts
  <1>4. ASSUME NEW f \in Frames, Recounts(f)
        PROVE  /\ AllProper(frame') /\ CurrentCounts(frame', current')
               /\ PendingCounts(frame', pending')
    <2>1. KeptBut(frame', {f}) /\ AllProper(frame')
      BY <1>4 DEF Recounts, KeptBut
    <2>2. CurrentCounts(frame', current')
      BY <1>4, <2>1, CurrentKept, CurrentBegins, CurrentEnds, ZenonT(30)
         DEF Accounted, Recounts
    <2>3. PendingCounts(frame', pending')
      BY <1>4, <2>1, PendingKept, PendingBegins, PendingEnds, ZenonT(30)
         DEF Accounted, Recounts
    <2> QED BY <2>1, <2>2, <2>3
  <1> QED BY <1>1, <1>3, <1>4 DEF Recounted

\* Together they say what RequestsAreAccounted says
LEMMA AccountsAreExact == AInv => RequestsAreAccounted
  <1> SUFFICES ASSUME Accounted, Others PROVE RequestsAreAccounted
    BY DEF AInv
  <1>1. \A f \in Frames : Proper(frame[f]) /\ frame[f] \in FrameType
    BY FrameFacts DEF Accounted
  <1>2. ASSUME NEW n \in Nodes PROVE current[n] \in 0..Cardinality(Frames)
    <2>1. Working(frame, n) \subseteq Frames
      BY DEF Working
    <2>2. Cardinality(Working(frame, n)) <= Cardinality(Frames) /\ IsFiniteSet(Working(frame, n))
      BY <2>1, ForwardingAssumption, FS_Subset
    <2>3. Cardinality(Working(frame, n)) \in Nat /\ Cardinality(Frames) \in Nat
      BY <2>2, ForwardingAssumption, FS_CardinalityType
    <2>4. current[n] = Cardinality(Working(frame, n))
      BY DEF Accounted, CurrentCounts
    <2> QED BY <2>2, <2>3, <2>4, SMT
  <1>3. TypeOK
    BY <1>1, <1>2 DEF TypeOK, Others, Circuits, CircuitType, ClientType
  <1>4. CountsMatchFrames
    BY DEF Accounted, CurrentCounts, PendingCounts, Working, Holding, Works, Holds,
           CountsMatchFrames
  <1>5. ErrorsCountedWhereMade
    BY <1>1 DEF Proper, Tallied, ErrorsCountedWhereMade
  <1> QED BY <1>3, <1>4, <1>5 DEF RequestsAreAccounted

\* On every path out of route_request RequestGuard, PeerForwardGuard and the
\* cleanups of responses give back what was counted, once: current_requests is
\* the number of requests a node works on, peer_pending_forwards the number it
\* has with each peer, and an error is counted once, by the node that made it.
THEOREM RequestsStayAccounted == Spec => []RequestsAreAccounted
  <1>1. Init => AInv
    BY AccountedInit, OthersInit DEF AInv
  <1>2. AInv /\ [Next]_vars => AInv'
    BY AccountedStep, OthersStep DEF AInv
  <1> QED BY <1>1, <1>2, AccountsAreExact, PTL DEF Spec

============================================================================
