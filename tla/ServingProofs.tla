--------------------------- MODULE ServingProofs ---------------------------
(***************************************************************************)
(* Proofs about Serving, for any number of connections and any settings:    *)
(* what the process has waited for when it exits, what its drain            *)
(* announcement stands for, what the HTTP/2 watchdog leaves alone, and that *)
(* either side takes from a connection what the other sent.                 *)
(*                                                                         *)
(* AdmittedRequestsAreAwaited is not inductive: it says nothing before      *)
(* is_idle answered.  The strengthening says, of every state, where a       *)
(* counted request can be and that a served one is counted, and that a node *)
(* which has left its accept loop is draining, so that routing_preflight    *)
(* refuses whatever is counted after is_idle looked.                        *)
(*                                                                         *)
(* StreamsAreNotCut needs that whoever is being served holds a guard, and   *)
(* that without guards, and with every dropped one touched, the watchdog's   *)
(* idle time is within the quiet time.                                      *)
(*                                                                         *)
(* ReadIsWhatWasSent follows from the frames being numbered: the reader of  *)
(* a body stands at a frame the writer has passed, and a body that the      *)
(* reader took for whole has had its last frame written.                    *)
(***************************************************************************)
EXTENDS Serving, TLAPS

\* The records have the fields that the argument is about.
Shape ==
    /\ {"pc", "subscribed", "woken"} \subseteq DOMAIN main
    /\ {"pc", "announces", "says", "sent", "told"} \subseteq DOMAIN gossip
    /\ DOMAIN conn = Conns

\* A connection that serves a routed request counts it, and one without a request does
\* not.
Good(r) ==
    /\ {"pc", "counted", "req"} \subseteq DOMAIN r
    /\ r.pc \in {"count", "serving"} => r.counted
    /\ r.counted => r.pc \in {"count", "serving", "answer", "stream"}

\* Who has left the accept loop, was woken by the shutdown or exits on a second
\* signal does so in a draining node.
DrainKnown ==
    /\ main.pc \in {"drain", "gossip", "stop", "exited"} => draining
    /\ main.woken => draining
    /\ sig # "wait" => draining

\* A round announces the drain only if the node drained when it began, and then its
\* snapshot says so.
RoundsAnnounce ==
    /\ gossip.announces => draining
    /\ gossip.announces /\ gossip.pc = "send" => gossip.says

SInv ==
    /\ Shape /\ (\A c \in Conns : Good(conn[c]))
    /\ DrainKnown /\ AdmittedRequestsAreAwaited

GInv == Shape /\ RoundsAnnounce /\ DrainIsAnnounced

\* What one connection may do: stay good, and start to be served, or to be counted
\* outside routing_preflight, only in a node that does not drain.
Calm(r, q) ==
    /\ Good(q)
    /\ q.pc = "serving" => r.pc = "serving" \/ ~draining
    /\ q.counted /\ q.pc # "count" => r.counted /\ (r.pc # "count" \/ ~draining)

CalmStep(c) ==
    /\ conn' = [conn EXCEPT ![c] = conn'[c]]
    /\ Calm(conn[c], conn'[c])
    /\ UNCHANGED nodeVars

\* The fields that say what the other streams of a connection do.
StreamFields == {"streams", "guards", "ending", "idle", "quiet"}

\* A step of another stream of the connection.
Aside(r, q) ==
    /\ DOMAIN q = DOMAIN r
    /\ \A f \in DOMAIN r : f \notin StreamFields => q[f] = r[f]

AsideStep(c) ==
    \/ \E stream \in Streams \cup {"request"} : Touch(c, stream)
    \/ \E s \in Streams : OpenStream(c, s) \/ CancelStream(c, s) \/ StreamStep(c, s)

----------------------------------------------------------------------------
LEMMA AsideStepIsAside ==
    ASSUME NEW c \in Conns, AsideStep(c)
    PROVE  \E q : Only(c, q) /\ Aside(conn[c], q)
  <1> USE DEF Aside, StreamFields
  <1>1. ASSUME NEW stream \in Streams \cup {"request"}, Touch(c, stream)
        PROVE  \E q : Only(c, q) /\ Aside(conn[c], q)
    BY <1>1 DEF Touch
  <1>2. ASSUME NEW s \in Streams, OpenStream(c, s)
        PROVE  \E q : Only(c, q) /\ Aside(conn[c], q)
    BY <1>2 DEF OpenStream, SetStream
  <1>3. ASSUME NEW s \in Streams, CancelStream(c, s)
        PROVE  \E q : Only(c, q) /\ Aside(conn[c], q)
    BY <1>3 DEF CancelStream, SetStream, Drop
  <1>4. ASSUME NEW s \in Streams, StreamStep(c, s)
        PROVE  \E q : Only(c, q) /\ Aside(conn[c], q)
    BY <1>4 DEF StreamStep, PollStream, HandlerReturns, StreamFrame, StreamEnds, SetStream,
                Hold, Drop
  <1> QED BY <1>1, <1>2, <1>3, <1>4 DEF AsideStep

LEMMA SInvInit == Init => SInv
  BY DEF Init, Fresh, SInv, Shape, Good, DrainKnown, AdmittedRequestsAreAwaited

\* A step of one connection that is calm keeps the invariant.
LEMMA CalmKeeps ==
    ASSUME SInv, NEW c \in Conns, CalmStep(c)
    PROVE  SInv'
  <1> USE DEF SInv, CalmStep, nodeVars
  <1>1. Shape'
    BY DEF Shape
  <1>2. \A d \in Conns : d # c => conn'[d] = conn[d]
    BY DEF Shape
  <1>3. \A d \in Conns : Good(conn[d])'
    BY <1>2 DEF Calm
  <1>4. DrainKnown'
    BY DEF DrainKnown
  <1>5. AdmittedRequestsAreAwaited'
    BY <1>2 DEF AdmittedRequestsAreAwaited, DrainKnown, Calm, Good
  <1> QED BY <1>1, <1>3, <1>4, <1>5

\* Only and Peer replace one connection.
LEMMA OnlyIsCalm ==
    ASSUME SInv, NEW c \in Conns, NEW r, Only(c, r) \/ Peer(c, r), Calm(conn[c], r)
    PROVE  CalmStep(c)
  <1>1. conn' = [conn EXCEPT ![c] = r] /\ UNCHANGED nodeVars
    BY Zenon DEF Only, Peer
  <1>2. conn'[c] = r
    BY <1>1 DEF SInv, Shape
  <1> QED BY <1>1, <1>2, Zenon DEF CalmStep

\* The end of a connection's task is calm.
LEMMA ClosedIsCalm ==
    ASSUME NEW r, Good(r)
    PROVE  Calm(r, Closed(r))
  BY DEF Calm, Good, Closed

\* So is a step of another stream.
LEMMA AsideIsCalm ==
    ASSUME SInv, NEW c \in Conns, AsideStep(c)
    PROVE  CalmStep(c)
  <1>1. PICK q : Only(c, q) /\ Aside(conn[c], q)
    BY AsideStepIsAside
  <1>2. Good(conn[c])
    BY DEF SInv
  <1>3. Calm(conn[c], q)
    BY <1>1, <1>2 DEF Calm, Good, Aside, StreamFields
  <1> QED BY <1>1, <1>3, OnlyIsCalm

\* Nothing a client does counts a request or has one served.
LEMMA ClientIsCalm ==
    ASSUME SInv, NEW c \in Conns, ClientStep(c)
    PROVE  CalmStep(c)
  <1> USE DEF SInv, Calm, Good
  <1>1. CASE Connect(c)
    BY <1>1, OnlyIsCalm, ClosedIsCalm DEF Connect
  <1>2. CASE SendByte(c)
    BY <1>2, OnlyIsCalm DEF SendByte
  <1>3. CASE Stall(c)
    BY <1>3, OnlyIsCalm DEF Stall
  <1>4. CASE Hangup(c)
    BY <1>4, OnlyIsCalm, Zenon DEF Hangup, Closed
  <1>5. CASE Again(c)
    BY <1>5, OnlyIsCalm DEF Again, Fresh
  <1>6. CASE Handshake(c)
    BY <1>6, OnlyIsCalm DEF Handshake
  <1>7. CASE H2cHandshake(c)
    BY <1>7, OnlyIsCalm DEF H2cHandshake
  <1>8. CASE \E kind \in Kinds : Request(c, kind)
    BY <1>8, OnlyIsCalm, Zenon DEF Request, Begin
  <1>9. CASE AsideStep(c)
    BY <1>9, AsideIsCalm
  <1> QED
    BY <1>1, <1>2, <1>3, <1>4, <1>5, <1>6, <1>7, <1>8, <1>9, Zenon DEF ClientStep, AsideStep

\* BodyArrives counts, Preflight admits unless the node drains, and a request that is
\* being answered was served before.
LEMMA TaskIsCalm ==
    ASSUME SInv, NEW c \in Conns, TaskStep(c)
    PROVE  CalmStep(c)
  <1> USE DEF SInv, Calm, Good
  <1>1. CASE CheckSpawned(c)
    BY <1>1, OnlyIsCalm, ClosedIsCalm DEF CheckSpawned
  <1>2. CASE Detect(c)
    <2> DEFINE took == Classify(Arrived(c))
               r == IF draining THEN Closed(conn[c])
                    ELSE [conn[c] EXCEPT !.pc = Handler(took), !.took = took]
    <2>1. took \in Protocols \cup {"unknown"}
      BY DEF Classify, Protocols
    <2>2. conn[c].pc = "detect" /\ took # "unknown" /\ Only(c, r)
      BY <1>2, Zenon DEF Detect
    <2>3. Handler(took) \in {"tls", "noise", "preface", "idle", "closed"}
      BY <2>1, <2>2 DEF Handler, Protocols
    <2> HIDE DEF took
    <2>4. Calm(conn[c], r)
      BY <2>2, <2>3, ClosedIsCalm
    <2> QED BY <2>2, <2>4, OnlyIsCalm, Zenon
  <1>3. CASE BodyArrives(c)
    BY <1>3, OnlyIsCalm, Zenon DEF BodyArrives
  <1>4. CASE Preflight(c)
    BY <1>4, OnlyIsCalm, Zenon DEF Preflight
  <1>5. CASE Chunk(c)
    BY <1>5, OnlyIsCalm, Zenon DEF Chunk
  <1>6. CASE BodyEnds(c)
    BY <1>6, OnlyIsCalm DEF BodyEnds
  <1>7. CASE Answered(c)
    BY <1>7, OnlyIsCalm, Zenon DEF Answered, Drop
  <1>8. CASE H2cAct(c)
    BY <1>8, OnlyIsCalm, Zenon DEF H2cAct, Closed
  <1>9. CASE NoiseHead(c)
    BY <1>9, OnlyIsCalm, Zenon DEF NoiseHead
  <1>10. CASE NoiseChunk(c)
    BY <1>10, OnlyIsCalm, Zenon DEF NoiseChunk
  <1>11. CASE NoiseEnd(c)
    BY <1>11, OnlyIsCalm, Zenon DEF NoiseEnd
  <1>12. CASE PollRequest(c)
    BY <1>12, OnlyIsCalm, Zenon DEF PollRequest, Hold, Begin
  <1>13. CASE AsideStep(c)
    BY <1>13, AsideIsCalm
  <1> QED
    BY <1>1, <1>2, <1>3, <1>4, <1>5, <1>6, <1>7, <1>8, <1>9, <1>10, <1>11, <1>12, <1>13, Zenon
       DEF TaskStep, AsideStep

\* A timeout ends the connection or answers a request that is not counted.
LEMMA TimeoutIsCalm ==
    ASSUME SInv, NEW c \in Conns, TimesOut(c)
    PROVE  CalmStep(c)
  <1> USE DEF SInv, Calm, Good
  <1>1. CASE DetectEnds(c)
    BY <1>1, OnlyIsCalm, ClosedIsCalm DEF DetectEnds
  <1>2. CASE HandshakeEnds(c)
    BY <1>2, OnlyIsCalm, ClosedIsCalm DEF HandshakeEnds
  <1>3. CASE BodyRefused(c)
    BY <1>3, OnlyIsCalm DEF BodyRefused
  <1>4. CASE HeaderTimesOut(c)
    BY <1>4, OnlyIsCalm, ClosedIsCalm DEF HeaderTimesOut
  <1> QED
    BY <1>1, <1>2, <1>3, <1>4, Zenon DEF TimesOut

\* What the peer reads concerns its own side.
LEMMA PeerIsCalm ==
    ASSUME SInv, NEW c \in Conns, PeerStep(c)
    PROVE  CalmStep(c)
  <1> USE DEF SInv, Calm, Good
  <1>1. CASE ReadFrame(c)
    BY <1>1, OnlyIsCalm, Zenon DEF ReadFrame
  <1>2. CASE ReadEof(c)
    BY <1>2, OnlyIsCalm DEF ReadEof
  <1>3. CASE ReadTimesOut(c)
    BY <1>3, OnlyIsCalm, Zenon DEF ReadTimesOut
  <1> QED
    BY <1>1, <1>2, <1>3, Zenon DEF PeerStep

\* The steps that nobody waits for.
FreeStep(c) ==
    Serve(c) \/ NoiseFails(c) \/ H2cTick(c) \/ H2cFinish(c) \/ \E s \in Streams : StreamStep(c, s)

\* Serving ends, a Noise response fails, and what the watchdog drops is counted no more.
LEMMA OthersAreCalm ==
    ASSUME SInv, NEW c \in Conns, FreeStep(c)
    PROVE  CalmStep(c)
  <1> USE DEF SInv, Calm, Good
  <1>1. CASE Serve(c)
    BY <1>1, OnlyIsCalm, Zenon DEF Serve
  <1>2. CASE NoiseFails(c)
    BY <1>2, OnlyIsCalm, ClosedIsCalm DEF NoiseFails
  <1>3. CASE H2cTick(c)
    <2> DEFINE r == [conn[c] EXCEPT !.asked = IF @ >= 0 THEN Later(@, GraceTicks) ELSE @]
               v == Decide(r)
               i == IF r.asked = -1 THEN Later(r.idle, IdleTicks) ELSE r.idle
               n == IF r.asked = -1 /\ Served(r) = {} THEN Later(r.quiet, IdleTicks) ELSE r.quiet
               q == [r EXCEPT !.verdict = v, !.idle = i, !.quiet = n]
    <2>1. Only(c, q)
      BY <1>3 DEF H2cTick
    <2>2. DOMAIN r = DOMAIN conn[c] /\ r.pc = conn[c].pc /\ r.counted = conn[c].counted
      OBVIOUS
    <2> HIDE DEF r, v, i, n
    <2>3. DOMAIN q = DOMAIN r /\ q.pc = r.pc /\ q.counted = r.counted
      BY <2>2
    <2> HIDE DEF q
    <2>4. Calm(conn[c], q)
      BY <2>2, <2>3
    <2> QED BY <2>1, <2>4, OnlyIsCalm, Zenon
  <1>4. CASE AsideStep(c)
    BY <1>4, AsideIsCalm
  <1>5. CASE H2cFinish(c)
    BY <1>5, OnlyIsCalm, ClosedIsCalm DEF H2cFinish
  <1> QED BY <1>1, <1>2, <1>3, <1>4, <1>5, Zenon DEF FreeStep, AsideStep

----------------------------------------------------------------------------
(* The steps of start_server, main and the signal listener.                *)

\* A step that leaves the connections where they were, or closes them.
LEMMA MainKeeps ==
    ASSUME SInv, draining => draining', Shape', DrainKnown',
           \A c \in Conns : \/ conn'[c] = conn[c]
                            \/ conn'[c] = Closed(conn[c])
                            \/ Good(conn'[c]) /\ ~conn'[c].counted,
           \/ main'.pc \notin {"gossip", "stop", "exited"}
           \/ late'
           \/ main.pc \in {"gossip", "stop", "exited"} /\ ~late
           \/ Counted = {} /\ conn' = conn
    PROVE  SInv'
  <1>1. ASSUME NEW c \in Conns
        PROVE  /\ Good(conn'[c])
               /\ conn'[c].counted => conn[c].counted /\ conn'[c].pc = conn[c].pc
               /\ conn'[c].pc = "serving" => conn[c].pc = "serving"
    <2>1. Good(conn[c])
      BY DEF SInv
    <2>2. CASE conn'[c] = Closed(conn[c])
      BY <2>1, <2>2 DEF Good, Closed
    <2>3. CASE Good(conn'[c]) /\ ~conn'[c].counted
      BY <2>3, Zenon DEF Good
    <2> QED BY <2>1, <2>2, <2>3, Zenon
  <1>2. AdmittedRequestsAreAwaited'
    <2>1. CASE main.pc \in {"gossip", "stop", "exited"} /\ ~late
      BY <1>1, <2>1 DEF SInv, AdmittedRequestsAreAwaited
    <2>2. CASE Counted = {} /\ conn' = conn
      BY <2>2 DEF SInv, Good, Counted, AdmittedRequestsAreAwaited
    <2> QED BY <2>1, <2>2 DEF AdmittedRequestsAreAwaited
  <1> QED BY <1>1, <1>2 DEF SInv

LEMMA SInvStep == SInv /\ [Next]_vars => SInv'
  <1> SUFFICES ASSUME SInv, [Next]_vars PROVE SInv'
      OBVIOUS
  <1> USE DEF Shape, DrainKnown, others, Main
  <1>1. ASSUME NEW c \in Conns,
               ClientStep(c) \/ TaskStep(c) \/ TimesOut(c) \/ PeerStep(c) \/ FreeStep(c)
        PROVE  SInv'
    BY <1>1, ClientIsCalm, TaskIsCalm, TimeoutIsCalm, PeerIsCalm, OthersAreCalm, CalmKeeps, Zenon
  <1>2. CASE Subscribe
    BY <1>2, MainKeeps DEF Subscribe, SInv
  <1>3. ASSUME Leave, draining PROVE SInv'
    BY <1>3, MainKeeps DEF Leave, SInv
  <1>4. CASE CheckDraining
    <2>1. CASE draining
      BY <1>3, <1>4, <2>1 DEF CheckDraining
    <2>2. CASE ~draining
      BY <1>4, <2>2, MainKeeps DEF CheckDraining, SInv
    <2> QED BY <2>1, <2>2
  <1>5. CASE Woken
    BY <1>3, <1>5 DEF Woken, SInv
  <1>6. ASSUME NEW c \in Conns, Accept(c) PROVE SInv'
    <2>1. Good(conn'[c]) /\ ~conn'[c].counted /\ (\A d \in Conns : d # c => conn'[d] = conn[d])
      BY <1>6 DEF Accept, SInv, Good
    <2> QED BY <1>6, <2>1, MainKeeps DEF Accept, SInv
  <1>7. ASSUME NEW c \in Conns, Spawn(c) PROVE SInv'
    <2>1. \A d \in Conns : \/ conn'[d] = conn[d]
                           \/ conn'[d] = Closed(conn[d])
                           \/ Good(conn'[d]) /\ ~conn'[d].counted
      BY <1>7 DEF Spawn, SInv, Good
    <2>2. /\ main' = [main EXCEPT !.pc = IF draining THEN "drain" ELSE "subscribe"]
          /\ UNCHANGED <<draining, sig, gossip>> /\ DOMAIN conn' = Conns
      BY <1>7 DEF Spawn
    <2> QED BY <2>1, <2>2, MainKeeps DEF SInv
  <1>8. CASE AcceptFails
    BY <1>8, MainKeeps DEF AcceptFails, SInv
  <1>9. CASE Drained
    BY <1>9, MainKeeps DEF Drained, SInv
  <1>10. CASE GraceElapses
    BY <1>10, MainKeeps DEF GraceElapses, SInv
  <1>11. CASE GossipHeard
    BY <1>11, MainKeeps DEF GossipHeard, SInv, AdmittedRequestsAreAwaited
  <1>12. CASE GossipWaitEnds
    BY <1>12, MainKeeps DEF GossipWaitEnds, SInv, AdmittedRequestsAreAwaited
  <1>13. CASE Stop
    BY <1>13, MainKeeps DEF Stop, Exit, SInv, AdmittedRequestsAreAwaited
  <1>14. CASE Signal
    BY <1>14 DEF Signal, SInv, AdmittedRequestsAreAwaited
  <1>15. CASE NotifyWaiters
    BY <1>15 DEF NotifyWaiters, SInv, AdmittedRequestsAreAwaited
  <1>16. CASE TriggerGossip
    BY <1>16 DEF TriggerGossip, SInv, AdmittedRequestsAreAwaited
  <1>17. CASE ForceExit
    BY <1>17, MainKeeps DEF ForceExit, Exit, SInv
  <1>18. CASE GossipStep
    BY <1>18, Zenon DEF GossipStep, GossipBegins, GossipSnapshot, GossipSent, Gossip, SInv,
                 AdmittedRequestsAreAwaited
  <1>19. CASE UNCHANGED vars
    BY <1>19 DEF vars, SInv, AdmittedRequestsAreAwaited
  <1> QED
    BY <1>1, <1>2, <1>4, <1>5, <1>6, <1>7, <1>8, <1>9, <1>10, <1>11, <1>12, <1>13, <1>14,
       <1>15, <1>16, <1>17, <1>18, <1>19, Zenon DEF Next, FreeStep, MainStep, SignalStep

----------------------------------------------------------------------------
LEMMA GInvInit == Init => GInv
  BY DEF Init, GInv, Shape, RoundsAnnounce, DrainIsAnnounced

\* The round decides what it announces before it takes its snapshot.
LEMMA GInvStep == SInv /\ SInv' /\ GInv /\ [Next]_vars => GInv'
  <1> SUFFICES ASSUME SInv, SInv', GInv, [Next]_vars PROVE GInv'
      OBVIOUS
  <1>1. Shape'
    BY DEF SInv
  <1> USE DEF GInv, Shape, RoundsAnnounce, DrainIsAnnounced
  <1>2. CASE GossipBegins
    BY <1>1, <1>2 DEF GossipBegins, Gossip
  <1>3. CASE GossipSnapshot
    BY <1>1, <1>3 DEF GossipSnapshot, Gossip
  <1>4. CASE GossipSent
    BY <1>1, <1>4, Zenon DEF GossipSent, Gossip
  <1>5. CASE GossipHeard
    BY <1>1, <1>5 DEF GossipHeard
  <1>6. CASE TriggerGossip
    BY <1>1, <1>6 DEF TriggerGossip
  <1>7. CASE UNCHANGED gossip /\ (draining => draining')
    BY <1>1, <1>7
  <1>8. ASSUME NEW c \in Conns,
               ClientStep(c) \/ TaskStep(c) \/ TimesOut(c) \/ PeerStep(c) \/ FreeStep(c)
        PROVE  UNCHANGED gossip /\ (draining => draining')
    <2>1. UNCHANGED nodeVars
      BY <1>8, ClientIsCalm, TaskIsCalm, TimeoutIsCalm, PeerIsCalm, OthersAreCalm, Zenon
         DEF CalmStep
    <2> QED BY <2>1 DEF nodeVars
  <1>9. ASSUME \/ Subscribe \/ CheckDraining \/ Woken \/ (\E c \in Conns : Accept(c) \/ Spawn(c))
               \/ Drained \/ GraceElapses \/ GossipWaitEnds \/ Stop
               \/ AcceptFails \/ Signal \/ NotifyWaiters \/ ForceExit \/ UNCHANGED vars
        PROVE  UNCHANGED gossip /\ (draining => draining')
    BY <1>9 DEF Subscribe, CheckDraining, Woken, Leave, Accept, Spawn, Drained, GraceElapses,
                GossipWaitEnds, Stop, AcceptFails, Signal, NotifyWaiters, ForceExit, vars, others
  <1> QED
    BY <1>2, <1>3, <1>4, <1>5, <1>6, <1>7, <1>8, <1>9, Zenon
       DEF Next, FreeStep, MainStep, SignalStep, GossipStep

----------------------------------------------------------------------------
(* What is read from a connection.  The frames of a response over Noise are *)
(* numbered: the head and each chunk are a frame and an empty frame, and the*)
(* end is one more empty frame.  The invariant says which numbers are on the*)
(* wire, so that an empty frame where a message should begin has the number *)
(* of the end.                                                             *)

\* How many frames the peer has read.
Frames(r) == 2 * r.got + IF r.part THEN 1 ELSE 0

Asking == {"body", "count", "serving", "warming", "answer"}

ConnTyped(r) ==
    /\ {"pc", "speaks", "arrived", "took", "req", "left", "wire", "made", "whole", "part",
        "got", "result", "verdict"} \subseteq DOMAIN r
    /\ r.pc \in Open \cup {"new", "backlog", "accepted", "spawned", "closed", "dropped"}
    /\ r.speaks \in Protocols /\ r.took \in {"none", r.speaks}
    /\ r.arrived \in 0..Len(Prefix(r.speaks))
    /\ r.req \in Kinds \cup {"none"}
    /\ r.left \in 0..MaxChunks

ReadTyped(r) ==
    /\ r.result \in {"none", "asked", "ok", "error"}
    /\ r.made \in 0..MaxChunks /\ r.got \in Nat /\ r.wire \in Seq({"frame", "empty"})
    /\ r.part \in BOOLEAN /\ r.whole \in BOOLEAN

\* A connection has one response over Noise, and when.
Phases(r) ==
    /\ r.pc \in Asking \cup {"stream"} /\ r.took = "Noise" => r.result # "none"
    /\ r.pc = "unpolled" => r.took = "Http2"
    /\ r.pc = "stream" => r.took = "Noise" /\ r.made + r.left <= MaxChunks
    /\ r.result = "none" => r.made = 0 /\ ~r.whole /\ r.wire = <<>> /\ r.got = 0 /\ ~r.part
    /\ r.result # "none" => r.pc \in Asking \cup {"stream", "idle", "closed"}
    /\ r.result # "none" /\ r.pc # "closed" => r.took = "Noise"
    /\ r.pc \in Asking => r.made = 0
    /\ r.whole => r.pc \in {"idle", "closed"}
    /\ r.verdict # "none" => r.result = "none"

\* The frame of this number begins a message.
Begins(r, n) == \E m \in 0..r.made : n = 2 * m + 1

OnWire(r) ==
    /\ r.pc \in Asking => r.wire = <<>> /\ r.got = 0 /\ ~r.part
    /\ r.pc = "stream" => Frames(r) + Len(r.wire) = 2 * (r.made + 1)
    /\ Frames(r) + Len(r.wire) <= 2 * (r.made + 1) + IF r.whole THEN 1 ELSE 0
    /\ \A j \in 1..Len(r.wire) : r.wire[j] = "frame" <=> Begins(r, Frames(r) + j)

Exact(r) == r.result = "ok" => r.whole /\ r.got = r.made + 1

Faithful(r) ==
    /\ ConnTyped(r) /\ ReadTyped(r) /\ Phases(r)
    /\ r.result = "asked" => OnWire(r)
    /\ Exact(r)

NodeTyped ==
    /\ has \in [tls : BOOLEAN, noise : BOOLEAN, cluster : BOOLEAN]
    /\ main \in [pc : {"subscribe", "check", "select", "got", "drain", "gossip", "stop", "exited"},
                 subscribed : BOOLEAN, woken : BOOLEAN]
    /\ draining \in BOOLEAN /\ late \in BOOLEAN
    /\ sig \in {"wait", "notify", "trigger", "listen"}
    /\ gossip \in [pc : {"wait", "snapshot", "send"}, announces : BOOLEAN, says : BOOLEAN,
                   trigger : BOOLEAN, sent : BOOLEAN, told : BOOLEAN]

WInv == NodeTyped /\ DOMAIN conn = Conns /\ \A c \in Conns : Faithful(conn[c])

\* What one connection does by itself.
ConnStep(c) ==
    /\ conn' = [conn EXCEPT ![c] = conn'[c]]
    /\ Faithful(conn'[c])
    /\ UNCHANGED nodeVars

\* A connection on which nothing was read or sent over Noise since.
SameBody(r, q) ==
    /\ q.made = r.made /\ q.whole = r.whole /\ q.wire = r.wire /\ q.got = r.got
    /\ q.part = r.part /\ q.result = r.result

----------------------------------------------------------------------------
LEMMA FreshIsFaithful ==
    ASSUME NEW p \in Speakers
    PROVE  Faithful(Fresh(p))
  <1>1. p \in Protocols /\ Len(Prefix(p)) \in Nat
    BY ServingAssumption DEF Protocols, Prefix
  <1> DEFINE f == Fresh(p)
  <1>2. /\ {"pc", "speaks", "arrived", "took", "req", "left", "wire", "made", "whole", "part",
             "got", "result", "verdict"} \subseteq DOMAIN f
        /\ f.pc = "new" /\ f.speaks = p /\ f.arrived = 0 /\ f.took = "none" /\ f.req = "none"
        /\ f.left = 0 /\ f.wire = <<>> /\ f.made = 0 /\ f.whole = FALSE /\ f.part = FALSE
        /\ f.got = 0 /\ f.result = "none" /\ f.verdict = "none"
    BY DEF Fresh
  <1> HIDE DEF f
  <1>3. ConnTyped(f) /\ ReadTyped(f)
    <2>1. f.part \in BOOLEAN /\ f.whole \in BOOLEAN
      BY <1>2, Zenon
    <2> QED BY <1>1, <1>2, <2>1, ServingAssumption DEF ConnTyped, ReadTyped
  <1>4. Phases(f) /\ Exact(f)
    BY <1>2 DEF Phases, Exact, Asking
  <1>5. Faithful(f)
    BY <1>2, <1>3, <1>4 DEF Faithful
  <1> QED BY <1>5 DEF f

\* A step of a connection that neither sends nor reads over Noise.
LEMMA SameBodyIsFaithful ==
    ASSUME NEW r, NEW q, Faithful(r), SameBody(r, q), ConnTyped(q), Phases(q),
           r.result = "asked" => /\ q.pc \in Asking => r.pc \in Asking
                                 /\ q.pc = "stream" => r.pc = "stream"
    PROVE  Faithful(q)
  BY DEF Faithful, SameBody, ReadTyped, OnWire, Frames, Begins, Exact

\* The end of a connection's task, with all or a part of what was sent on the wire.
LEMMA ClosedIsFaithful ==
    ASSUME NEW r, Faithful(r)
    PROVE  /\ Faithful(Closed(r))
           /\ \A n \in 0..Len(r.wire) : Faithful([Closed(r) EXCEPT !.wire = SubSeq(@, 1, n)])
  <1>1. Faithful(Closed(r))
    <2> DEFINE q == Closed(r)
    <2>1. /\ DOMAIN q = DOMAIN r /\ q.pc = "closed" /\ q.req = "none" /\ q.left = 0
          /\ q.speaks = r.speaks /\ q.arrived = 0 /\ q.took = "none" /\ q.verdict = "none"
          /\ SameBody(r, q)
      BY DEF Closed, Faithful, ConnTyped, SameBody
    <2> HIDE DEF q
    <2>2. ConnTyped(q) /\ Phases(q)
      BY <2>1, ServingAssumption DEF Faithful, ConnTyped, Phases, SameBody, Asking
    <2>3. Faithful(q)
      BY <2>1, <2>2, SameBodyIsFaithful DEF Asking
    <2> QED BY <2>3 DEF q
  <1>2. ASSUME NEW n \in 0..Len(r.wire)
        PROVE  Faithful([Closed(r) EXCEPT !.wire = SubSeq(@, 1, n)])
    <2> DEFINE q == Closed(r)
               w == SubSeq(r.wire, 1, n)
               t == [q EXCEPT !.wire = w]
    <2>1. /\ w \in Seq({"frame", "empty"}) /\ Len(w) = n /\ n <= Len(r.wire)
          /\ \A j \in 1..n : w[j] = r.wire[j]
          /\ r.wire = <<>> => w = <<>>
      BY DEF Faithful, ReadTyped
    <2>2. q.wire = r.wire /\ q.pc = "closed" /\ q.result = r.result
      BY DEF Closed, Faithful, ConnTyped
    <2> HIDE DEF q, w
    <2>3. /\ DOMAIN t = DOMAIN q /\ t.wire = w
          /\ t.pc = q.pc /\ t.speaks = q.speaks /\ t.arrived = q.arrived /\ t.took = q.took
          /\ t.req = q.req /\ t.left = q.left
          /\ t.made = q.made /\ t.whole = q.whole /\ t.part = q.part /\ t.got = q.got
          /\ t.result = q.result /\ t.verdict = q.verdict
      BY <1>1 DEF Faithful, ConnTyped
    <2> HIDE DEF t
    <2>4. ConnTyped(t) /\ ReadTyped(t) /\ Phases(t) /\ Exact(t)
      <3>1. ConnTyped(q) /\ ReadTyped(q) /\ Phases(q) /\ Exact(q)
        BY <1>1 DEF Faithful, q
      <3> QED BY <2>1, <2>2, <2>3, <3>1 DEF ConnTyped, ReadTyped, Phases, Exact
    <2>5. ASSUME r.result = "asked" PROVE OnWire(t)
      <3>1. Frames(t) = Frames(q) /\ t.pc = "closed"
        BY <2>2, <2>3 DEF Frames
      <3>2. Frames(q) \in Nat /\ q.made \in Nat /\ OnWire(q)
        BY <1>1, <2>2, <2>5 DEF Faithful, ReadTyped, Frames, q
      <3>3. \A k : Begins(t, k) = Begins(q, k)
        BY <2>3 DEF Begins
      <3>4. Frames(t) + Len(t.wire) <= 2 * (t.made + 1) + IF t.whole THEN 1 ELSE 0
        BY <2>1, <2>2, <2>3, <3>1, <3>2 DEF OnWire
      <3>5. ASSUME NEW j \in 1..Len(t.wire)
            PROVE  t.wire[j] = "frame" <=> Begins(t, Frames(t) + j)
        <4>1. j \in 1..Len(q.wire) /\ t.wire[j] = q.wire[j]
          BY <2>1, <2>2, <2>3
        <4>2. q.wire[j] = "frame" <=> Begins(q, Frames(q) + j)
          BY <3>2, <4>1 DEF OnWire
        <4> QED BY <3>1, <3>3, <4>1, <4>2, Zenon
      <3> QED BY <3>1, <3>4, <3>5 DEF OnWire, Asking
    <2>6. Faithful(t)
      BY <2>2, <2>3, <2>4, <2>5 DEF Faithful
    <2>7. [Closed(r) EXCEPT !.wire = SubSeq(@, 1, n)] = t
      BY <2>2 DEF t, q, w
    <2> QED BY <2>6, <2>7
  <1> QED BY <1>1, <1>2

\* Only and Peer replace one connection.
LEMMA OnlyIsFaithful ==
    ASSUME WInv, NEW c \in Conns, NEW r, Only(c, r) \/ Peer(c, r), Faithful(r)
    PROVE  ConnStep(c)
  <1>1. conn' = [conn EXCEPT ![c] = r] /\ UNCHANGED nodeVars
    BY Zenon DEF Only, Peer
  <1>2. conn'[c] = r
    BY <1>1 DEF WInv
  <1> QED BY <1>1, <1>2, Zenon DEF ConnStep

\* What happens on other streams is none of Noise's.
LEMMA AsideIsFaithful ==
    ASSUME WInv, NEW c \in Conns, AsideStep(c)
    PROVE  ConnStep(c)
  <1>1. PICK q : Only(c, q) /\ Aside(conn[c], q)
    BY AsideStepIsAside
  <1>2. Faithful(conn[c])
    BY DEF WInv
  <1>3. SameBody(conn[c], q) /\ ConnTyped(q) /\ Phases(q) /\ q.pc = conn[c].pc
    BY <1>1, <1>2 DEF Aside, StreamFields, Faithful, ConnTyped, Phases, SameBody
  <1>4. Faithful(q)
    BY <1>2, <1>3, SameBodyIsFaithful
  <1> QED BY <1>1, <1>4, OnlyIsFaithful

\* What a peek of n bytes shows of s.
PrefixFacts(s, n, b) ==
    /\ Len(b) = n /\ \A i \in 1..n : b[i] = s[i]
    /\ n = 4 /\ Len(s) = 4 => SubSeq(b, 1, 4) = s

LEMMA PrefixOf ==
    ASSUME NEW T, NEW s \in Seq(T), NEW n \in 1..Len(s)
    PROVE  PrefixFacts(s, n, SubSeq(s, 1, n))
  BY DEF PrefixFacts

\* However much of its prefix has arrived, a protocol is not taken for another.
LEMMA PrefixesDiffer ==
    ASSUME NEW p \in Protocols, NEW n \in 1..Len(Prefix(p))
    PROVE  Classify(SubSeq(Prefix(p), 1, n)) \in {"unknown", p}
  <1>1. CASE p = "Http"
    <2> DEFINE s == <<"P", "O", "S", "T">>
    <2>1. Prefix(p) = s
      BY <1>1 DEF Prefix
    <2>2. s \in Seq({"P", "O", "S", "T"}) /\ n \in 1..Len(s)
      BY <2>1
    <2> DEFINE b == SubSeq(s, 1, n)
    <2>3. PrefixFacts(s, n, b)
      BY <2>2, PrefixOf, Zenon
    <2>4. Classify(b) \in {"unknown", p}
      BY <1>1, <2>2, <2>3 DEF Classify, PrefixFacts
    <2> QED BY <2>1, <2>4
  <1>2. CASE p = "Http2"
    <2> DEFINE s == <<"P", "R", "I", "SP">>
    <2>1. Prefix(p) = s
      BY <1>2 DEF Prefix
    <2>2. s \in Seq({"P", "R", "I", "SP"}) /\ n \in 1..Len(s)
      BY <2>1
    <2> DEFINE b == SubSeq(s, 1, n)
    <2>3. PrefixFacts(s, n, b)
      BY <2>2, PrefixOf, Zenon
    <2>4. Classify(b) \in {"unknown", p}
      BY <1>2, <2>2, <2>3 DEF Classify, PrefixFacts, Prefix
    <2> QED BY <2>1, <2>4
  <1>3. CASE p = "Tls"
    <2> DEFINE s == <<"16", "03">>
    <2>1. Prefix(p) = s
      BY <1>3 DEF Prefix
    <2>2. s \in Seq({"16", "03"}) /\ n \in 1..Len(s)
      BY <2>1
    <2> DEFINE b == SubSeq(s, 1, n)
    <2>3. PrefixFacts(s, n, b)
      BY <2>2, PrefixOf, Zenon
    <2>4. Classify(b) \in {"unknown", p}
      BY <1>3, <2>2, <2>3 DEF Classify, PrefixFacts
    <2> QED BY <2>1, <2>4
  <1>4. CASE p = "Noise"
    <2> DEFINE s == <<"00", "20">>
    <2>1. Prefix(p) = s
      BY <1>4 DEF Prefix
    <2>2. s \in Seq({"00", "20"}) /\ n \in 1..Len(s)
      BY <2>1
    <2> DEFINE b == SubSeq(s, 1, n)
    <2>3. PrefixFacts(s, n, b)
      BY <2>2, PrefixOf, Zenon
    <2>4. Classify(b) \in {"unknown", p}
      BY <1>4, <2>2, <2>3 DEF Classify, PrefixFacts
    <2> QED BY <2>1, <2>4
  <1> QED BY <1>1, <1>2, <1>3, <1>4 DEF Protocols

\* A client sends its protocol, goes silent, leaves, comes back, or asks.
LEMMA ClientIsFaithful ==
    ASSUME WInv, NEW c \in Conns, ClientStep(c)
    PROVE  ConnStep(c)
  <1> USE DEF WInv, SameBody, ConnTyped, Phases
  <1>0. Faithful(conn[c]) /\ ConnTyped(conn[c]) /\ Phases(conn[c])
    BY DEF Faithful
  <1>00. Faithful(Closed(conn[c]))
    BY <1>0, ClosedIsFaithful
  <1>1. CASE Connect(c)
    <2> DEFINE q == [conn[c] EXCEPT !.pc = "backlog"]
    <2>1. Faithful(q)
      BY <1>1, SameBodyIsFaithful, <1>0 DEF Connect, Open, Waiting, Asking
    <2> QED BY <1>1, <1>00, <2>1, OnlyIsFaithful DEF Connect
  <1>2. CASE SendByte(c)
    <2> DEFINE q == [conn[c] EXCEPT !.arrived = @ + 1]
    <2>1. Faithful(q)
      BY <1>2, SameBodyIsFaithful, <1>0 DEF SendByte, Open, Waiting, Asking, Prefix, Protocols
    <2> QED BY <1>2, <2>1, OnlyIsFaithful DEF SendByte
  <1>3. CASE Stall(c)
    <2> DEFINE q == [conn[c] EXCEPT !.stalled = TRUE]
    <2>1. Faithful(q)
      BY <1>3, SameBodyIsFaithful, <1>0 DEF Stall
    <2> QED BY <1>3, <2>1, OnlyIsFaithful DEF Stall
  <1>4. CASE Hangup(c)
    BY <1>0, <1>4, ClosedIsFaithful, OnlyIsFaithful, Zenon DEF Hangup
  <1>5. CASE Again(c)
    BY <1>5, FreshIsFaithful, OnlyIsFaithful, Zenon DEF Again
  <1>6. CASE Handshake(c)
    <2> DEFINE q == [conn[c] EXCEPT !.pc = "idle"]
    <2>1. Faithful(q)
      BY <1>6, SameBodyIsFaithful, <1>0 DEF Handshake, Open, Waiting, Asking
    <2> QED BY <1>6, <2>1, OnlyIsFaithful DEF Handshake
  <1>7. CASE H2cHandshake(c)
    <2> DEFINE q == [conn[c] EXCEPT !.pc = "idle"]
    <2>1. Faithful(q)
      BY <1>7, SameBodyIsFaithful, <1>0 DEF H2cHandshake, Open, Waiting, Asking
    <2> QED BY <1>7, <2>1, OnlyIsFaithful DEF H2cHandshake
  <1>8. ASSUME NEW kind \in Kinds, Request(c, kind) PROVE ConnStep(c)
    <2> DEFINE u == [conn[c] EXCEPT !.pc = "unpolled", !.req = kind]
               t == [conn[c] EXCEPT !.result = IF conn[c].took = "Noise" THEN "asked" ELSE @]
               q == Begin(t, kind)
    <2>1. /\ conn[c].pc = "idle" /\ conn[c].result = "none" /\ conn[c].verdict = "none"
          /\ conn[c].took = "Http2" => Only(c, u)
          /\ conn[c].took # "Http2" => Only(c, q)
      BY <1>8 DEF Request, Polled
    <2>2. ASSUME conn[c].took = "Http2" PROVE Faithful(u)
      <3>1. SameBody(conn[c], u)
        BY <1>0
      <3>2. ConnTyped(u)
        BY <1>0, <2>1 DEF Open, Waiting
      <3>3. Phases(u) /\ u.pc = "unpolled"
        BY <1>0, <2>1, <2>2 DEF Asking
      <3> HIDE DEF u, SameBody, ConnTyped, Phases
      <3> QED BY <1>0, <3>1, <3>2, <3>3, SameBodyIsFaithful DEF Asking
    <2>3. ASSUME conn[c].took # "Http2" PROVE Faithful(q)
      <3>1. /\ DOMAIN q = DOMAIN conn[c] /\ q.pc \in {"body", "answer"}
            /\ q.req \in Kinds \cup {"none"} /\ q.speaks = conn[c].speaks
            /\ q.arrived = conn[c].arrived /\ q.took = conn[c].took /\ q.left = conn[c].left
            /\ q.wire = conn[c].wire /\ q.made = conn[c].made /\ q.whole = conn[c].whole
            /\ q.part = conn[c].part /\ q.got = conn[c].got /\ q.verdict = conn[c].verdict
            /\ q.result = IF conn[c].took = "Noise" THEN "asked" ELSE "none"
        BY <1>0, <2>1 DEF Begin
      <3> HIDE DEF q
      <3> QED BY <1>0, <2>1, <2>3, <3>1, ServingAssumption
              DEF Faithful, ReadTyped, OnWire, Frames, Begins, Exact, Open, Waiting, Asking
    <2> QED BY <2>1, <2>2, <2>3, OnlyIsFaithful
  <1>9. CASE AsideStep(c)
    BY <1>9, AsideIsFaithful
  <1> QED
    BY <1>1, <1>2, <1>3, <1>4, <1>5, <1>6, <1>7, <1>8, <1>9, Zenon DEF ClientStep, AsideStep

LEMMA Appended ==
    ASSUME NEW T, NEW s \in Seq(T), NEW x \in T, NEW y \in T, NEW d, NEW e,
           d = s \o <<x, y>>, e = s \o <<y>>
    PROVE  /\ d \in Seq(T) /\ Len(d) = Len(s) + 2
           /\ \A j \in 1..Len(s) : d[j] = s[j]
           /\ d[Len(s) + 1] = x /\ d[Len(s) + 2] = y
           /\ e \in Seq(T) /\ Len(e) = Len(s) + 1
           /\ \A j \in 1..Len(s) : e[j] = s[j]
           /\ e[Len(s) + 1] = y
  OBVIOUS

\* A message put on the wire: its frames have the next numbers.
LEMMA PutAppends ==
    ASSUME NEW r, ReadTyped(r)
    PROVE  LET w == r.wire
               d == Put(r, TRUE)
               e == Put(r, FALSE)
           IN  /\ d \in Seq({"frame", "empty"}) /\ e \in Seq({"frame", "empty"})
               /\ r.result # "asked" => d = w /\ e = w
               /\ r.result = "asked" =>
                    /\ Len(d) = Len(w) + 2 /\ Len(e) = Len(w) + 1
                    /\ \A j \in 1..Len(w) : d[j] = w[j] /\ e[j] = w[j]
                    /\ d[Len(w) + 1] = "frame" /\ d[Len(w) + 2] = "empty"
                    /\ e[Len(w) + 1] = "empty"
  <1> DEFINE w == r.wire
             d == Put(r, TRUE)
             e == Put(r, FALSE)
  <1>1. /\ w \in Seq({"frame", "empty"})
        /\ d = IF r.result = "asked" THEN w \o <<"frame", "empty">> ELSE w
        /\ e = IF r.result = "asked" THEN w \o <<"empty">> ELSE w
    BY DEF ReadTyped, Put, Message
  <1> HIDE DEF w, d, e
  <1>2. /\ d \in Seq({"frame", "empty"}) /\ e \in Seq({"frame", "empty"})
        /\ r.result # "asked" => d = w /\ e = w
        /\ r.result = "asked" =>
             /\ Len(d) = Len(w) + 2 /\ Len(e) = Len(w) + 1
             /\ \A j \in 1..Len(w) : d[j] = w[j] /\ e[j] = w[j]
             /\ d[Len(w) + 1] = "frame" /\ d[Len(w) + 2] = "empty"
             /\ e[Len(w) + 1] = "empty"
    <2>1. CASE r.result = "asked"
      <3> DEFINE T == {"frame", "empty"}
      <3>1. /\ w \in Seq(T) /\ "frame" \in T /\ "empty" \in T
            /\ d = w \o <<"frame", "empty">> /\ e = w \o <<"empty">>
        BY <1>1, <2>1
      <3>2. /\ d \in Seq(T) /\ Len(d) = Len(w) + 2
            /\ \A j \in 1..Len(w) : d[j] = w[j]
            /\ d[Len(w) + 1] = "frame" /\ d[Len(w) + 2] = "empty"
            /\ e \in Seq(T) /\ Len(e) = Len(w) + 1
            /\ \A j \in 1..Len(w) : e[j] = w[j]
            /\ e[Len(w) + 1] = "empty"
        <4> HIDE DEF T
        <4> QED BY <3>1, Appended
      <3> QED BY <2>1, <3>2, Zenon
    <2>2. CASE r.result # "asked"
      BY <1>1, <2>2
    <2> QED BY <2>1, <2>2
  <1> QED BY <1>2, Zenon DEF w, d, e

\* The number of frames after one more message.
LEMMA OneMoreMessage ==
    ASSUME NEW made \in Nat, NEW read \in Nat, NEW sent \in Nat, read + sent = 2 * (made + 1)
    PROVE  read + (sent + 2) = 2 * ((made + 1) + 1)
  OBVIOUS

\* A frame after the last message is the end.
LEMMA AfterLastMessage ==
    ASSUME NEW made \in Nat, NEW got \in Nat, NEW sent \in Nat, NEW end \in {0, 1},
           sent >= 1, got > made, 2 * got + sent <= 2 * (made + 1) + end
    PROVE  end = 1 /\ got = made + 1
  OBVIOUS

\* The head of the response is its first message.
LEMMA HeadIsFaithful ==
    ASSUME NEW r, Faithful(r), r.pc = "answer", r.took = "Noise"
    PROVE  Faithful([r EXCEPT !.pc = "stream", !.wire = Put(r, TRUE)])
  <1> DEFINE w == Put(r, TRUE)
             q == [r EXCEPT !.pc = "stream", !.wire = w]
  <1>1. /\ ConnTyped(r) /\ ReadTyped(r) /\ Phases(r) /\ Exact(r)
        /\ r.result = "asked" => OnWire(r)
    BY DEF Faithful
  <1>2. /\ w \in Seq({"frame", "empty"}) /\ (r.result # "asked" => w = r.wire)
        /\ r.result = "asked" => /\ Len(w) = Len(r.wire) + 2
                                 /\ w[Len(r.wire) + 1] = "frame" /\ w[Len(r.wire) + 2] = "empty"
    BY <1>1, PutAppends, Zenon
  <1> HIDE DEF w
  <1>3. ConnTyped(q) /\ ReadTyped(q) /\ Phases(q) /\ Exact(q)
    BY <1>1, <1>2 DEF ConnTyped, ReadTyped, Phases, Exact, Open, Waiting, Asking
  <1>4. ASSUME r.result = "asked" PROVE OnWire(q)
    <2>1. r.wire = <<>> /\ r.got = 0 /\ ~r.part /\ r.made = 0 /\ ~r.whole
      BY <1>1, <1>4 DEF OnWire, Phases, Asking
    <2>2. /\ q.wire = w /\ q.made = 0 /\ ~q.whole /\ q.pc = "stream"
          /\ q.got = 0 /\ ~q.part
      BY <1>1, <2>1 DEF ConnTyped
    <2>3. Len(w) = 2 /\ w[1] = "frame" /\ w[2] = "empty"
      BY <1>2, <1>4, <2>1
    <2> HIDE DEF q
    <2>4. Frames(q) = 0
      BY <2>2 DEF Frames
    <2>5. \A n \in {1, 2} : Begins(q, n) <=> n = 1
      BY <2>2 DEF Begins
    <2> QED BY <2>2, <2>3, <2>4, <2>5 DEF OnWire, Asking
  <1>6. q.result = r.result
    BY <1>1 DEF ConnTyped
  <1>7. Faithful(q)
    BY <1>1, <1>3, <1>4, <1>6, Zenon DEF Faithful
  <1> QED BY <1>7 DEF w

\* A chunk with data is the next message, one without data is none.
LEMMA ChunkIsFaithful ==
    ASSUME NEW r, Faithful(r), r.pc = "stream", r.left > 0, NEW data \in BOOLEAN
    PROVE  Faithful([r EXCEPT !.left = @ - 1, !.wire = IF data THEN Put(r, TRUE) ELSE @,
                              !.made = IF data THEN @ + 1 ELSE @])
  <1> DEFINE w == Put(r, TRUE)
             q == [r EXCEPT !.left = @ - 1, !.wire = IF data THEN w ELSE @,
                            !.made = IF data THEN @ + 1 ELSE @]
  <1>1. /\ ConnTyped(r) /\ ReadTyped(r) /\ Phases(r) /\ Exact(r)
        /\ r.result = "asked" => OnWire(r)
    BY DEF Faithful
  <1>2. /\ w \in Seq({"frame", "empty"}) /\ (r.result # "asked" => w = r.wire)
        /\ r.result = "asked" => /\ Len(w) = Len(r.wire) + 2
                                 /\ \A j \in 1..Len(r.wire) : w[j] = r.wire[j]
                                 /\ w[Len(r.wire) + 1] = "frame" /\ w[Len(r.wire) + 2] = "empty"
    BY <1>1, PutAppends, Zenon
  <1> HIDE DEF w
  <1>3. ConnTyped(q) /\ ReadTyped(q) /\ Phases(q) /\ Exact(q)
    BY <1>1, <1>2, ServingAssumption DEF ConnTyped, ReadTyped, Phases, Exact, Asking
  <1>4. ASSUME r.result = "asked", data PROVE OnWire(q)
    <2>1. /\ q.wire = w /\ q.made = r.made + 1 /\ q.whole = r.whole /\ q.pc = "stream"
          /\ q.got = r.got /\ q.part = r.part
      BY <1>1, <1>4 DEF ConnTyped
    <2>2. /\ r.made \in Nat /\ ~r.whole /\ Len(r.wire) \in Nat
          /\ Frames(r) \in Nat /\ Frames(q) = Frames(r)
          /\ Frames(r) + Len(r.wire) = 2 * (r.made + 1)
      BY <1>1, <1>4, <2>1 DEF OnWire, ReadTyped, Phases, Frames
    <2> HIDE DEF q
    <2>3. Frames(q) + Len(q.wire) = 2 * (q.made + 1)
      <3>1. Len(q.wire) = Len(r.wire) + 2
        BY <1>2, <1>4, <2>1
      <3>2. Frames(r) + (Len(r.wire) + 2) = 2 * ((r.made + 1) + 1)
        BY <2>2, OneMoreMessage, Zenon
      <3> QED BY <2>1, <2>2, <3>1, <3>2, Zenon
    <2>4. ASSUME NEW j \in 1..Len(q.wire)
          PROVE  q.wire[j] = "frame" <=> Begins(q, Frames(q) + j)
      <3>1. CASE j \in 1..Len(r.wire)
        <4>1. r.wire[j] = "frame" <=> Begins(r, Frames(r) + j)
          BY <1>1, <1>4, <3>1 DEF OnWire
        <4>2. Begins(r, Frames(r) + j) <=> Begins(q, Frames(q) + j)
          BY <2>1, <2>2, <3>1 DEF Begins
        <4> QED BY <1>2, <1>4, <2>1, <3>1, <4>1, <4>2
      <3>2. CASE j = Len(r.wire) + 1
        <4>1. q.wire[j] = "frame"
          BY <1>2, <1>4, <2>1, <3>2
        <4>2. Frames(q) + j = 2 * q.made + 1 /\ q.made \in 0..q.made
          BY <2>1, <2>2, <3>2
        <4> QED BY <4>1, <4>2 DEF Begins
      <3>3. CASE j = Len(r.wire) + 2
        BY <1>2, <1>4, <2>1, <2>2, <3>3 DEF Begins
      <3> QED BY <1>2, <1>4, <2>1, <2>2, <3>1, <3>2, <3>3
    <2> QED BY <2>1, <2>2, <2>3, <2>4 DEF OnWire, Asking
  <1>5. CASE ~data
    BY <1>1, <1>3, <1>5, SameBodyIsFaithful, Zenon DEF SameBody, ConnTyped
  <1>6. q.result = r.result
    BY <1>1 DEF ConnTyped
  <1>7. Faithful(q)
    BY <1>1, <1>3, <1>4, <1>5, <1>6, Zenon DEF Faithful
  <1> QED BY <1>7 DEF w

\* The end is an empty frame where a message would begin.
LEMMA EndIsFaithful ==
    ASSUME NEW r, Faithful(r), r.pc = "stream", r.left = 0
    PROVE  Faithful([r EXCEPT !.pc = "idle", !.whole = TRUE, !.wire = Put(r, FALSE)])
  <1> DEFINE w == Put(r, FALSE)
             q == [r EXCEPT !.pc = "idle", !.whole = TRUE, !.wire = w]
  <1>1. /\ ConnTyped(r) /\ ReadTyped(r) /\ Phases(r) /\ Exact(r)
        /\ r.result = "asked" => OnWire(r)
    BY DEF Faithful
  <1>2. /\ w \in Seq({"frame", "empty"}) /\ (r.result # "asked" => w = r.wire)
        /\ r.result = "asked" => /\ Len(w) = Len(r.wire) + 1
                                 /\ \A j \in 1..Len(r.wire) : w[j] = r.wire[j]
                                 /\ w[Len(r.wire) + 1] = "empty"
    BY <1>1, PutAppends, Zenon
  <1> HIDE DEF w
  <1>3. ConnTyped(q) /\ ReadTyped(q) /\ Phases(q) /\ Exact(q)
    BY <1>1, <1>2 DEF ConnTyped, ReadTyped, Phases, Exact, Open, Waiting, Asking
  <1>4. ASSUME r.result = "asked" PROVE OnWire(q)
    <2>1. /\ q.wire = w /\ q.made = r.made /\ q.whole /\ q.pc = "idle"
          /\ q.got = r.got /\ q.part = r.part
      BY <1>1 DEF ConnTyped
    <2>2. /\ r.made \in Nat /\ Len(r.wire) \in Nat
          /\ Frames(r) \in Nat /\ Frames(q) = Frames(r)
          /\ Frames(r) + Len(r.wire) = 2 * (r.made + 1)
      BY <1>1, <1>4, <2>1 DEF OnWire, ReadTyped, Frames
    <2> HIDE DEF q
    <2>3. ASSUME NEW j \in 1..Len(q.wire)
          PROVE  q.wire[j] = "frame" <=> Begins(q, Frames(q) + j)
      <3>1. CASE j \in 1..Len(r.wire)
        <4>1. r.wire[j] = "frame" <=> Begins(r, Frames(r) + j)
          BY <1>1, <1>4, <3>1 DEF OnWire
        <4>2. Begins(r, Frames(r) + j) <=> Begins(q, Frames(q) + j)
          BY <2>1, <2>2 DEF Begins
        <4> QED BY <1>2, <1>4, <2>1, <3>1, <4>1, <4>2
      <3>2. CASE j = Len(r.wire) + 1
        BY <1>2, <1>4, <2>1, <2>2, <3>2 DEF Begins
      <3> QED BY <1>2, <1>4, <2>1, <2>2, <3>1, <3>2
    <2> QED BY <1>2, <1>4, <2>1, <2>2, <2>3 DEF OnWire, Asking
  <1>6. q.result = r.result
    BY <1>1 DEF ConnTyped
  <1>7. Faithful(q)
    BY <1>1, <1>3, <1>4, <1>6, Zenon DEF Faithful
  <1> QED BY <1>7 DEF w

\* A handler finds its protocol, reads the request, counts it, serves it and answers;
\* over Noise it numbers the frames it sends.
LEMMA TaskIsFaithful ==
    ASSUME WInv, NEW c \in Conns, TaskStep(c)
    PROVE  ConnStep(c)
  <1> USE DEF WInv, SameBody, ConnTyped, Phases
  <1>0. Faithful(conn[c]) /\ ConnTyped(conn[c]) /\ Phases(conn[c])
    BY DEF Faithful
  <1>00. Faithful(Closed(conn[c]))
    BY <1>0, ClosedIsFaithful
  <1>1. CASE CheckSpawned(c)
    <2> DEFINE q == [conn[c] EXCEPT !.pc = "detect"]
    <2>1. Faithful(q)
      BY <1>1, SameBodyIsFaithful, <1>0 DEF CheckSpawned, Open, Waiting, Asking
    <2> QED BY <1>1, <1>00, <2>1, OnlyIsFaithful DEF CheckSpawned
  <1>2. CASE Detect(c)
    <2> DEFINE p == conn[c].speaks
               took == Classify(Arrived(c))
               q == [conn[c] EXCEPT !.pc = Handler(took), !.took = took]
    <2>1. p \in Protocols /\ conn[c].arrived \in 1..Len(Prefix(p))
      BY <1>0, <1>2 DEF Detect
    <2>2. /\ took \in {"unknown", p} /\ took # "unknown"
          /\ conn[c].pc = "detect" /\ Only(c, IF draining THEN Closed(conn[c]) ELSE q)
      BY <1>2, <2>1, PrefixesDiffer, Zenon DEF Detect, Arrived
    <2>3. took = p
      BY <2>2
    <2>4. Handler(took) \in {"tls", "noise", "preface", "idle", "closed"}
      BY <2>1, <2>3 DEF Handler, Protocols
    <2> HIDE DEF took
    <2>5. Faithful(q)
      <3>1. SameBody(conn[c], q)
        BY <1>0
      <3>2. ConnTyped(q)
        BY <1>0, <2>1, <2>2, <2>3, <2>4 DEF Open, Waiting
      <3>3. Phases(q)
        BY <1>0, <2>1, <2>2, <2>3, <2>4 DEF Asking
      <3>4. conn[c].result = "asked" => /\ q.pc \in Asking => conn[c].pc \in Asking
                                        /\ q.pc = "stream" => conn[c].pc = "stream"
        BY <1>0, <2>1, <2>2, <2>3, <2>4 DEF Asking
      <3> HIDE DEF q, SameBody, ConnTyped, Phases
      <3> QED BY <1>0, <3>1, <3>2, <3>3, <3>4, SameBodyIsFaithful, Zenon
    <2> QED BY <1>00, <2>2, <2>5, OnlyIsFaithful
  <1>3. CASE BodyArrives(c)
    <2> DEFINE q1 == [conn[c] EXCEPT !.pc = IF draining THEN "answer" ELSE "warming", !.req = "none"]
               q2 == [conn[c] EXCEPT !.pc = "count", !.req = "none", !.counted = TRUE]
    <2>1. Faithful(q1)
      <3>0. conn[c].pc = "body"
        BY <1>3 DEF BodyArrives
      <3>1. SameBody(conn[c], q1)
        BY <1>0
      <3>2. ConnTyped(q1)
        BY <1>0, <3>0 DEF Open, Waiting
      <3>3. Phases(q1) /\ q1.pc \in {"answer", "warming"}
        BY <1>0, <3>0 DEF Asking
      <3> HIDE DEF q1, SameBody, ConnTyped, Phases
      <3> QED BY <1>0, <3>0, <3>1, <3>2, <3>3, SameBodyIsFaithful DEF Asking
    <2>2. Faithful(q2)
      BY <1>0, <1>3, SameBodyIsFaithful, Zenon DEF BodyArrives, Open, Waiting, Asking
    <2> QED BY <1>3, <2>1, <2>2, OnlyIsFaithful DEF BodyArrives
  <1>4. CASE Preflight(c)
    <2> DEFINE q1 == [conn[c] EXCEPT !.pc = "answer", !.counted = FALSE]
               q2 == [conn[c] EXCEPT !.pc = "serving"]
    <2>1. Faithful(q1)
      BY <1>0, <1>4, SameBodyIsFaithful, Zenon DEF Preflight, Open, Waiting, Asking
    <2>2. Faithful(q2)
      BY <1>0, <1>4, SameBodyIsFaithful DEF Preflight, Open, Waiting, Asking
    <2> QED BY <1>4, <2>1, <2>2, OnlyIsFaithful DEF Preflight
  <1>5. CASE Chunk(c)
    <2> DEFINE q == [conn[c] EXCEPT !.left = @ - 1, !.idle = 0]
    <2>1. Faithful(q)
      <3>0. conn[c].pc = "answer" /\ conn[c].took # "Noise" /\ conn[c].left > 0
        BY <1>5 DEF Chunk
      <3>1. SameBody(conn[c], q)
        BY <1>0
      <3>2. ConnTyped(q)
        BY <1>0, <3>0, ServingAssumption DEF Open, Waiting
      <3>3. Phases(q)
        BY <1>0, <3>0 DEF Asking
      <3>4. conn[c].result = "asked" => /\ q.pc \in Asking => conn[c].pc \in Asking
                                        /\ q.pc = "stream" => conn[c].pc = "stream"
        BY <1>0, <3>0 DEF Asking
      <3> HIDE DEF q, SameBody, ConnTyped, Phases
      <3> QED BY <1>0, <3>1, <3>2, <3>3, <3>4, SameBodyIsFaithful, Zenon
    <2> QED BY <1>5, <2>1, OnlyIsFaithful DEF Chunk
  <1>6. CASE BodyEnds(c)
    <2> DEFINE q == [conn[c] EXCEPT !.counted = FALSE]
    <2>1. Faithful(q)
      BY <1>6, SameBodyIsFaithful, <1>0 DEF BodyEnds
    <2> QED BY <1>6, <2>1, OnlyIsFaithful DEF BodyEnds
  <1>7. CASE Answered(c)
    <2> DEFINE q == [Drop(conn[c], "request") EXCEPT !.pc = "idle"]
    <2>0. Only(c, q)
      BY <1>7 DEF Answered
    <2>1. Faithful(q)
      <3>0. conn[c].pc = "answer" /\ conn[c].took # "Noise"
        BY <1>7 DEF Answered
      <3>1. SameBody(conn[c], q)
        BY <1>0 DEF Drop
      <3>2. ConnTyped(q)
        BY <1>0, <3>0, ServingAssumption DEF Open, Waiting, Drop
      <3>3. Phases(q)
        BY <1>0, <3>0 DEF Asking, Drop
      <3>4. conn[c].result = "asked" => /\ q.pc \in Asking => conn[c].pc \in Asking
                                        /\ q.pc = "stream" => conn[c].pc = "stream"
        BY <1>0, <3>0 DEF Asking, Drop
      <3> HIDE DEF q, SameBody, ConnTyped, Phases
      <3> QED BY <1>0, <3>1, <3>2, <3>3, <3>4, SameBodyIsFaithful, Zenon
    <2> QED BY <2>0, <2>1, OnlyIsFaithful
  <1>8. CASE H2cAct(c)
    <2> DEFINE r == conn[c]
               q1 == [r EXCEPT !.asked = 0, !.idle = 0, !.quiet = 0, !.verdict = "none"]
               d == Closed(r)
               q2 == [d EXCEPT !.pc = "dropped"]
    <2>1. r.result = "none" /\ (Only(c, q1) \/ Only(c, q2))
      BY <1>0, <1>8 DEF H2cAct, Polled
    <2>2. Faithful(q1)
      <3>1. SameBody(r, q1) /\ q1.pc = r.pc
        BY <1>0
      <3>2. ConnTyped(q1) /\ Phases(q1)
        BY <1>0, <2>1
      <3> HIDE DEF q1, SameBody, ConnTyped, Phases
      <3> QED BY <1>0, <3>1, <3>2, SameBodyIsFaithful
    <2>3. Faithful(q2)
      <3>1. Faithful(d) /\ ConnTyped(d) /\ Phases(d) /\ d.result = "none" /\ d.verdict = "none"
        BY <1>0, <1>00, <2>1 DEF Faithful, Closed
      <3> HIDE DEF d
      <3>2. SameBody(d, q2) /\ q2.pc = "dropped" /\ q2.result = "none"
        BY <3>1
      <3>3. ConnTyped(q2) /\ Phases(q2)
        BY <3>1, <3>2 DEF Asking
      <3> HIDE DEF q2, SameBody, ConnTyped, Phases
      <3> QED BY <3>1, <3>2, <3>3, SameBodyIsFaithful
    <2> QED BY <2>1, <2>2, <2>3, OnlyIsFaithful
  <1>9. CASE NoiseHead(c)
    BY <1>0, <1>9, HeadIsFaithful, OnlyIsFaithful, Zenon DEF NoiseHead
  <1>10. CASE NoiseChunk(c)
    BY <1>0, <1>10, ChunkIsFaithful, OnlyIsFaithful, Zenon DEF NoiseChunk
  <1>11. CASE NoiseEnd(c)
    BY <1>0, <1>11, EndIsFaithful, OnlyIsFaithful, Zenon DEF NoiseEnd
  <1>12. CASE PollRequest(c)
    <2> DEFINE h == Hold(conn[c], "request")
               q == Begin(h, conn[c].req)
    <2>0. conn[c].pc = "unpolled" /\ Only(c, q)
      BY <1>12 DEF PollRequest
    <2>1. conn[c].result = "none"
      BY <1>0, <2>0 DEF Asking
    <2>2. /\ DOMAIN q = DOMAIN conn[c] /\ q.pc \in {"body", "answer"}
          /\ q.req \in Kinds \cup {"none"} /\ q.speaks = conn[c].speaks
          /\ q.arrived = conn[c].arrived /\ q.took = conn[c].took /\ q.left = conn[c].left
          /\ q.verdict = conn[c].verdict /\ SameBody(conn[c], q)
      BY <1>0 DEF Hold, Begin
    <2> HIDE DEF q
    <2>3. ConnTyped(q)
      BY <1>0, <2>0, <2>2 DEF Open, Waiting
    <2>4. Phases(q)
      BY <1>0, <2>0, <2>1, <2>2 DEF Asking
    <2>5. Faithful(q)
      <3> HIDE DEF q, SameBody, ConnTyped, Phases
      <3> QED BY <1>0, <2>1, <2>2, <2>3, <2>4, SameBodyIsFaithful, Zenon
    <2> QED BY <2>0, <2>5, OnlyIsFaithful
  <1>13. CASE AsideStep(c)
    BY <1>13, AsideIsFaithful
  <1> QED
    BY <1>1, <1>2, <1>3, <1>4, <1>5, <1>6, <1>7, <1>8, <1>9, <1>10, <1>11, <1>12, <1>13, Zenon
       DEF TaskStep, AsideStep

\* Nobody waits for ever, and who gives up closes or answers.
LEMMA TimeoutIsFaithful ==
    ASSUME WInv, NEW c \in Conns, TimesOut(c)
    PROVE  ConnStep(c)
  <1> USE DEF WInv, SameBody, ConnTyped, Phases
  <1>0. Faithful(conn[c]) /\ ConnTyped(conn[c]) /\ Phases(conn[c])
    BY DEF Faithful
  <1>00. Faithful(Closed(conn[c]))
    BY <1>0, ClosedIsFaithful
  <1>1. CASE DetectEnds(c) \/ HandshakeEnds(c) \/ HeaderTimesOut(c)
    BY <1>00, <1>1, OnlyIsFaithful DEF DetectEnds, HandshakeEnds, HeaderTimesOut
  <1>2. CASE BodyRefused(c)
    <2> DEFINE q == [conn[c] EXCEPT !.pc = "answer", !.req = "none"]
    <2>1. Faithful(q)
      BY <1>2, SameBodyIsFaithful, <1>0 DEF BodyRefused, Open, Waiting, Asking
    <2> QED BY <1>2, <2>1, OnlyIsFaithful DEF BodyRefused
  <1> QED BY <1>1, <1>2, Zenon DEF TimesOut

\* Reading one frame moves the numbers of the others by one.
LEMMA ShiftIsFaithful ==
    ASSUME NEW r, NEW q, ReadTyped(r), OnWire(r), r.pc \notin Asking, r.wire # <<>>,
           ConnTyped(q), ReadTyped(q), Phases(q), q.result = "asked", q.wire = Tail(r.wire),
           q.made = r.made, q.whole = r.whole, q.pc = r.pc, Frames(q) = Frames(r) + 1
    PROVE  Faithful(q)
  <1> DEFINE w == r.wire
             f == Frames(r)
             last == 2 * (r.made + 1) + IF r.whole THEN 1 ELSE 0
  <1>1. /\ w \in Seq({"frame", "empty"}) /\ Len(w) \in Nat
        /\ Len(Tail(w)) = Len(w) - 1 /\ \A j \in 1..Len(Tail(w)) : Tail(w)[j] = w[j + 1]
    BY DEF ReadTyped
  <1>2. f \in Nat /\ Frames(q) = f + 1 /\ last \in Nat
    BY DEF ReadTyped, Frames
  <1>3. /\ f + Len(w) <= last /\ (r.pc = "stream" => f + Len(w) = 2 * (r.made + 1))
        /\ \A j \in 1..Len(w) : w[j] = "frame" <=> Begins(r, f + j)
    BY DEF OnWire
  <1> HIDE DEF w, f
  <1>4. Frames(q) + Len(q.wire) = f + Len(w)
    BY <1>1, <1>2 DEF w
  <1>5. ASSUME NEW j \in 1..Len(q.wire)
        PROVE  q.wire[j] = "frame" <=> Begins(q, Frames(q) + j)
    <2>1. j + 1 \in 1..Len(w) /\ q.wire[j] = w[j + 1] /\ f + (j + 1) = Frames(q) + j
      BY <1>1, <1>2, <1>5 DEF w
    <2>2. Begins(r, f + (j + 1)) <=> Begins(q, Frames(q) + j)
      BY <2>1 DEF Begins
    <2> QED BY <1>3, <2>1, <2>2, Zenon
  <1> QED BY <1>3, <1>4, <1>5 DEF Faithful, OnWire, Exact

\* What the peer makes of the next frame: an empty frame where a message would begin
\* has the number of the end, which is sent when the body is whole.
LEMMA ReadIsFaithful ==
    ASSUME NEW r, Faithful(r), r.result = "asked", r.wire # <<>>, NEW t, t = [r EXCEPT !.wire = Tail(@)]
    PROVE  Faithful(IF Head(r.wire) = "frame" THEN [t EXCEPT !.part = TRUE]
                    ELSE IF r.part THEN [t EXCEPT !.part = FALSE, !.got = @ + 1]
                    ELSE [t EXCEPT !.result = IF r.got > 0 THEN "ok" ELSE "error"])
  <1> DEFINE w == r.wire
  <1>1. ConnTyped(r) /\ ReadTyped(r) /\ Phases(r) /\ Exact(r) /\ OnWire(r)
    BY DEF Faithful
  <1>2. /\ w \in Seq({"frame", "empty"}) /\ Tail(w) \in Seq({"frame", "empty"})
        /\ Len(w) \in Nat /\ Len(w) >= 1 /\ Len(Tail(w)) = Len(w) - 1 /\ Head(w) = w[1]
        /\ \A j \in 1..Len(Tail(w)) : j + 1 \in 1..Len(w) /\ Tail(w)[j] = w[j + 1]
    BY <1>1 DEF ReadTyped
  <1>3. /\ r.got \in Nat /\ r.made \in Nat /\ r.part \in BOOLEAN /\ r.whole \in BOOLEAN
        /\ r.pc \notin Asking /\ r.result = "asked"
        /\ r.wire[1] = "frame" <=> Begins(r, Frames(r) + 1)
    BY <1>1, <1>2 DEF ReadTyped, OnWire
  <1>4. CASE Head(w) = "frame"
    <2> DEFINE q == [t EXCEPT !.part = TRUE]
    <2>1. ~r.part
      BY <1>2, <1>3, <1>4 DEF Begins, Frames
    <2>2. /\ q.wire = Tail(w) /\ q.part = TRUE /\ q.got = r.got /\ q.result = "asked"
          /\ q.made = r.made /\ q.whole = r.whole /\ q.pc = r.pc
      BY <1>1, <1>3 DEF ConnTyped
    <2>3. Frames(q) = Frames(r) + 1
      BY <1>3, <2>1, <2>2 DEF Frames
    <2>4. ConnTyped(q) /\ ReadTyped(q) /\ Phases(q)
      BY <1>1, <1>2, <1>3 DEF ConnTyped, ReadTyped, Phases
    <2> HIDE DEF q
    <2>5. Faithful(q)
      BY <1>1, <1>3, <2>2, <2>3, <2>4, ShiftIsFaithful, Zenon
    <2> QED BY <1>4, <2>5 DEF q
  <1>5. CASE Head(w) # "frame" /\ r.part
    <2> DEFINE q == [t EXCEPT !.part = FALSE, !.got = @ + 1]
    <2>1. /\ q.wire = Tail(w) /\ q.part = FALSE /\ q.got = r.got + 1 /\ q.result = "asked"
          /\ q.made = r.made /\ q.whole = r.whole /\ q.pc = r.pc
      BY <1>1, <1>3 DEF ConnTyped
    <2>2. Frames(q) = Frames(r) + 1
      BY <1>3, <1>5, <2>1 DEF Frames
    <2>3. ConnTyped(q) /\ ReadTyped(q) /\ Phases(q)
      BY <1>1, <1>2, <1>3 DEF ConnTyped, ReadTyped, Phases
    <2> HIDE DEF q
    <2>4. Faithful(q)
      BY <1>1, <1>3, <2>1, <2>2, <2>3, ShiftIsFaithful, Zenon
    <2> QED BY <1>5, <2>4 DEF q
  <1>6. CASE Head(w) # "frame" /\ ~r.part
    <2> DEFINE q == [t EXCEPT !.result = IF r.got > 0 THEN "ok" ELSE "error"]
    <2> DEFINE end == IF r.whole THEN 1 ELSE 0
    <2>1. r.got \notin 0..r.made
      BY <1>2, <1>3, <1>6 DEF Begins, Frames
    <2>2. end \in {0, 1} /\ 2 * r.got + Len(w) <= 2 * (r.made + 1) + end
      <3>1. Frames(r) = 2 * r.got
        BY <1>3, <1>6 DEF Frames
      <3> QED BY <1>1, <3>1 DEF OnWire
    <2>3. r.whole /\ r.got = r.made + 1
      <3>1. r.got > r.made
        BY <1>3, <2>1
      <3>2. end = 1 /\ r.got = r.made + 1
        BY <1>2, <1>3, <2>2, <3>1, AfterLastMessage
      <3> QED BY <3>2
    <2>4. r.got > 0
      BY <1>3, <2>3
    <2>5. /\ q.result = "ok" /\ q.got = r.got /\ q.made = r.made /\ q.whole = r.whole
          /\ q.wire = Tail(w) /\ q.part = r.part /\ q.pc = r.pc
      BY <1>1, <2>4 DEF ConnTyped
    <2>6. ConnTyped(q) /\ ReadTyped(q) /\ Phases(q)
      BY <1>1, <1>2, <1>3, <2>4 DEF ConnTyped, ReadTyped, Phases
    <2>7. Faithful(q)
      BY <2>3, <2>5, <2>6 DEF Faithful, Exact
    <2> QED BY <1>6, <2>7
  <1> QED BY <1>4, <1>5, <1>6

LEMMA PeerIsFaithful ==
    ASSUME WInv, NEW c \in Conns, PeerStep(c)
    PROVE  ConnStep(c)
  <1> USE DEF WInv, SameBody, ConnTyped, Phases
  <1>0. Faithful(conn[c]) /\ ConnTyped(conn[c]) /\ Phases(conn[c])
    BY DEF Faithful
  <1>00. Faithful(Closed(conn[c]))
    BY <1>0, ClosedIsFaithful
  <1>1. CASE ReadFrame(c)
    <2> DEFINE t == [conn[c] EXCEPT !.wire = Tail(@)]
               q == IF Head(conn[c].wire) = "frame" THEN [t EXCEPT !.part = TRUE]
                    ELSE IF conn[c].part THEN [t EXCEPT !.part = FALSE, !.got = @ + 1]
                    ELSE [t EXCEPT !.result = IF conn[c].got > 0 THEN "ok" ELSE "error"]
    <2>1. conn[c].result = "asked" /\ conn[c].wire # <<>> /\ Peer(c, q)
      BY <1>1, Zenon DEF ReadFrame
    <2>2. Faithful(q)
      BY <1>0, <2>1, ReadIsFaithful, Zenon
    <2> HIDE DEF q
    <2> QED BY <2>1, <2>2, OnlyIsFaithful
  <1>2. CASE ReadEof(c)
    <2> DEFINE q == [conn[c] EXCEPT !.result = "error"]
    <2>1. Faithful(q)
      BY <1>0, <1>2 DEF ReadEof, Faithful, ReadTyped, Exact
    <2> QED BY <1>2, <2>1, OnlyIsFaithful DEF ReadEof
  <1>3. CASE ReadTimesOut(c)
    <2> DEFINE q == [conn[c] EXCEPT !.result = "error", !.wire = <<>>]
    <2>1. Faithful(q)
      BY <1>0, <1>3 DEF ReadTimesOut, Faithful, ReadTyped, Exact
    <2> QED BY <1>3, <2>1, OnlyIsFaithful DEF ReadTimesOut
  <1> QED BY <1>1, <1>2, <1>3, Zenon DEF PeerStep

\* Serving decides how many chunks there are; the HTTP/2 watchdog is not for Noise.
LEMMA OthersAreFaithful ==
    ASSUME WInv, NEW c \in Conns, FreeStep(c)
    PROVE  ConnStep(c)
  <1> USE DEF WInv, SameBody, ConnTyped, Phases
  <1>0. Faithful(conn[c]) /\ ConnTyped(conn[c]) /\ Phases(conn[c])
    BY DEF Faithful
  <1>00. Faithful(Closed(conn[c]))
    BY <1>0, ClosedIsFaithful
  <1>1. CASE Serve(c)
    <2>1. PICK streaming \in BOOLEAN, n \in 0..MaxChunks :
             Only(c, [conn[c] EXCEPT !.pc = "answer", !.counted = @ /\ streaming,
                                     !.left = IF streaming THEN n ELSE @])
      BY <1>1, Zenon DEF Serve
    <2> DEFINE q == [conn[c] EXCEPT !.pc = "answer", !.counted = @ /\ streaming,
                                    !.left = IF streaming THEN n ELSE @]
    <2>2. conn[c].pc \in {"serving", "warming"}
      BY <1>1, Zenon DEF Serve
    <2>3. Faithful(q)
      <3>1. SameBody(conn[c], q)
        BY <1>0
      <3>2. ConnTyped(q)
        BY <1>0, <2>2 DEF Open, Waiting
      <3>3. Phases(q)
        BY <1>0, <2>2 DEF Asking
      <3>4. q.pc \in Asking /\ conn[c].pc \in Asking /\ q.pc # "stream"
        BY <1>0, <2>2 DEF Asking
      <3> HIDE DEF q, SameBody, ConnTyped, Phases
      <3> QED BY <1>0, <3>1, <3>2, <3>3, <3>4, SameBodyIsFaithful, Zenon
    <2> QED BY <2>1, <2>3, OnlyIsFaithful
  <1>2. CASE NoiseFails(c)
    BY <1>00, <1>2, OnlyIsFaithful DEF NoiseFails
  <1>3. CASE H2cTick(c)
    <2> DEFINE r == [conn[c] EXCEPT !.asked = IF @ >= 0 THEN Later(@, GraceTicks) ELSE @]
               v == Decide(r)
               i == IF r.asked = -1 THEN Later(r.idle, IdleTicks) ELSE r.idle
               n == IF r.asked = -1 /\ Served(r) = {} THEN Later(r.quiet, IdleTicks) ELSE r.quiet
               q == [r EXCEPT !.verdict = v, !.idle = i, !.quiet = n]
    <2>1. conn[c].took = "Http2" /\ conn[c].pc \in Open /\ Only(c, q)
      BY <1>3 DEF H2cTick
    <2>2. conn[c].result = "none" /\ conn[c].pc # "stream"
      BY <1>0, <2>1 DEF Open, Waiting, Asking
    <2>3. /\ DOMAIN r = DOMAIN conn[c]
          /\ r.pc = conn[c].pc /\ r.speaks = conn[c].speaks /\ r.arrived = conn[c].arrived
          /\ r.took = conn[c].took /\ r.req = conn[c].req /\ r.left = conn[c].left
          /\ SameBody(conn[c], r)
      BY <1>0
    <2> HIDE DEF r, v, i, n
    <2>4. /\ DOMAIN q = DOMAIN conn[c]
          /\ q.pc = conn[c].pc /\ q.speaks = conn[c].speaks /\ q.arrived = conn[c].arrived
          /\ q.took = conn[c].took /\ q.req = conn[c].req /\ q.left = conn[c].left
          /\ SameBody(conn[c], q)
      BY <1>0, <2>3
    <2> HIDE DEF q
    <2>5. ConnTyped(q) /\ Phases(q)
      BY <1>0, <2>2, <2>4
    <2>6. Faithful(q)
      <3> HIDE DEF SameBody, ConnTyped, Phases
      <3> QED BY <1>0, <2>2, <2>4, <2>5, SameBodyIsFaithful, Zenon
    <2> QED BY <2>1, <2>6, OnlyIsFaithful
  <1>4. CASE AsideStep(c)
    BY <1>4, AsideIsFaithful
  <1>5. CASE H2cFinish(c)
    BY <1>00, <1>5, OnlyIsFaithful DEF H2cFinish
  <1> QED BY <1>1, <1>2, <1>3, <1>4, <1>5, Zenon DEF FreeStep, AsideStep

\* A step of one connection keeps the invariant.
LEMMA ConnStepKeeps ==
    ASSUME WInv, NEW c \in Conns, ConnStep(c)
    PROVE  WInv'
  <1>1. \A d \in Conns : d # c => conn'[d] = conn[d]
    BY DEF WInv, ConnStep
  <1>2. DOMAIN conn' = Conns /\ NodeTyped'
    BY DEF WInv, ConnStep, nodeVars, NodeTyped
  <1> QED BY <1>1, <1>2 DEF WInv, ConnStep

\* So does one of the accept loop, which moves connections on or closes them.
LEMMA MainStepKeeps ==
    ASSUME WInv, NodeTyped', DOMAIN conn' = Conns,
           \A c \in Conns : \/ conn'[c] = conn[c]
                            \/ conn'[c] = Closed(conn[c])
                            \/ /\ conn[c].pc \in {"backlog", "accepted"}
                               /\ \E pc \in {"accepted", "spawned"} :
                                     conn'[c] = [conn[c] EXCEPT !.pc = pc]
    PROVE  WInv'
  <1>1. ASSUME NEW c \in Conns PROVE Faithful(conn'[c])
    <2>1. Faithful(conn[c])
      BY DEF WInv
    <2>2. ASSUME NEW pc \in {"accepted", "spawned"}, conn[c].pc \in {"backlog", "accepted"}
          PROVE  Faithful([conn[c] EXCEPT !.pc = pc])
      BY <2>1, <2>2, SameBodyIsFaithful DEF Faithful, SameBody, ConnTyped, Phases, Asking
    <2> QED BY <2>1, <2>2, ClosedIsFaithful
  <1> QED BY <1>1 DEF WInv

LEMMA WInvInit == Init => WInv
  <1> SUFFICES ASSUME Init PROVE WInv
      OBVIOUS
  <1>1. NodeTyped
    BY ServingAssumption, Zenon DEF Init, NodeTyped
  <1>2. DOMAIN conn = Conns /\ \A c \in Conns : \E p \in Speakers : conn[c] = Fresh(p)
    BY DEF Init
  <1> QED BY <1>1, <1>2, FreshIsFaithful DEF WInv

LEMMA WInvStep == WInv /\ [Next]_vars => WInv'
  <1> SUFFICES ASSUME WInv, [Next]_vars PROVE WInv'
      OBVIOUS
  <1>0. NodeTyped /\ DOMAIN conn = Conns
    BY DEF WInv
  <1> USE DEF NodeTyped, others, Main
  <1>1. ASSUME NEW c \in Conns,
               ClientStep(c) \/ TaskStep(c) \/ TimesOut(c) \/ PeerStep(c) \/ FreeStep(c)
        PROVE  WInv'
    BY <1>1, ClientIsFaithful, TaskIsFaithful, TimeoutIsFaithful, PeerIsFaithful,
       OthersAreFaithful, ConnStepKeeps, Zenon
  <1>2. CASE Subscribe
    BY <1>0, <1>2, MainStepKeeps DEF Subscribe
  <1>3. ASSUME Leave PROVE WInv'
    <2>1. NodeTyped' /\ DOMAIN conn' = Conns
      BY <1>0, <1>3 DEF Leave
    <2>2. \A c \in Conns : conn'[c] = conn[c] \/ conn'[c] = Closed(conn[c])
      BY <1>3 DEF Leave
    <2> HIDE DEF NodeTyped
    <2> QED BY <2>1, <2>2, MainStepKeeps
  <1>4. CASE CheckDraining
    <2>1. CASE ~draining
      BY <1>0, <1>4, <2>1, MainStepKeeps DEF CheckDraining
    <2> QED BY <1>3, <1>4, <2>1 DEF CheckDraining
  <1>5. CASE Woken
    BY <1>3, <1>5 DEF Woken
  <1>6. ASSUME NEW c \in Conns, Accept(c) PROVE WInv'
    <2>1. NodeTyped' /\ DOMAIN conn' = Conns
      BY <1>0, <1>6 DEF Accept
    <2>2. /\ conn[c].pc = "backlog" /\ conn'[c] = [conn[c] EXCEPT !.pc = "accepted"]
          /\ \A d \in Conns : d # c => conn'[d] = conn[d]
      BY <1>0, <1>6 DEF Accept
    <2> HIDE DEF NodeTyped
    <2> QED BY <2>1, <2>2, MainStepKeeps
  <1>7. ASSUME NEW c \in Conns, Spawn(c) PROVE WInv'
    <2>1. NodeTyped' /\ DOMAIN conn' = Conns
      BY <1>0, <1>7 DEF Spawn
    <2>2. /\ conn[c].pc = "accepted"
          /\ \A d \in Conns : \/ conn'[d] = conn[d] \/ conn'[d] = Closed(conn[d])
                              \/ d = c /\ conn'[d] = [conn[d] EXCEPT !.pc = "spawned"]
      BY <1>7 DEF Spawn
    <2> HIDE DEF NodeTyped
    <2> QED BY <2>1, <2>2, MainStepKeeps
  <1>8. CASE Drained \/ GraceElapses \/ GossipWaitEnds \/ AcceptFails
    <2>1. NodeTyped' /\ conn' = conn
      <3>1. CASE Drained
        BY <1>0, <3>1 DEF Drained
      <3>2. CASE GraceElapses
        BY <1>0, <3>2 DEF GraceElapses
      <3>3. CASE GossipWaitEnds
        BY <1>0, <3>3 DEF GossipWaitEnds
      <3>4. CASE AcceptFails
        BY <1>0, <3>4 DEF AcceptFails
      <3> QED BY <1>8, <3>1, <3>2, <3>3, <3>4, Zenon
    <2> HIDE DEF NodeTyped
    <2> QED BY <1>0, <2>1, MainStepKeeps
  <1>9. CASE GossipHeard
    <2>1. NodeTyped' /\ conn' = conn
      BY <1>0, <1>9, Zenon DEF GossipHeard
    <2> HIDE DEF NodeTyped
    <2> QED BY <1>0, <2>1, MainStepKeeps
  <1>10. CASE Signal \/ NotifyWaiters \/ TriggerGossip
    <2>1. NodeTyped' /\ conn' = conn
      BY <1>0, <1>10, Zenon DEF Signal, NotifyWaiters, TriggerGossip
    <2> HIDE DEF NodeTyped
    <2> QED BY <1>0, <2>1, MainStepKeeps
  <1>11. CASE GossipStep
    <2>1. UNCHANGED <<has, main, conn, draining, sig, late>>
      BY <1>11 DEF GossipStep, GossipBegins, GossipSnapshot, GossipSent, Gossip
    <2>2. gossip' \in [pc : {"wait", "snapshot", "send"}, announces : BOOLEAN, says : BOOLEAN,
                       trigger : BOOLEAN, sent : BOOLEAN, told : BOOLEAN]
      <3>1. CASE GossipBegins
        BY <1>0, <3>1, Zenon DEF GossipBegins, Gossip
      <3>2. CASE GossipSnapshot
        BY <1>0, <3>2, Zenon DEF GossipSnapshot, Gossip
      <3>3. CASE GossipSent
        BY <1>0, <3>3, Zenon DEF GossipSent, Gossip
      <3> QED BY <1>11, <3>1, <3>2, <3>3 DEF GossipStep
    <2>3. NodeTyped'
      BY <1>0, <2>1, <2>2
    <2> HIDE DEF NodeTyped
    <2> QED BY <1>0, <2>1, <2>3, MainStepKeeps
  <1>12. CASE UNCHANGED vars
    BY <1>12 DEF vars, WInv
  <1>13. CASE Stop \/ ForceExit
    <2>1. DOMAIN conn' = Conns /\ \A c \in Conns : conn'[c] = Closed(conn[c])
      BY <1>13 DEF Stop, ForceExit, Exit
    <2>2. NodeTyped'
      BY <1>0, <1>13, Zenon DEF Stop, ForceExit, Exit
    <2> HIDE DEF NodeTyped
    <2> QED BY <2>1, <2>2, MainStepKeeps
  <1> QED
    BY <1>1, <1>2, <1>4, <1>5, <1>6, <1>7, <1>8, <1>9, <1>10, <1>11, <1>12, <1>13, Zenon
       DEF Next, FreeStep, MainStep, SignalStep

----------------------------------------------------------------------------
(* The streams of an HTTP/2 connection.  Whoever is being served holds a    *)
(* guard, so that the watchdog's count is of all of them; and since a guard *)
(* is dropped with a touch, a connection without guards, on which nobody is *)
(* between the two, has been idle, in the watchdog's eyes, no longer than it *)
(* has been quiet.                                                          *)

Guarded(r) ==
    /\ r.took = "Http2" /\ r.pc \in Asking => "request" \in r.guards
    /\ \A s \in Streams : r.streams[s] \in {"running", "body"} => s \in r.guards

HeldFields ==
    {"pc", "took", "idle", "asked", "streams", "guards", "ending", "verdict", "quiet"}

Held(r) ==
    /\ HeldFields \subseteq DOMAIN r
    /\ r.idle \in 0..IdleTicks /\ r.quiet \in 0..IdleTicks /\ r.asked \in -1..GraceTicks
    /\ r.streams \in [Streams -> {"none", "accepted", "running", "body"}]
    /\ r.guards \subseteq Streams \cup {"request"} /\ r.ending \subseteq Streams \cup {"request"}
    /\ r.verdict \in {"none", "ask", "drop"}
    /\ Guarded(r)
    /\ r.guards = {} /\ r.ending = {} => r.idle <= r.quiet

KInv == DOMAIN conn = Conns /\ \A c \in Conns : Held(conn[c])

\* What a step of a connection may do to its streams.
Spared(r, q) ==
    /\ Held(q)
    /\ r.verdict = "none" /\ q.verdict = "ask" => r.quiet = IdleTicks \/ r.ending # {}
    /\ r.verdict = "none" /\ q.verdict = "drop" => Served(q) = {}

SparedStep(c) ==
    /\ conn' = [conn EXCEPT ![c] = conn'[c]]
    /\ Spared(conn[c], conn'[c])

LEMMA FreshIsHeld ==
    ASSUME NEW r, NEW p \in Speakers
    PROVE  Spared(r, Fresh(p))
  <1>1. Held(Fresh(p)) /\ Fresh(p).verdict = "none"
    BY ServingAssumption DEF Fresh, Held, HeldFields, Guarded, Asking
  <1> QED BY <1>1 DEF Spared

LEMMA KInvInit == Init => KInv
  <1> SUFFICES ASSUME Init PROVE KInv
      OBVIOUS
  <1>1. DOMAIN conn = Conns /\ \A c \in Conns : \E p \in Speakers : conn[c] = Fresh(p)
    BY DEF Init
  <1> QED BY <1>1, FreshIsHeld DEF KInv, Spared

\* Only and Peer replace one connection.
LEMMA OnlyIsSpared ==
    ASSUME KInv, NEW c \in Conns, NEW q, Only(c, q) \/ Peer(c, q), Spared(conn[c], q)
    PROVE  SparedStep(c)
  <1>1. conn' = [conn EXCEPT ![c] = q]
    BY Zenon DEF Only, Peer
  <1>2. conn'[c] = q
    BY <1>1 DEF KInv
  <1> QED BY <1>1, <1>2, Zenon DEF SparedStep

\* Who is being served is counted by the watchdog.
LEMMA ServedIsGuarded ==
    ASSUME NEW r, Held(r), r.took = "Http2", r.guards = {}
    PROVE  Served(r) = {}
  BY DEF Held, Guarded, Served, Asking

SameStreams(r, q) ==
    /\ DOMAIN q = DOMAIN r /\ q.streams = r.streams /\ q.guards = r.guards /\ q.ending = r.ending
    /\ q.quiet = r.quiet /\ q.asked = r.asked /\ q.verdict = r.verdict /\ q.idle \in {r.idle, 0}

\* A step that begins and ends no stream, though it may be an activity.
LEMMA StaysHeld ==
    ASSUME NEW r, NEW q, Held(r), SameStreams(r, q),
           q.took = "Http2" /\ q.pc \in Asking => r.took = "Http2" /\ r.pc \in Asking
    PROVE  Spared(r, q)
  BY ServingAssumption DEF Spared, Held, Guarded, SameStreams

\* The end of a connection's task, and what the watchdog leaves of one it drops.
LEMMA ClosedIsSpared ==
    ASSUME NEW r, Held(r)
    PROVE  Spared(r, Closed(r)) /\ Spared(r, [Closed(r) EXCEPT !.pc = "dropped"])
  <1> DEFINE d == Closed(r)
             e == [d EXCEPT !.pc = "dropped"]
  <1>1. /\ DOMAIN d = DOMAIN r /\ d.pc = "closed" /\ d.asked = -1 /\ d.idle = 0 /\ d.quiet = 0
        /\ d.streams = [s \in Streams |-> "none"] /\ d.guards = {} /\ d.ending = {}
        /\ d.verdict = "none"
    BY DEF Closed, Held, HeldFields
  <1> HIDE DEF d
  <1>2. /\ DOMAIN e = DOMAIN d /\ e.pc = "dropped" /\ e.asked = -1 /\ e.idle = 0 /\ e.quiet = 0
        /\ e.streams = [s \in Streams |-> "none"] /\ e.guards = {} /\ e.ending = {}
        /\ e.verdict = "none"
    BY <1>1 DEF Held, HeldFields
  <1> HIDE DEF e
  <1>3. ASSUME NEW q, DOMAIN q = DOMAIN r, q.pc \in {"closed", "dropped"}, q.asked = -1, q.idle = 0,
               q.quiet = 0, q.streams = [s \in Streams |-> "none"], q.guards = {}, q.ending = {},
               q.verdict = "none"
        PROVE  Spared(r, q)
    <2>1. /\ q.streams \in [Streams -> {"none", "accepted", "running", "body"}]
          /\ \A s \in Streams : q.streams[s] = "none"
      BY <1>3
    <2>2. q.idle \in 0..IdleTicks /\ q.quiet \in 0..IdleTicks /\ q.asked \in -1..GraceTicks
      BY <1>3, ServingAssumption
    <2>3. Guarded(q)
      BY <1>3, <2>1 DEF Guarded, Asking
    <2>4. Held(q)
      BY <1>3, <2>1, <2>2, <2>3 DEF Held
    <2> QED BY <1>3, <2>4 DEF Spared
  <1>4. Spared(r, d) /\ Spared(r, e)
    BY <1>1, <1>2, <1>3
  <1> QED BY <1>4 DEF d, e

\* A stream whose handler begins holds a guard; one that ends drops it and owes a touch.
LEMMA HoldIsHeld ==
    ASSUME NEW r, NEW q, NEW s \in Streams \cup {"request"}, NEW u, Held(r), u = Hold(r, s),
           DOMAIN q = DOMAIN r, q.guards = u.guards, q.idle = u.idle, q.quiet = u.quiet,
           q.streams \in [Streams -> {"none", "accepted", "running", "body"}],
           q.ending = r.ending, q.verdict = r.verdict, q.asked = r.asked, q.took = r.took,
           q.pc \in Asking => r.pc \in Asking \/ s = "request",
           \A t \in Streams : q.streams[t] = r.streams[t] \/ t = s
    PROVE  Spared(r, q)
  <1>1. u.guards = r.guards \cup {s} /\ u.idle = 0 /\ u.quiet = 0
    BY DEF Hold, Held, HeldFields
  <1> QED BY <1>1, ServingAssumption DEF Spared, Held, Guarded

LEMMA DropIsHeld ==
    ASSUME NEW r, NEW q, NEW s \in Streams \cup {"request"}, NEW u, Held(r), u = Drop(r, s),
           DOMAIN q = DOMAIN r, q.guards = u.guards, q.ending = u.ending, q.idle = u.idle,
           q.quiet = u.quiet,
           q.streams \in [Streams -> {"none", "accepted", "running", "body"}],
           q.verdict = r.verdict, q.asked = r.asked, q.took = r.took,
           q.pc \in Asking => r.pc \in Asking /\ s # "request",
           \A t \in Streams : IF t = s THEN q.streams[t] = "none" ELSE q.streams[t] = r.streams[t]
    PROVE  Spared(r, q)
  <1>1. CASE s \in r.guards
    <2>1. /\ u.guards = r.guards \ {s} /\ u.ending = r.ending \cup {s}
          /\ u.idle = r.idle /\ u.quiet = 0
      BY <1>1 DEF Drop, Held, HeldFields
    <2> QED BY <2>1, ServingAssumption DEF Spared, Held, Guarded
  <1>2. CASE s \notin r.guards
    <2>1. u = r
      BY <1>2 DEF Drop
    <2> QED BY <1>2, <2>1 DEF Spared, Held, Guarded
  <1> QED BY <1>1, <1>2

\* The fields of a connection that SetStream, Hold and Drop leave alone.
SameButStreams(r, q) ==
    /\ DOMAIN q = DOMAIN r /\ q.pc = r.pc /\ q.took = r.took /\ q.asked = r.asked
    /\ q.verdict = r.verdict

LEMMA SetStreamFacts ==
    ASSUME NEW r, Held(r), NEW s \in Streams, NEW x \in {"none", "accepted", "running", "body"},
           NEW q, q = SetStream(r, s, x)
    PROVE  /\ SameButStreams(r, q)
           /\ q.guards = r.guards /\ q.ending = r.ending /\ q.idle = r.idle /\ q.quiet = r.quiet
           /\ q.streams \in [Streams -> {"none", "accepted", "running", "body"}]
           /\ q.streams[s] = x /\ \A t \in Streams : t # s => q.streams[t] = r.streams[t]
  BY DEF SetStream, Held, HeldFields, SameButStreams

LEMMA GuardFacts ==
    ASSUME NEW r, NEW s, NEW q, q = Hold(r, s) \/ q = Drop(r, s), HeldFields \subseteq DOMAIN r
    PROVE  SameButStreams(r, q) /\ q.streams = r.streams
  BY DEF Hold, Drop, SameButStreams, HeldFields

\* The end of another stream.
LEMMA DropOther ==
    ASSUME NEW r, Held(r), NEW s \in Streams
    PROVE  Spared(r, Drop(SetStream(r, s, "none"), s))
  <1> DEFINE t == SetStream(r, s, "none")
             u == Drop(r, s)
             d == Drop(t, s)
  <1>1. /\ SameButStreams(r, t) /\ t.guards = r.guards /\ t.ending = r.ending
        /\ t.idle = r.idle /\ t.quiet = r.quiet
        /\ t.streams \in [Streams -> {"none", "accepted", "running", "body"}]
        /\ \A x \in Streams : IF x = s THEN t.streams[x] = "none" ELSE t.streams[x] = r.streams[x]
    BY SetStreamFacts
  <1> HIDE DEF t
  <1>2. /\ SameButStreams(t, d) /\ d.streams = t.streams
        /\ d.guards = u.guards /\ d.ending = u.ending /\ d.idle = u.idle /\ d.quiet = u.quiet
    BY <1>1, GuardFacts DEF Held, HeldFields, SameButStreams, Drop
  <1> HIDE DEF d, u
  <1>3. s \in Streams \cup {"request"} /\ s # "request"
    BY ServingAssumption
  <1>4. Spared(r, d)
    BY <1>1, <1>2, <1>3, DropIsHeld DEF SameButStreams, u
  <1> QED BY <1>4 DEF d, t

\* What happens on the other streams.
LEMMA AsideIsSpared ==
    ASSUME KInv, NEW c \in Conns, AsideStep(c)
    PROVE  SparedStep(c)
  <1> DEFINE r == conn[c]
  <1>0. Held(r)
    BY DEF KInv
  <1>1. ASSUME NEW stream \in Streams \cup {"request"}, Touch(c, stream) PROVE SparedStep(c)
    <2> DEFINE q == [r EXCEPT !.ending = @ \ {stream}, !.idle = 0]
    <2>1. Only(c, q)
      BY <1>1 DEF Touch
    <2>2. /\ DOMAIN q = DOMAIN r /\ q.pc = r.pc /\ q.took = r.took /\ q.idle = 0
          /\ q.asked = r.asked /\ q.streams = r.streams /\ q.guards = r.guards /\ q.quiet = r.quiet
          /\ q.verdict = r.verdict /\ q.ending = r.ending \ {stream}
      BY <1>0 DEF Held, HeldFields
    <2> HIDE DEF q
    <2>3. Spared(r, q)
      BY <1>0, <2>2, ServingAssumption DEF Spared, Held, Guarded
    <2> QED BY <2>1, <2>3, OnlyIsSpared
  <1>2. ASSUME NEW s \in Streams, OpenStream(c, s) PROVE SparedStep(c)
    <2> DEFINE q == SetStream(r, s, "accepted")
    <2>1. Only(c, q)
      BY <1>2 DEF OpenStream
    <2>2. Spared(r, q)
      <3>1. /\ SameButStreams(r, q) /\ q.guards = r.guards /\ q.ending = r.ending
            /\ q.idle = r.idle /\ q.quiet = r.quiet
            /\ q.streams \in [Streams -> {"none", "accepted", "running", "body"}]
            /\ q.streams[s] = "accepted" /\ \A t \in Streams : t # s => q.streams[t] = r.streams[t]
        BY <1>0, SetStreamFacts
      <3> HIDE DEF q
      <3> QED BY <1>0, <3>1 DEF SameButStreams, Spared, Held, Guarded
    <2> QED BY <2>1, <2>2, OnlyIsSpared
  <1>3. ASSUME NEW s \in Streams, CancelStream(c, s) PROVE SparedStep(c)
    <2>1. Spared(r, Drop(SetStream(r, s, "none"), s))
      BY <1>0, DropOther
    <2> QED BY <1>3, <2>1, OnlyIsSpared DEF CancelStream
  <1>4. ASSUME NEW s \in Streams, PollStream(c, s) PROVE SparedStep(c)
    <2> DEFINE q == Hold(SetStream(r, s, "running"), s)
    <2>1. Spared(r, q)
      <3> DEFINE t == SetStream(r, s, "running")
                 u == Hold(r, s)
      <3>1. /\ SameButStreams(r, t) /\ t.guards = r.guards /\ t.ending = r.ending
            /\ t.streams \in [Streams -> {"none", "accepted", "running", "body"}]
            /\ \A x \in Streams : x # s => t.streams[x] = r.streams[x]
        BY <1>0, SetStreamFacts
      <3> HIDE DEF t
      <3>20. HeldFields \subseteq DOMAIN t /\ HeldFields \subseteq DOMAIN r
        BY <1>0, <3>1 DEF Held, SameButStreams
      <3>21. SameButStreams(t, q) /\ q.streams = t.streams
        BY <3>20, GuardFacts DEF t
      <3>22. q.guards = t.guards \cup {s} /\ q.ending = t.ending /\ q.idle = 0 /\ q.quiet = 0
        BY <3>20 DEF Hold, HeldFields, t
      <3>23. u.guards = r.guards \cup {s} /\ u.idle = 0 /\ u.quiet = 0
        BY <3>20 DEF Hold, HeldFields
      <3>2. /\ SameButStreams(t, q) /\ q.streams = t.streams
            /\ q.guards = u.guards /\ q.ending = t.ending /\ q.idle = u.idle /\ q.quiet = u.quiet
        BY <3>1, <3>21, <3>22, <3>23
      <3> HIDE DEF q, u
      <3> QED BY <1>0, <3>1, <3>2, HoldIsHeld DEF SameButStreams, u
    <2> QED BY <1>4, <2>1, OnlyIsSpared DEF PollStream
  <1>5. ASSUME NEW s \in Streams, HandlerReturns(c, s) PROVE SparedStep(c)
    <2> DEFINE q == SetStream(r, s, "body")
    <2>1. Only(c, q) /\ r.streams[s] = "running"
      BY <1>5 DEF HandlerReturns
    <2>2. Spared(r, q)
      <3>1. /\ SameButStreams(r, q) /\ q.guards = r.guards /\ q.ending = r.ending
            /\ q.idle = r.idle /\ q.quiet = r.quiet
            /\ q.streams \in [Streams -> {"none", "accepted", "running", "body"}]
            /\ q.streams[s] = "body" /\ \A t \in Streams : t # s => q.streams[t] = r.streams[t]
        BY <1>0, SetStreamFacts
      <3> HIDE DEF q
      <3> QED BY <1>0, <2>1, <3>1 DEF SameButStreams, Spared, Held, Guarded
    <2> QED BY <2>1, <2>2, OnlyIsSpared
  <1>6. ASSUME NEW s \in Streams, StreamFrame(c, s) PROVE SparedStep(c)
    <2> DEFINE q == [r EXCEPT !.idle = 0]
    <2>1. Spared(r, q)
      BY <1>0, StaysHeld DEF Held, HeldFields, SameStreams
    <2> QED BY <1>6, <2>1, OnlyIsSpared DEF StreamFrame
  <1>7. ASSUME NEW s \in Streams, StreamEnds(c, s) PROVE SparedStep(c)
    <2>1. Spared(r, Drop(SetStream(r, s, "none"), s))
      BY <1>0, DropOther
    <2> QED BY <1>7, <2>1, OnlyIsSpared DEF StreamEnds
  <1> QED
    BY <1>1, <1>2, <1>3, <1>4, <1>5, <1>6, <1>7, Zenon DEF AsideStep, StreamStep

LEMMA ClientIsSpared ==
    ASSUME KInv, NEW c \in Conns, ClientStep(c)
    PROVE  SparedStep(c)
  <1>0. Held(conn[c])
    BY DEF KInv
  <1>00. Spared(conn[c], Closed(conn[c]))
    BY <1>0, ClosedIsSpared
  <1>1. ASSUME NEW q, Only(c, q), Spared(conn[c], q) PROVE SparedStep(c)
    BY <1>1, OnlyIsSpared
  <1>2. CASE Connect(c)
    <2> DEFINE q == [conn[c] EXCEPT !.pc = "backlog"]
    <2>1. Spared(conn[c], q)
      BY <1>0, StaysHeld DEF Held, HeldFields, SameStreams, Asking
    <2> QED BY <1>00, <1>1, <1>2, <2>1 DEF Connect
  <1>3. CASE SendByte(c)
    <2> DEFINE q == [conn[c] EXCEPT !.arrived = @ + 1]
    <2>1. Spared(conn[c], q)
      BY <1>0, StaysHeld DEF Held, HeldFields, SameStreams
    <2> QED BY <1>1, <1>3, <2>1 DEF SendByte
  <1>4. CASE Stall(c)
    <2> DEFINE q == [conn[c] EXCEPT !.stalled = TRUE]
    <2>1. Spared(conn[c], q)
      BY <1>0, StaysHeld DEF Held, HeldFields, SameStreams
    <2> QED BY <1>1, <1>4, <2>1 DEF Stall
  <1>5. CASE Hangup(c)
    <2>1. PICK n \in 0..Len(conn[c].wire) :
             Only(c, [Closed(conn[c]) EXCEPT !.wire = SubSeq(@, 1, n)])
      BY <1>5 DEF Hangup
    <2> DEFINE d == Closed(conn[c])
               q == [d EXCEPT !.wire = SubSeq(@, 1, n)]
    <2>2. Held(d) /\ d.verdict = "none" /\ d.pc = "closed"
      BY <1>0, <1>00 DEF Spared, Closed, Held, HeldFields
    <2> HIDE DEF d
    <2>3. Spared(d, q) /\ q.verdict = "none"
      BY <2>2, StaysHeld DEF Held, HeldFields, SameStreams, Asking
    <2> HIDE DEF q
    <2>4. Spared(conn[c], q)
      BY <2>3 DEF Spared
    <2> QED BY <1>1, <2>1, <2>4 DEF d, q
  <1>6. CASE Again(c)
    BY <1>0, <1>1, <1>6, FreshIsHeld DEF Again
  <1>7. CASE Handshake(c) \/ H2cHandshake(c)
    <2> DEFINE q == [conn[c] EXCEPT !.pc = "idle"]
    <2>1. Spared(conn[c], q)
      BY <1>0, StaysHeld DEF Held, HeldFields, SameStreams, Asking
    <2> QED BY <1>1, <1>7, <2>1 DEF Handshake, H2cHandshake
  <1>8. ASSUME NEW kind \in Kinds, Request(c, kind) PROVE SparedStep(c)
    <2> DEFINE u == [conn[c] EXCEPT !.pc = "unpolled", !.req = kind]
               t == [conn[c] EXCEPT !.result = IF conn[c].took = "Noise" THEN "asked" ELSE @]
               q == Begin(t, kind)
    <2>1. IF conn[c].took = "Http2" THEN Only(c, u) ELSE Only(c, q)
      BY <1>8 DEF Request
    <2>2. Spared(conn[c], u)
      <3>1. SameStreams(conn[c], u) /\ u.pc = "unpolled"
        BY <1>0 DEF Held, HeldFields, SameStreams
      <3> HIDE DEF u
      <3> QED BY <1>0, <3>1, StaysHeld DEF Asking
    <2>3. conn[c].took # "Http2" => Spared(conn[c], q)
      <3>1. SameStreams(conn[c], q) /\ q.took = conn[c].took
        BY <1>0 DEF Held, HeldFields, SameStreams, Begin
      <3> HIDE DEF q
      <3> QED BY <1>0, <3>1, StaysHeld
    <2> QED BY <1>1, <2>1, <2>2, <2>3
  <1>9. CASE AsideStep(c)
    BY <1>9, AsideIsSpared
  <1> QED
    BY <1>2, <1>3, <1>4, <1>5, <1>6, <1>7, <1>8, <1>9, Zenon DEF ClientStep, AsideStep

\* A connection's task reads, counts and serves its request under one guard.
LEMMA TaskIsSpared ==
    ASSUME KInv, NEW c \in Conns, TaskStep(c)
    PROVE  SparedStep(c)
  <1> DEFINE r == conn[c]
  <1>0. Held(r)
    BY DEF KInv
  <1>00. Spared(r, Closed(r))
    BY <1>0, ClosedIsSpared
  <1>1. CASE CheckSpawned(c)
    <2>1. Spared(r, [r EXCEPT !.pc = "detect"])
      BY <1>0, StaysHeld DEF Held, HeldFields, SameStreams, Asking
    <2> QED BY <1>00, <1>1, <2>1, OnlyIsSpared DEF CheckSpawned
  <1>2. CASE Detect(c)
    <2> DEFINE took == Classify(Arrived(c))
               pc == Handler(took)
               q == [r EXCEPT !.pc = pc, !.took = took]
    <2>1. took \in Protocols \cup {"unknown"}
      BY DEF Classify, Protocols
    <2>2. took # "unknown" /\ Only(c, IF draining THEN Closed(r) ELSE q)
      BY <1>2, Zenon DEF Detect
    <2>3. pc \in {"tls", "noise", "preface", "idle", "closed"}
      BY <2>1, <2>2 DEF Handler, Protocols
    <2> HIDE DEF took, pc
    <2>4. SameStreams(r, q) /\ q.pc = pc
      BY <1>0 DEF Held, HeldFields, SameStreams
    <2>5. Spared(r, q)
      <3> HIDE DEF q
      <3> QED BY <1>0, <2>3, <2>4, StaysHeld DEF Asking
    <2> QED BY <1>00, <2>2, <2>5, OnlyIsSpared
  <1>3. ASSUME NEW pc \in {"answer", "warming", "count", "serving"}, NEW counted, r.pc \in Asking
        PROVE  /\ Spared(r, [r EXCEPT !.pc = pc])
               /\ Spared(r, [r EXCEPT !.pc = pc, !.req = "none"])
               /\ Spared(r, [r EXCEPT !.pc = pc, !.counted = counted])
               /\ Spared(r, [r EXCEPT !.pc = pc, !.req = "none", !.counted = counted])
    <2> DEFINE q1 == [r EXCEPT !.pc = pc]
               q2 == [r EXCEPT !.pc = pc, !.req = "none"]
               q3 == [r EXCEPT !.pc = pc, !.counted = counted]
               q4 == [r EXCEPT !.pc = pc, !.req = "none", !.counted = counted]
    <2>1. SameStreams(r, q1) /\ q1.pc = pc /\ q1.took = r.took
      BY <1>0 DEF Held, HeldFields, SameStreams
    <2>2. SameStreams(r, q2) /\ q2.pc = pc /\ q2.took = r.took
      BY <1>0 DEF Held, HeldFields, SameStreams
    <2>3. SameStreams(r, q3) /\ q3.pc = pc /\ q3.took = r.took
      BY <1>0 DEF Held, HeldFields, SameStreams
    <2>4. SameStreams(r, q4) /\ q4.pc = pc /\ q4.took = r.took
      BY <1>0 DEF Held, HeldFields, SameStreams
    <2> HIDE DEF q1, q2, q3, q4
    <2>5. Spared(r, q1) /\ Spared(r, q2) /\ Spared(r, q3) /\ Spared(r, q4)
      BY <1>0, <1>3, <2>1, <2>2, <2>3, <2>4, StaysHeld
    <2> QED BY <2>5 DEF q1, q2, q3, q4
  <1>4. CASE BodyArrives(c)
    <2>1. r.pc \in Asking
      BY <1>4 DEF BodyArrives, Asking
    <2> QED BY <1>3, <1>4, <2>1, OnlyIsSpared DEF BodyArrives
  <1>5. CASE Preflight(c)
    <2>1. r.pc \in Asking
      BY <1>5 DEF Preflight, Asking
    <2> QED BY <1>3, <1>5, <2>1, OnlyIsSpared DEF Preflight
  <1>6. CASE Chunk(c)
    <2> DEFINE q == [r EXCEPT !.left = @ - 1, !.idle = 0]
    <2>1. Spared(r, q)
      <3>1. SameStreams(r, q) /\ q.pc = r.pc /\ q.took = r.took
        BY <1>0 DEF Held, HeldFields, SameStreams
      <3> HIDE DEF q
      <3> QED BY <1>0, <3>1, StaysHeld
    <2> QED BY <1>6, <2>1, OnlyIsSpared DEF Chunk
  <1>7. CASE BodyEnds(c)
    <2>1. Spared(r, [r EXCEPT !.counted = FALSE])
      BY <1>0, StaysHeld DEF Held, HeldFields, SameStreams
    <2> QED BY <1>7, <2>1, OnlyIsSpared DEF BodyEnds
  <1>8. CASE Answered(c)
    <2> DEFINE u == Drop(r, "request")
               q == [u EXCEPT !.pc = "idle"]
    <2>1. Only(c, q)
      BY <1>8 DEF Answered
    <2>2. SameButStreams(r, u) /\ u.streams = r.streams
      BY <1>0, GuardFacts DEF Held
    <2> HIDE DEF u
    <2>3. /\ DOMAIN q = DOMAIN u /\ q.took = u.took /\ q.asked = u.asked /\ q.streams = u.streams
          /\ q.guards = u.guards /\ q.ending = u.ending /\ q.idle = u.idle /\ q.quiet = u.quiet
          /\ q.verdict = u.verdict /\ q.pc = "idle"
      BY <1>0, <2>2 DEF Held, HeldFields, SameButStreams
    <2> HIDE DEF q
    <2>4. \A t \in Streams : t # "request"
      BY ServingAssumption
    <2>5. q.streams \in [Streams -> {"none", "accepted", "running", "body"}]
      BY <1>0, <2>2, <2>3 DEF Held
    <2>6. Spared(r, q)
      BY <1>0, <2>2, <2>3, <2>4, <2>5, DropIsHeld DEF SameButStreams, Asking, u
    <2> QED BY <2>1, <2>6, OnlyIsSpared
  <1>9. CASE H2cAct(c)
    <2> DEFINE q == [r EXCEPT !.asked = 0, !.idle = 0, !.quiet = 0, !.verdict = "none"]
    <2>1. Only(c, q) \/ Only(c, [Closed(r) EXCEPT !.pc = "dropped"])
      BY <1>9 DEF H2cAct
    <2>2. /\ DOMAIN q = DOMAIN r /\ q.pc = r.pc /\ q.took = r.took /\ q.streams = r.streams
          /\ q.guards = r.guards /\ q.ending = r.ending /\ q.idle = 0 /\ q.quiet = 0
          /\ q.asked = 0 /\ q.verdict = "none"
      BY <1>0 DEF Held, HeldFields
    <2> HIDE DEF q
    <2>3. Spared(r, q)
      BY <1>0, <2>2, ServingAssumption DEF Spared, Held, Guarded
    <2> QED BY <1>0, <2>1, <2>3, ClosedIsSpared, OnlyIsSpared
  <1>10. CASE NoiseHead(c)
    <2> DEFINE w == Put(r, TRUE)
    <2> DEFINE q == [r EXCEPT !.pc = "stream", !.wire = w]
    <2>1. Spared(r, q)
      <3>1. SameStreams(r, q) /\ q.pc = "stream" /\ q.took = r.took
        BY <1>0 DEF Held, HeldFields, SameStreams
      <3> HIDE DEF q
      <3> QED BY <1>0, <3>1, StaysHeld DEF Asking
    <2> QED BY <1>10, <2>1, OnlyIsSpared DEF NoiseHead
  <1>11. CASE NoiseChunk(c)
    <2>1. PICK data \in BOOLEAN :
             Only(c, [r EXCEPT !.left = @ - 1, !.wire = IF data THEN Put(r, TRUE) ELSE @,
                               !.made = IF data THEN @ + 1 ELSE @])
      BY <1>11 DEF NoiseChunk
    <2> DEFINE q == [r EXCEPT !.left = @ - 1, !.wire = IF data THEN Put(r, TRUE) ELSE @,
                              !.made = IF data THEN @ + 1 ELSE @]
    <2>2. Spared(r, q)
      <3>1. SameStreams(r, q) /\ q.pc = r.pc /\ q.took = r.took
        BY <1>0 DEF Held, HeldFields, SameStreams
      <3> HIDE DEF q
      <3> QED BY <1>0, <3>1, StaysHeld
    <2> QED BY <2>1, <2>2, OnlyIsSpared
  <1>12. CASE NoiseEnd(c)
    <2> DEFINE w == Put(r, FALSE)
    <2> DEFINE q == [r EXCEPT !.pc = "idle", !.whole = TRUE, !.wire = w]
    <2>1. Spared(r, q)
      <3>1. SameStreams(r, q) /\ q.pc = "idle" /\ q.took = r.took
        BY <1>0 DEF Held, HeldFields, SameStreams
      <3> HIDE DEF q
      <3> QED BY <1>0, <3>1, StaysHeld DEF Asking
    <2> QED BY <1>12, <2>1, OnlyIsSpared DEF NoiseEnd
  <1>13. CASE PollRequest(c)
    <2> DEFINE u == Hold(r, "request")
               q == Begin(u, r.req)
    <2>1. Only(c, q)
      BY <1>13 DEF PollRequest
    <2>2. SameButStreams(r, u) /\ u.streams = r.streams
      BY <1>0, GuardFacts DEF Held
    <2>21. u.ending = r.ending
      BY <1>0 DEF Hold, Held, HeldFields
    <2> HIDE DEF u
    <2>3. /\ DOMAIN q = DOMAIN u /\ q.took = u.took /\ q.asked = u.asked /\ q.streams = u.streams
          /\ q.ending = u.ending /\ q.verdict = u.verdict
          /\ q.guards = u.guards /\ q.idle = u.idle /\ q.quiet = u.quiet
      BY <1>0, <2>2 DEF Held, HeldFields, SameButStreams, Begin
    <2> HIDE DEF q
    <2>4. q.streams \in [Streams -> {"none", "accepted", "running", "body"}]
      BY <1>0, <2>2, <2>3 DEF Held
    <2>5. Spared(r, q)
      BY <1>0, <2>1, <2>2, <2>21, <2>3, <2>4, HoldIsHeld DEF SameButStreams, u
    <2> QED BY <2>1, <2>5, OnlyIsSpared
  <1>14. CASE AsideStep(c)
    BY <1>14, AsideIsSpared
  <1> QED
    BY <1>1, <1>2, <1>4, <1>5, <1>6, <1>7, <1>8, <1>9, <1>10, <1>11, <1>12, <1>13, <1>14, Zenon
       DEF TaskStep, AsideStep

\* A timeout closes the connection or answers under the same guard.
LEMMA TimeoutIsSpared ==
    ASSUME KInv, NEW c \in Conns, TimesOut(c)
    PROVE  SparedStep(c)
  <1>0. Held(conn[c])
    BY DEF KInv
  <1>1. Spared(conn[c], Closed(conn[c]))
    BY <1>0, ClosedIsSpared
  <1>2. CASE BodyRefused(c)
    <2> DEFINE q == [conn[c] EXCEPT !.pc = "answer", !.req = "none"]
    <2>1. Only(c, q) /\ conn[c].pc \in Asking
      BY <1>2 DEF BodyRefused, Asking
    <2>2. SameStreams(conn[c], q) /\ q.pc = "answer" /\ q.took = conn[c].took
      BY <1>0 DEF Held, HeldFields, SameStreams
    <2> HIDE DEF q
    <2>3. Spared(conn[c], q)
      BY <1>0, <2>1, <2>2, StaysHeld
    <2> QED BY <2>1, <2>3, OnlyIsSpared
  <1> QED
    BY <1>1, <1>2, OnlyIsSpared DEF TimesOut, DetectEnds, HandshakeEnds, HeaderTimesOut

\* A peer reads on its own side.
LEMMA PeerIsSpared ==
    ASSUME KInv, NEW c \in Conns, PeerStep(c)
    PROVE  SparedStep(c)
  <1> DEFINE r == conn[c]
  <1>0. Held(r)
    BY DEF KInv
  <1>1. ASSUME NEW q, Peer(c, q), SameStreams(r, q), q.pc = r.pc, q.took = r.took
        PROVE  SparedStep(c)
    BY <1>0, <1>1, StaysHeld, OnlyIsSpared
  <1>2. CASE ReadFrame(c)
    <2> DEFINE t == [r EXCEPT !.wire = Tail(@)]
               q1 == [t EXCEPT !.part = TRUE]
               q2 == [t EXCEPT !.part = FALSE, !.got = @ + 1]
               q3 == [t EXCEPT !.result = IF r.got > 0 THEN "ok" ELSE "error"]
    <2>1. Peer(c, q1) \/ Peer(c, q2) \/ Peer(c, q3)
      BY <1>2, Zenon DEF ReadFrame
    <2>2. SameStreams(r, q1) /\ q1.pc = r.pc /\ q1.took = r.took
      BY <1>0 DEF Held, HeldFields, SameStreams
    <2>3. SameStreams(r, q2) /\ q2.pc = r.pc /\ q2.took = r.took
      BY <1>0 DEF Held, HeldFields, SameStreams
    <2>4. SameStreams(r, q3) /\ q3.pc = r.pc /\ q3.took = r.took
      BY <1>0 DEF Held, HeldFields, SameStreams
    <2> HIDE DEF q1, q2, q3
    <2> QED BY <1>1, <2>1, <2>2, <2>3, <2>4
  <1>3. CASE ReadEof(c)
    <2> DEFINE q == [r EXCEPT !.result = "error"]
    <2>1. SameStreams(r, q) /\ q.pc = r.pc /\ q.took = r.took
      BY <1>0 DEF Held, HeldFields, SameStreams
    <2> QED BY <1>1, <1>3, <2>1 DEF ReadEof
  <1>4. CASE ReadTimesOut(c)
    <2> DEFINE q == [r EXCEPT !.result = "error", !.wire = <<>>]
    <2>1. SameStreams(r, q) /\ q.pc = r.pc /\ q.took = r.took
      BY <1>0 DEF Held, HeldFields, SameStreams
    <2> QED BY <1>1, <1>4, <2>1 DEF ReadTimesOut
  <1> QED BY <1>2, <1>3, <1>4, Zenon DEF PeerStep

\* The watchdog decides against the connection when nobody is being served.
LEMMA TickIsSpared ==
    ASSUME KInv, NEW c \in Conns, H2cTick(c)
    PROVE  SparedStep(c)
  <1> DEFINE r == conn[c]
             t == [r EXCEPT !.asked = IF @ >= 0 THEN Later(@, GraceTicks) ELSE @]
             v == Decide(t)
             i == IF t.asked = -1 THEN Later(t.idle, IdleTicks) ELSE t.idle
             n == IF t.asked = -1 /\ Served(t) = {} THEN Later(t.quiet, IdleTicks) ELSE t.quiet
             q == [t EXCEPT !.verdict = v, !.idle = i, !.quiet = n]
  <1>0. Held(r)
    BY DEF KInv
  <1>1. r.took = "Http2" /\ Only(c, q)
    BY DEF H2cTick
  <1>2. /\ DOMAIN t = DOMAIN r /\ t.pc = r.pc /\ t.took = r.took /\ t.streams = r.streams
        /\ t.guards = r.guards /\ t.ending = r.ending /\ t.verdict = r.verdict
        /\ t.idle = r.idle /\ t.quiet = r.quiet
        /\ t.asked = IF r.asked >= 0 THEN Later(r.asked, GraceTicks) ELSE r.asked
    BY <1>0 DEF Held, HeldFields
  <1> HIDE DEF t
  <1>3. Held(t) /\ (t.guards = {} => Served(t) = {})
    <2>1. t.asked \in -1..GraceTicks
      BY <1>0, <1>2, ServingAssumption DEF Held, Later
    <2>2. Held(t)
      BY <1>0, <1>2, <2>1 DEF Held, Guarded
    <2> QED BY <1>1, <1>2, <2>2, ServedIsGuarded
  <1>4. /\ i \in 0..IdleTicks /\ n \in 0..IdleTicks
        /\ t.guards = {} /\ t.ending = {} => i <= n
    BY <1>3, ServingAssumption DEF Held, Later
  <1>5. /\ v \in {"none", "ask", "drop"} /\ (v # "none" => t.guards = {})
        /\ v = "ask" => t.idle >= IdleTicks
    BY DEF Decide
  <1> HIDE DEF v, i, n
  <1>6. /\ DOMAIN q = DOMAIN t /\ q.pc = t.pc /\ q.took = t.took /\ q.streams = t.streams
        /\ q.guards = t.guards /\ q.ending = t.ending /\ q.asked = t.asked
        /\ q.verdict = v /\ q.idle = i /\ q.quiet = n
    BY <1>3 DEF Held, HeldFields
  <1> HIDE DEF q
  <1>7. Held(q)
    BY <1>3, <1>4, <1>5, <1>6 DEF Held, Guarded
  <1>8. ASSUME q.verdict = "ask" PROVE r.quiet = IdleTicks \/ r.ending # {}
    BY <1>2, <1>3, <1>5, <1>6, <1>8, ServingAssumption DEF Held
  <1>9. ASSUME q.verdict = "drop" PROVE Served(q) = {}
    BY <1>3, <1>5, <1>6, <1>9 DEF Served
  <1>10. Spared(r, q)
    BY <1>7, <1>8, <1>9 DEF Spared
  <1> QED BY <1>1, <1>10, OnlyIsSpared

LEMMA OthersAreSpared ==
    ASSUME KInv, NEW c \in Conns, FreeStep(c)
    PROVE  SparedStep(c)
  <1>0. Held(conn[c])
    BY DEF KInv
  <1>1. CASE Serve(c)
    <2>1. PICK streaming \in BOOLEAN, n \in 0..MaxChunks :
             Only(c, [conn[c] EXCEPT !.pc = "answer", !.counted = @ /\ streaming,
                                     !.left = IF streaming THEN n ELSE @])
      BY <1>1, Zenon DEF Serve
    <2> DEFINE q == [conn[c] EXCEPT !.pc = "answer", !.counted = @ /\ streaming,
                                    !.left = IF streaming THEN n ELSE @]
    <2>2. conn[c].pc \in Asking
      BY <1>1 DEF Serve, Asking
    <2>3. SameStreams(conn[c], q) /\ q.pc = "answer" /\ q.took = conn[c].took
      BY <1>0 DEF Held, HeldFields, SameStreams
    <2> HIDE DEF q
    <2>4. Spared(conn[c], q)
      BY <1>0, <2>2, <2>3, StaysHeld
    <2> QED BY <2>1, <2>4, OnlyIsSpared DEF q
  <1>2. CASE NoiseFails(c)
    BY <1>0, <1>2, ClosedIsSpared, OnlyIsSpared DEF NoiseFails
  <1>3. CASE AsideStep(c)
    BY <1>3, AsideIsSpared
  <1>4. CASE H2cFinish(c)
    BY <1>0, <1>4, ClosedIsSpared, OnlyIsSpared DEF H2cFinish
  <1> QED BY <1>1, <1>2, <1>3, <1>4, TickIsSpared, Zenon DEF FreeStep, AsideStep

\* Every step spares the streams of every connection.
LEMMA StepSpares ==
    ASSUME KInv, [Next]_vars
    PROVE  DOMAIN conn' = Conns /\ \A c \in Conns : Spared(conn[c], conn'[c])
  <1> DEFINE Goal == DOMAIN conn' = Conns /\ \A c \in Conns : Spared(conn[c], conn'[c])
  <1>0. DOMAIN conn = Conns /\ \A c \in Conns : Held(conn[c])
    BY DEF KInv
  <1>1. \A c \in Conns : Spared(conn[c], conn[c])
    BY <1>0 DEF Spared, Held
  <1>2. \A c \in Conns : Spared(conn[c], Closed(conn[c]))
    BY <1>0, ClosedIsSpared
  <1>3. ASSUME NEW c \in Conns, NEW pc \in {"accepted", "spawned"}
        PROVE  Spared(conn[c], [conn[c] EXCEPT !.pc = pc])
    <2> DEFINE q == [conn[c] EXCEPT !.pc = pc]
    <2>1. SameStreams(conn[c], q) /\ q.pc = pc
      BY <1>0 DEF Held, HeldFields, SameStreams
    <2> HIDE DEF q
    <2>2. Spared(conn[c], q)
      BY <1>0, <2>1, StaysHeld DEF Asking
    <2> QED BY <2>2 DEF q
  <1>4. ASSUME NEW c \in Conns,
               ClientStep(c) \/ TaskStep(c) \/ TimesOut(c) \/ PeerStep(c) \/ FreeStep(c)
        PROVE  Goal
    <2>1. SparedStep(c)
      BY <1>4, ClientIsSpared, TaskIsSpared, TimeoutIsSpared, PeerIsSpared, OthersAreSpared, Zenon
    <2> QED BY <1>0, <1>1, <2>1 DEF SparedStep
  <1>5. CASE Leave \/ Stop \/ ForceExit
    BY <1>1, <1>2, <1>5 DEF Leave, Stop, ForceExit, Exit
  <1>6. ASSUME NEW c \in Conns, Accept(c) PROVE Goal
    <2>1. /\ DOMAIN conn' = Conns /\ conn'[c] = [conn[c] EXCEPT !.pc = "accepted"]
          /\ \A d \in Conns : d # c => conn'[d] = conn[d]
      BY <1>0, <1>6 DEF Accept
    <2> QED BY <1>1, <1>3, <2>1
  <1>7. ASSUME NEW c \in Conns, Spawn(c) PROVE Goal
    <2>1. /\ DOMAIN conn' = Conns
          /\ \A d \in Conns : \/ conn'[d] = conn[d] \/ conn'[d] = Closed(conn[d])
                              \/ conn'[d] = [conn[d] EXCEPT !.pc = "spawned"]
      BY <1>7 DEF Spawn
    <2> QED BY <1>1, <1>2, <1>3, <2>1
  <1>8. CASE conn' = conn
    BY <1>0, <1>1, <1>8
  <1>9. ASSUME Subscribe \/ CheckDraining \/ Woken
        PROVE  conn' = conn \/ Leave
    BY <1>9 DEF Subscribe, CheckDraining, Woken, others
  <1>10. ASSUME \/ Drained \/ GraceElapses \/ GossipHeard \/ GossipWaitEnds \/ AcceptFails
                \/ Signal \/ NotifyWaiters \/ TriggerGossip \/ UNCHANGED vars
         PROVE  conn' = conn
    BY <1>10 DEF Drained, GraceElapses, GossipHeard, GossipWaitEnds, AcceptFails, Signal,
                 NotifyWaiters, TriggerGossip, vars, others
  <1>11. ASSUME GossipStep PROVE conn' = conn
    BY <1>11 DEF GossipStep, GossipBegins, GossipSnapshot, GossipSent, Gossip
  <1> QED
    BY <1>4, <1>5, <1>6, <1>7, <1>8, <1>9, <1>10, <1>11, Zenon
       DEF Next, FreeStep, MainStep, SignalStep

LEMMA KInvStep == KInv /\ [Next]_vars => KInv'
  BY StepSpares DEF KInv, Spared

----------------------------------------------------------------------------
(* Theorems.                                                               *)

\* When start_server has found the node idle within the grace period, no request that
\* routing_preflight admitted is left, on any number of connections: a request is
\* counted before the check of draining, which is set before is_idle looks.
THEOREM AdmittedAreAwaited == Spec => []AdmittedRequestsAreAwaited
  <1>1. SInv => AdmittedRequestsAreAwaited
    BY DEF SInv
  <1> QED BY SInvInit, SInvStep, <1>1, PTL DEF Spec

\* The watchdog of serve_h2c_connection spares the streams that are being served, for any
\* number of them and any idle timeout and grace: it decides to drop a connection only when
\* it has none, and to ask for a shutdown only after an idle timeout without any, or in the
\* instant in which one that ended has still to touch.
THEOREM StreamsSurvive == Spec => StreamsAreNotCut
  <1>1. KInv /\ [Next]_vars =>
           [\A c \in Conns :
               /\ conn[c].verdict = "none" /\ conn'[c].verdict = "ask" =>
                     conn[c].quiet = IdleTicks \/ conn[c].ending # {}
               /\ conn[c].verdict = "none" /\ conn'[c].verdict = "drop" => Served(conn'[c]) = {}]_vars
    BY StepSpares DEF Spared
  <1> QED BY KInvInit, KInvStep, <1>1, PTL DEF Spec, StreamsAreNotCut

\* The permit main waits for at the end is left by a round whose snapshot said that
\* the node drains.
THEOREM AnnouncedDrain == Spec => []DrainIsAnnounced
  <1>1. GInv => DrainIsAnnounced
    BY DEF GInv
  <1> QED BY SInvInit, SInvStep, GInvInit, GInvStep, <1>1, PTL DEF Spec

\* What is read is what was sent, for any number of connections and chunks: detect
\* finds the protocol the client speaks from any prefix of its first bytes, and a peer
\* takes a body over Noise for complete only when it has all of a body that ended.
THEOREM ReadIsSent == Spec => []ReadIsWhatWasSent
  <1>1. WInv /\ KInv => ReadIsWhatWasSent
    <2> SUFFICES ASSUME WInv, KInv PROVE ReadIsWhatWasSent
        OBVIOUS
    <2>1. TypeOK
      BY DEF WInv, NodeTyped, Faithful, ConnTyped, ReadTyped, KInv, Held, TypeOK
    <2>2. ProtocolsAreToldApart
      BY DEF WInv, Faithful, ConnTyped, ProtocolsAreToldApart
    <2>3. PartialBodyIsAnError
      BY DEF WInv, Faithful, Exact, PartialBodyIsAnError
    <2> QED BY <2>1, <2>2, <2>3 DEF ReadIsWhatWasSent
  <1> QED BY WInvInit, WInvStep, KInvInit, KInvStep, <1>1, PTL DEF Spec

=============================================================================
