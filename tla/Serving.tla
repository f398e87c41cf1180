------------------------------ MODULE Serving ------------------------------
(***************************************************************************)
(* The server of a node, from its listening socket to the exit of the       *)
(* process: the accept loop, the detection of each connection's protocol,   *)
(* the HTTP/1, HTTP/2, TLS and Noise connections, the requests on them, and *)
(* the shutdown that a signal starts.                                      *)
(*                                                                         *)
(* A connection serves one request at a time, and an HTTP/2 connection      *)
(* other streams beside it, as its watchdog sees them.  What a request does *)
(* once it is routed is the subject of modules Forwarding and Watchdog.     *)
(*                                                                         *)
(* Sources: api.rs, protocol_detect.rs, main.rs (the end of main),          *)
(* noise/transport.rs, router.rs (the entry of route_request),              *)
(* node_state/mod.rs (begin_shutdown_drain, is_idle, shutdown_all_instances)*)
(* and cluster.rs (the round that announces the drain).                     *)
(***************************************************************************)
EXTENDS Integers, Sequences, FiniteSets

CONSTANTS
    Conns,          \* connections
    Speakers,       \* what clients speak: a subset of Protocols
    Kinds,          \* what they ask for, see Request
    Features,       \* what the node has configured: a set of records, see Init
    Streams,        \* the other streams of an HTTP/2 connection
    IdleTicks,      \* idle_timeout_seconds, in ticks of the h2c watchdog
    GraceTicks,     \* H2C_SHUTDOWN_GRACE, in the same ticks
    MaxChunks       \* chunks of a response over Noise

Protocols == {"Http", "Http2", "Tls", "Noise"}

ASSUME ServingAssumption ==
    /\ Speakers \subseteq Protocols
    /\ Features \subseteq [tls : BOOLEAN, noise : BOOLEAN, cluster : BOOLEAN]
    /\ "request" \notin Streams
    /\ IdleTicks \in Nat \ {0} /\ GraceTicks \in Nat \ {0} /\ MaxChunks \in Nat

VARIABLES
    has,            \* the configuration: tls, noise, cluster
    main,           \* the task of start_server and then main: pc, subscribed, woken
    conn,           \* the connections
    draining,       \* NodeState.draining
    sig,            \* the signal listener
    gossip,         \* the gossip loop: pc, announces_drain, says, and the two Notify permits
    late            \* the grace period ran out, or a second signal came

vars == <<has, main, conn, draining, sig, gossip, late>>
nodeVars == <<has, main, draining, sig, gossip, late>>

----------------------------------------------------------------------------
\* Detection

\* The first bytes of each protocol
Prefix(p) ==
    CASE p = "Http"  -> <<"P", "O", "S", "T">>
      [] p = "Http2" -> <<"P", "R", "I", "SP">>
      [] p = "Tls"   -> <<"16", "03">>
      [] p = "Noise" -> <<"00", "20">>

\* Variant: one letter is enough to know HTTP/1
ClassifyEager(buf) ==
    CASE buf[1] = "16" -> IF Len(buf) < 2 THEN "unknown" ELSE IF buf[2] = "03" THEN "Tls" ELSE "Noise"
      [] buf[1] = "P"  -> IF Len(buf) < 4 THEN "Http" ELSE IF buf[2] = "R" THEN "Http2" ELSE "Http"
      [] OTHER         -> "Noise"

\* The protocol of the bytes seen so far, when they decide it
Classify(buf) ==
    CASE buf[1] = "16" -> IF Len(buf) < 2 THEN "unknown" ELSE IF buf[2] = "03" THEN "Tls" ELSE "Noise"
      [] buf[1] = "P"  ->
            IF Len(buf) < 2 THEN "unknown"
            ELSE IF buf[2] # "R" THEN "Http"
            ELSE IF Len(buf) < 4 THEN "unknown"
            ELSE IF SubSeq(buf, 1, 4) = Prefix("Http2") THEN "Http2" ELSE "Http"
      [] buf[1] \in {"G", "D", "H", "O", "C", "T"} -> "Http"
      [] OTHER -> "Noise"

\* What a peek sees
Arrived(c) == SubSeq(Prefix(conn[c].speaks), 1, conn[c].arrived)

----------------------------------------------------------------------------
\* A connection.  req: what is asked for, until its body is there.  counted: the request
\* is in current_requests.  left: the chunks its handler has yet to produce.  For a response
\* over Noise, wire: the frames in flight; made, whole: the chunks sent, and whether they
\* are all; part, got, result: what the peer has read of a message, how many messages it
\* has, and what it makes of the response.  For HTTP/2, streams: the other streams; guards:
\* who holds an H2cStreamGuard, so that active_streams is their number; ending: who was
\* uncounted and has not touched yet; idle, asked: the whole ticks since the last touch,
\* until the shutdown is asked for, and the ticks since; verdict: what the watchdog has
\* found and does next.  History: quiet, the ticks since a stream was last being served, as
\* long as idle counts.
Fresh(p) ==
    [pc |-> "new", speaks |-> p, arrived |-> 0, took |-> "none", stalled |-> FALSE,
     req |-> "none", counted |-> FALSE, idle |-> 0, asked |-> -1, left |-> 0,
     wire |-> <<>>, made |-> 0, whole |-> FALSE, part |-> FALSE, got |-> 0, result |-> "none",
     streams |-> [s \in Streams |-> "none"], guards |-> {}, ending |-> {},
     verdict |-> "none", quiet |-> 0]

Init ==
    /\ has \in Features
    /\ main = [pc |-> "subscribe", subscribed |-> FALSE, woken |-> FALSE]
    /\ conn \in [Conns -> {Fresh(p) : p \in Speakers}]
    /\ draining = FALSE
    /\ sig = "wait"
    /\ gossip = [pc |-> "wait", announces |-> FALSE, says |-> FALSE,
                 trigger |-> FALSE, sent |-> FALSE, told |-> FALSE]
    /\ late = FALSE

Running == main.pc # "exited"

Only(c, r) ==
    /\ Running
    /\ conn' = [conn EXCEPT ![c] = r]
    /\ UNCHANGED nodeVars

\* The connection's task ends; dropping the request's guard uncounts it.  What the
\* peer of a Noise connection has yet to read stays.
Closed(r) ==
    [r EXCEPT !.pc = "closed", !.arrived = 0, !.took = "none", !.stalled = FALSE, !.req = "none",
              !.counted = FALSE, !.idle = 0, !.asked = -1, !.left = 0,
              !.streams = [s \in Streams |-> "none"], !.guards = {}, !.ending = {},
              !.verdict = "none", !.quiet = 0]

\* The states in which the server waits for the client, and in which it is told when
\* the client goes away
Waiting == {"detect", "tls", "noise", "preface", "idle", "body"}
Open == Waiting \cup {"unpolled", "count", "serving", "warming", "answer", "stream"}

\* hyper's side of a connection runs unless the watchdog's branch of the loop does
Polled(c) == conn[c].verdict = "none"

----------------------------------------------------------------------------
\* Clients

Connect(c) ==
    /\ conn[c].pc = "new"
    /\ Only(c, IF main.pc \in {"subscribe", "check", "select", "got"}
               THEN [conn[c] EXCEPT !.pc = "backlog"] ELSE Closed(conn[c]))

SendByte(c) ==
    /\ conn[c].pc \in {"backlog", "spawned"} \cup Waiting /\ ~conn[c].stalled
    /\ conn[c].arrived < Len(Prefix(conn[c].speaks))
    /\ Only(c, [conn[c] EXCEPT !.arrived = @ + 1])

\* The client goes silent and stays connected
Stall(c) ==
    /\ conn[c].pc \in Waiting /\ ~conn[c].stalled
    /\ Only(c, [conn[c] EXCEPT !.stalled = TRUE])

\* The client disconnects, or the network cuts the connection: what was not delivered
\* is lost, and a read, a write or the check of the socket fails
Hangup(c) ==
    /\ conn[c].pc \in Open /\ Polled(c)
    /\ \E n \in 0..Len(conn[c].wire) :
           Only(c, [Closed(conn[c]) EXCEPT !.wire = SubSeq(@, 1, n)])

\* A client comes back once its connection is over
Again(c) ==
    /\ conn[c].pc \in {"closed", "dropped"} /\ conn[c].result # "asked"
    /\ \E p \in Speakers : Only(c, Fresh(p))

----------------------------------------------------------------------------
\* The accept loop, start_server

Main(pc) == main' = [main EXCEPT !.pc = pc]
others == <<has, conn, draining, sig, gossip, late>>

Subscribe ==
    /\ main.pc = "subscribe"
    /\ main' = [pc |-> "check", subscribed |-> TRUE, woken |-> FALSE]
    /\ UNCHANGED others

\* Leaving the loop closes the socket, and with it the connections nobody accepted
Leave ==
    /\ main' = [pc |-> "drain", subscribed |-> FALSE, woken |-> FALSE]
    /\ conn' = [c \in Conns |-> IF conn[c].pc = "backlog" THEN Closed(conn[c]) ELSE conn[c]]
    /\ UNCHANGED <<has, draining, sig, gossip, late>>

\* Variant: subscribing is taken to be enough
CheckNothing ==
    /\ main.pc = "check"
    /\ Main("select") /\ UNCHANGED others

CheckDraining ==
    /\ main.pc = "check"
    /\ IF draining THEN Leave ELSE Main("select") /\ UNCHANGED others

Accept(c) ==
    /\ main.pc = "select" /\ conn[c].pc = "backlog"
    /\ main' = [pc |-> "got", subscribed |-> FALSE, woken |-> FALSE]
    /\ conn' = [conn EXCEPT ![c].pc = "accepted"]
    /\ UNCHANGED <<has, draining, sig, gossip, late>>

AcceptFails ==
    /\ main.pc = "select"
    /\ main' = [pc |-> "subscribe", subscribed |-> FALSE, woken |-> FALSE]
    /\ UNCHANGED others

\* The tasks end with the process
Exit == Main("exited") /\ conn' = [c \in Conns |-> Closed(conn[c])]

Woken == main.pc = "select" /\ main.woken /\ Leave

\* The connection gets a task of its own, or is dropped with the loop
Spawn(c) ==
    /\ main.pc = "got" /\ conn[c].pc = "accepted"
    /\ main' = [main EXCEPT !.pc = IF draining THEN "drain" ELSE "subscribe"]
    /\ conn' = [d \in Conns |->
                   CASE d = c -> IF draining THEN Closed(conn[d]) ELSE [conn[d] EXCEPT !.pc = "spawned"]
                     [] d # c /\ draining /\ conn[d].pc = "backlog" -> Closed(conn[d])
                     [] OTHER -> conn[d]]
    /\ UNCHANGED <<has, draining, sig, gossip, late>>

----------------------------------------------------------------------------
\* A connection's task, up to its protocol

CheckSpawned(c) ==
    /\ conn[c].pc = "spawned"
    /\ Only(c, IF draining THEN Closed(conn[c]) ELSE [conn[c] EXCEPT !.pc = "detect"])

\* The handler of the protocol found, if the node has what it needs
Handler(took) ==
    CASE took = "Tls"   -> IF has.tls THEN "tls" ELSE "closed"
      [] took = "Noise" -> IF has.noise THEN "noise" ELSE "closed"
      [] took = "Http2" -> "preface"
      [] took = "Http"  -> "idle"

Detect(c) ==
    /\ conn[c].pc = "detect" /\ conn[c].arrived > 0
    /\ LET took == Classify(Arrived(c)) IN
       /\ took # "unknown"
       /\ Only(c, IF draining THEN Closed(conn[c])
                  ELSE [conn[c] EXCEPT !.pc = Handler(took), !.took = took])

\* The detection timeout, a read error, or the shutdown
DetectEnds(c) ==
    /\ conn[c].pc = "detect"
    /\ Only(c, Closed(conn[c]))

\* A handshake succeeds, and so does the check of a Noise peer's identity
Handshake(c) ==
    /\ conn[c].pc \in {"tls", "noise"} /\ ~conn[c].stalled
    /\ Only(c, [conn[c] EXCEPT !.pc = "idle"])

\* It fails, or its time is over
HandshakeEnds(c) ==
    /\ conn[c].pc \in {"tls", "noise"}
    /\ Only(c, Closed(conn[c]))

\* The rest of the HTTP/2 preface
H2cHandshake(c) ==
    /\ conn[c].pc = "preface" /\ ~conn[c].stalled /\ Polled(c)
    /\ Only(c, [conn[c] EXCEPT !.pc = "idle"])

----------------------------------------------------------------------------
\* Requests.  "infer" is a call of route_request, "prewarm" of prewarm_handler,
\* "gossip" a gossip message over Noise, "probe" a handler that only reads.

\* touch, and H2cStreamGuard::new
Hold(r, stream) ==
    [r EXCEPT !.guards = @ \cup {stream}, !.idle = 0, !.quiet = 0]

\* Drop of H2cStreamGuard: the stream is uncounted, and then it touches
Drop(r, stream) ==
    IF stream \in r.guards
    THEN [r EXCEPT !.guards = @ \ {stream}, !.ending = @ \cup {stream}, !.quiet = 0] ELSE r

\* A handler begins
Begin(r, kind) ==
    IF kind \in {"infer", "prewarm"} /\ ~draining
    THEN [r EXCEPT !.pc = "body", !.req = kind] ELSE [r EXCEPT !.pc = "answer", !.req = "none"]

\* A request arrives; hyper gives each one on HTTP/2 a task of its own
Request(c, kind) ==
    /\ conn[c].pc = "idle" /\ ~conn[c].stalled /\ conn[c].result = "none" /\ Polled(c)
    /\ kind = "gossip" => conn[c].took = "Noise"
    /\ kind \in {"prewarm", "probe"} => conn[c].took # "Noise"
    /\ Only(c, IF conn[c].took = "Http2" THEN [conn[c] EXCEPT !.pc = "unpolled", !.req = kind]
               ELSE Begin([conn[c] EXCEPT !.result = IF conn[c].took = "Noise" THEN "asked" ELSE @], kind))

\* That task runs for the first time
PollRequest(c) ==
    /\ conn[c].pc = "unpolled"
    /\ Only(c, Begin(Hold(conn[c], "request"), conn[c].req))

\* A request over Noise has its body with it
BodyArrives(c) ==
    /\ conn[c].pc = "body" /\ (conn[c].stalled => conn[c].took = "Noise")
    /\ Only(c, IF conn[c].req = "prewarm"
               THEN [conn[c] EXCEPT !.pc = IF draining THEN "answer" ELSE "warming", !.req = "none"]
               ELSE [conn[c] EXCEPT !.pc = "count", !.req = "none", !.counted = TRUE])

\* The body times out, is too large, or is not a valid request
BodyRefused(c) ==
    /\ conn[c].pc = "body"
    /\ Only(c, [conn[c] EXCEPT !.pc = "answer", !.req = "none"])

\* Variant: a request that is counted is served
PreflightUnchecked(c) ==
    /\ conn[c].pc = "count"
    /\ Only(c, [conn[c] EXCEPT !.pc = "serving"])

\* The request is routed unless the node drains; the guard uncounts a refused one
Preflight(c) ==
    /\ conn[c].pc = "count"
    /\ Only(c, IF draining THEN [conn[c] EXCEPT !.pc = "answer", !.counted = FALSE]
               ELSE [conn[c] EXCEPT !.pc = "serving"])

\* A response that is read to its end before it is passed on is uncounted by then;
\* one that is streamed stays counted
Serve(c) ==
    /\ conn[c].pc \in {"serving", "warming"}
    /\ \E streaming \in BOOLEAN, n \in 0..MaxChunks :
          Only(c, [conn[c] EXCEPT !.pc = "answer", !.counted = @ /\ streaming,
                                  !.left = IF streaming THEN n ELSE @])

\* Variant: a body is polled past its end
ChunkPastEnd(c) ==
    /\ conn[c].pc = "answer" /\ conn[c].took # "Noise"
    /\ Only(c, [conn[c] EXCEPT !.left = @ - 1, !.idle = 0])

\* A chunk of a streamed response on HTTP; on HTTP/2 it counts as activity
Chunk(c) ==
    /\ conn[c].pc = "answer" /\ conn[c].took # "Noise" /\ conn[c].left > 0
    /\ Only(c, [conn[c] EXCEPT !.left = @ - 1, !.idle = 0])

BodyEnds(c) ==
    /\ conn[c].pc \in {"answer", "stream"} /\ conn[c].counted /\ conn[c].left = 0
    /\ Only(c, [conn[c] EXCEPT !.counted = FALSE])

\* The end of a body drops its guard
Answered(c) ==
    /\ conn[c].pc = "answer" /\ conn[c].took # "Noise" /\ conn[c].left = 0 /\ ~conn[c].counted
    /\ Only(c, [Drop(conn[c], "request") EXCEPT !.pc = "idle"])

\* header_read_timeout of HTTP/1
HeaderTimesOut(c) ==
    /\ conn[c].pc = "idle" /\ conn[c].took \in {"Http", "Tls"}
    /\ Only(c, Closed(conn[c]))

----------------------------------------------------------------------------
\* The other streams of an HTTP/2 connection: a request that hyper accepted, its handler,
\* and the body of its response

SetStream(r, s, state) == [r EXCEPT !.streams[s] = state]

OpenStream(c, s) ==
    /\ conn[c].took = "Http2" /\ conn[c].pc \in Open \ {"preface"} /\ ~conn[c].stalled
    /\ conn[c].streams[s] = "none" /\ Polled(c)
    /\ Only(c, SetStream(conn[c], s, "accepted"))

PollStream(c, s) ==
    /\ conn[c].pc \in Open /\ conn[c].streams[s] = "accepted"
    /\ Only(c, Hold(SetStream(conn[c], s, "running"), s))

\* Variant: the guard is dropped with the handler
HandlerDrops(c, s) ==
    /\ conn[c].pc \in Open /\ conn[c].streams[s] = "running"
    /\ Only(c, Drop(SetStream(conn[c], s, "body"), s))

\* The handler returns a response, whose H2cTrackedBody takes the guard over
HandlerReturns(c, s) ==
    /\ conn[c].pc \in Open /\ conn[c].streams[s] = "running"
    /\ Only(c, SetStream(conn[c], s, "body"))

StreamFrame(c, s) ==
    /\ conn[c].pc \in Open /\ conn[c].streams[s] = "body"
    /\ Only(c, [conn[c] EXCEPT !.idle = 0])

StreamEnds(c, s) ==
    /\ conn[c].pc \in Open /\ conn[c].streams[s] = "body"
    /\ Only(c, Drop(SetStream(conn[c], s, "none"), s))

\* The client resets a stream, and hyper drops what it has of it
CancelStream(c, s) ==
    /\ conn[c].pc \in Open /\ ~conn[c].stalled /\ conn[c].streams[s] # "none" /\ Polled(c)
    /\ Only(c, Drop(SetStream(conn[c], s, "none"), s))

\* Variant: the end of a stream is no activity
EndsSilently(c, stream) ==
    /\ conn[c].pc \in Open /\ stream \in conn[c].ending
    /\ Only(c, [conn[c] EXCEPT !.ending = @ \ {stream}])

\* The second half of Drop
Touch(c, stream) ==
    /\ conn[c].pc \in Open /\ stream \in conn[c].ending
    /\ Only(c, [conn[c] EXCEPT !.ending = @ \ {stream}, !.idle = 0])

----------------------------------------------------------------------------
\* The watchdog of an HTTP/2 connection, serve_h2c_connection

\* Variant: only the time since the last activity counts
DecideByTime(r) ==
    CASE r.asked = -1 /\ r.idle >= IdleTicks -> "ask"
      [] r.asked >= GraceTicks -> "drop"
      [] OTHER -> "none"

\* Variant: the graceful shutdown is left to complete by itself
DecideGracefully(r) ==
    IF r.guards = {} /\ r.asked = -1 /\ r.idle >= IdleTicks THEN "ask" ELSE "none"

Decide(r) ==
    CASE r.guards = {} /\ r.asked = -1 /\ r.idle >= IdleTicks -> "ask"
      [] r.guards = {} /\ r.asked >= GraceTicks -> "drop"
      [] OTHER -> "none"

\* The streams whose handler has begun and whose body has not ended
Served(r) ==
    {s \in Streams : r.streams[s] \in {"running", "body"}}
    \cup IF r.pc \in {"body", "count", "serving", "warming", "answer"} THEN {"request"} ELSE {}

\* A tick later, as far as a limit tells the times apart
Later(ticks, limit) == IF ticks < limit THEN ticks + 1 ELSE ticks

\* A tick: the watchdog looks.  The part of a tick that follows a touch is no whole one,
\* while the shutdown is asked for at a tick.
H2cTick(c) ==
    /\ conn[c].took = "Http2" /\ conn[c].pc \in Open /\ Polled(c)
    /\ LET r == [conn[c] EXCEPT !.asked = IF @ >= 0 THEN Later(@, GraceTicks) ELSE @]
       IN  Only(c, [r EXCEPT
              !.verdict = Decide(r),
              !.idle = IF r.asked = -1 THEN Later(@, IdleTicks) ELSE @,
              !.quiet = IF r.asked = -1 /\ Served(r) = {} THEN Later(@, IdleTicks) ELSE @])

\* It acts on what it found, with the handlers running on
H2cAct(c) ==
    /\ ~Polled(c)
    /\ Only(c, IF conn[c].verdict = "ask"
               THEN [conn[c] EXCEPT !.asked = 0, !.idle = 0, !.quiet = 0, !.verdict = "none"]
               ELSE [Closed(conn[c]) EXCEPT !.pc = "dropped"])

H2cFinish(c) ==
    /\ conn[c].took = "Http2" /\ conn[c].asked >= 0 /\ conn[c].pc = "idle"
    /\ (\A s \in Streams : conn[c].streams[s] = "none") /\ Polled(c)
    /\ Only(c, Closed(conn[c]))

----------------------------------------------------------------------------
\* A response over Noise: send_noise_response here, NoiseBodyStream at the peer.  A
\* message is its frames and an empty frame; an empty message ends the body.

Message(data) == IF data THEN <<"frame", "empty">> ELSE <<"empty">>

\* What is written after the peer has gone is lost
Put(r, data) == IF r.result = "asked" THEN r.wire \o Message(data) ELSE r.wire

NoiseHead(c) ==
    /\ conn[c].pc = "answer" /\ conn[c].took = "Noise"
    /\ Only(c, [conn[c] EXCEPT !.pc = "stream", !.wire = Put(conn[c], TRUE)])

\* Variant: a chunk without data is sent too
NoiseChunkAny(c) ==
    /\ conn[c].pc = "stream" /\ conn[c].left > 0
    /\ \E data \in BOOLEAN :
          Only(c, [conn[c] EXCEPT !.left = @ - 1, !.wire = Put(conn[c], data),
                                  !.made = IF data THEN @ + 1 ELSE @])

\* The handler's body yields a chunk, with or without data
NoiseChunk(c) ==
    /\ conn[c].pc = "stream" /\ conn[c].left > 0
    /\ \E data \in BOOLEAN :
          Only(c, [conn[c] EXCEPT !.left = @ - 1, !.wire = IF data THEN Put(conn[c], TRUE) ELSE @,
                                  !.made = IF data THEN @ + 1 ELSE @])

\* The handler's body fails: the response is left without an end
NoiseFails(c) ==
    /\ conn[c].pc = "stream" /\ conn[c].left > 0
    /\ Only(c, Closed(conn[c]))

NoiseEnd(c) ==
    /\ conn[c].pc = "stream" /\ conn[c].left = 0 /\ ~conn[c].counted
    /\ Only(c, [conn[c] EXCEPT !.pc = "idle", !.whole = TRUE,
                               !.wire = Put(conn[c], FALSE)])

\* The peer reads, even when this process is gone
Peer(c, r) == conn' = [conn EXCEPT ![c] = r] /\ UNCHANGED nodeVars

ReadFrame(c) ==
    /\ conn[c].result = "asked" /\ conn[c].wire # <<>>
    /\ LET r == [conn[c] EXCEPT !.wire = Tail(@)] IN
       Peer(c, IF Head(conn[c].wire) = "frame" THEN [r EXCEPT !.part = TRUE]
               ELSE IF conn[c].part THEN [r EXCEPT !.part = FALSE, !.got = @ + 1]
               ELSE [r EXCEPT !.result = IF conn[c].got > 0 THEN "ok" ELSE "error"])

\* The end of the connection in place of a frame
ReadEof(c) ==
    /\ conn[c].result = "asked" /\ conn[c].wire = <<>>
    /\ conn[c].pc = "closed"
    /\ Peer(c, [conn[c] EXCEPT !.result = "error"])

\* The deadline of the request or the limit on silence passes
ReadTimesOut(c) ==
    /\ conn[c].result = "asked"
    /\ Peer(c, [conn[c] EXCEPT !.result = "error", !.wire = <<>>])

----------------------------------------------------------------------------
\* The signal listener: begin_shutdown_drain, then the gossip trigger

Signal ==
    /\ Running /\ sig = "wait"
    /\ sig' = "notify" /\ draining' = TRUE
    /\ UNCHANGED <<has, main, conn, gossip, late>>

\* notify_waiters wakes who subscribed before, and nobody later
NotifyWaiters ==
    /\ Running /\ sig = "notify"
    /\ sig' = "trigger" /\ main' = [main EXCEPT !.woken = main.subscribed]
    /\ UNCHANGED <<has, conn, draining, gossip, late>>

TriggerGossip ==
    /\ Running /\ sig = "trigger"
    /\ sig' = "listen" /\ gossip' = [gossip EXCEPT !.trigger = TRUE]
    /\ UNCHANGED <<has, main, conn, draining, late>>

ForceExit ==
    /\ Running /\ sig = "listen"
    /\ Exit /\ late' = TRUE
    /\ UNCHANGED <<has, draining, sig, gossip>>

----------------------------------------------------------------------------
\* The gossip loop, as far as the drain is concerned

Gossip(r) ==
    /\ Running /\ has.cluster
    /\ gossip' = r
    /\ UNCHANGED <<has, main, conn, draining, sig, late>>

\* A tick of the interval, or the trigger
GossipBegins ==
    /\ gossip.pc = "wait"
    /\ \E trigger \in {FALSE, gossip.trigger} :
          Gossip([gossip EXCEPT !.pc = "snapshot", !.announces = draining, !.trigger = trigger])

GossipSnapshot ==
    /\ gossip.pc = "snapshot"
    /\ Gossip([gossip EXCEPT !.pc = "send", !.says = draining])

\* Variant: the round is taken for the announcement when the node drains by its end
GossipSentNow ==
    /\ gossip.pc = "send"
    /\ Gossip([gossip EXCEPT !.pc = "wait", !.told = @ \/ gossip.says, !.announces = FALSE,
                             !.says = FALSE, !.sent = @ \/ draining])

GossipSent ==
    /\ gossip.pc = "send"
    /\ Gossip([gossip EXCEPT !.pc = "wait", !.told = @ \/ gossip.says, !.announces = FALSE,
                             !.says = FALSE, !.sent = @ \/ gossip.announces])

----------------------------------------------------------------------------
\* The end of start_server and of main

Counted == {c \in Conns : conn[c].counted}

Drained ==
    /\ main.pc = "drain" /\ Counted = {}
    /\ Main(IF has.cluster THEN "gossip" ELSE "stop")
    /\ UNCHANGED others

GraceElapses ==
    /\ main.pc = "drain"
    /\ Main(IF has.cluster THEN "gossip" ELSE "stop") /\ late' = TRUE
    /\ UNCHANGED <<has, conn, draining, sig, gossip>>

GossipHeard ==
    /\ main.pc = "gossip" /\ gossip.sent
    /\ Main("stop") /\ gossip' = [gossip EXCEPT !.sent = FALSE]
    /\ UNCHANGED <<has, conn, draining, sig, late>>

GossipWaitEnds ==
    /\ main.pc = "gossip"
    /\ Main("stop")
    /\ UNCHANGED others

\* shutdown_all_instances and the end of discovery
Stop ==
    /\ main.pc = "stop"
    /\ Exit
    /\ UNCHANGED <<has, draining, sig, gossip, late>>

----------------------------------------------------------------------------
ClientStep(c) ==
    \/ Connect(c) \/ SendByte(c) \/ Stall(c) \/ Hangup(c) \/ Again(c)
    \/ Handshake(c) \/ H2cHandshake(c)
    \/ \E s \in Streams : OpenStream(c, s) \/ CancelStream(c, s)
    \/ \E kind \in Kinds : Request(c, kind)

\* What a connection's task does without its client
TaskStep(c) ==
    \/ CheckSpawned(c) \/ Detect(c) \/ PollRequest(c) \/ H2cAct(c) \/ BodyArrives(c) \/ Preflight(c)
    \/ Chunk(c) \/ BodyEnds(c) \/ Answered(c)
    \/ \E stream \in Streams \cup {"request"} : Touch(c, stream)
    \/ NoiseHead(c) \/ NoiseChunk(c) \/ NoiseEnd(c)

\* What the handlers of other streams do
StreamStep(c, s) == PollStream(c, s) \/ HandlerReturns(c, s) \/ StreamFrame(c, s) \/ StreamEnds(c, s)

TimesOut(c) == DetectEnds(c) \/ HandshakeEnds(c) \/ BodyRefused(c) \/ HeaderTimesOut(c)

PeerStep(c) == ReadFrame(c) \/ ReadEof(c) \/ ReadTimesOut(c)

MainStep ==
    \/ Subscribe \/ CheckDraining \/ Woken
    \/ \E c \in Conns : Accept(c) \/ Spawn(c)
    \/ Drained \/ GraceElapses \/ GossipHeard \/ GossipWaitEnds \/ Stop

SignalStep == NotifyWaiters \/ TriggerGossip
GossipStep == GossipBegins \/ GossipSnapshot \/ GossipSent

Next ==
    \/ \E c \in Conns : \/ ClientStep(c) \/ TaskStep(c) \/ TimesOut(c) \/ PeerStep(c)
                        \/ Serve(c) \/ NoiseFails(c) \/ H2cTick(c) \/ H2cFinish(c)
                        \/ \E s \in Streams : StreamStep(c, s)
    \/ MainStep \/ AcceptFails \/ Signal \/ SignalStep \/ ForceExit \/ GossipStep

Spec == Init /\ [][Next]_vars

\* Tasks that can run do, timers fire and I/O the node waits for ends; clients, the
\* work on a request and signals promise nothing.
Fairness ==
    /\ WF_vars(MainStep) /\ WF_vars(SignalStep)
    /\ \A c \in Conns : WF_vars(TaskStep(c)) /\ WF_vars(TimesOut(c)) /\ WF_vars(H2cTick(c))

FairSpec == Spec /\ Fairness

----------------------------------------------------------------------------
\* Every variable has its type.
TypeOK ==
    /\ has \in [tls : BOOLEAN, noise : BOOLEAN, cluster : BOOLEAN]
    /\ main \in [pc : {"subscribe", "check", "select", "got", "drain", "gossip", "stop", "exited"},
                 subscribed : BOOLEAN, woken : BOOLEAN]
    /\ draining \in BOOLEAN /\ late \in BOOLEAN
    /\ sig \in {"wait", "notify", "trigger", "listen"}
    /\ gossip \in [pc : {"wait", "snapshot", "send"}, announces : BOOLEAN, says : BOOLEAN,
                   trigger : BOOLEAN, sent : BOOLEAN, told : BOOLEAN]
    /\ \A c \in Conns :
          /\ conn[c].pc \in Open \cup {"new", "backlog", "accepted", "spawned", "closed", "dropped"}
          /\ conn[c].took \in Protocols \cup {"none"} /\ conn[c].req \in Kinds \cup {"none"}
          /\ conn[c].result \in {"none", "asked", "ok", "error"}
          /\ conn[c].left \in 0..MaxChunks /\ conn[c].made \in 0..MaxChunks
          /\ conn[c].idle \in 0..IdleTicks /\ conn[c].asked \in -1..GraceTicks
          /\ conn[c].streams \in [Streams -> {"none", "accepted", "running", "body"}]
          /\ conn[c].guards \cup conn[c].ending \subseteq Streams \cup {"request"}
          /\ conn[c].quiet \in 0..IdleTicks
          /\ conn[c].verdict \in {"none", "ask", "drop"}

\* However the first bytes of a connection are cut up, detect hands it to the stack
\* its client speaks.
ProtocolsAreToldApart ==
    \A c \in Conns : conn[c].took \in {"none", conn[c].speaks}

\* Once start_server has found the node idle within the grace period, no request that
\* routing_preflight let through is still being served: counting comes before the
\* check of draining, so is_idle cannot miss one that will pass it.
AdmittedRequestsAreAwaited ==
    main.pc \in {"gossip", "stop", "exited"} /\ ~late =>
        \A c \in Conns : conn[c].pc # "serving" /\ (conn[c].counted => conn[c].pc = "count")

\* The permit that shutdown waits for stands for a gossip round that told the peers
\* of the drain, not for one that was under way when it began.
DrainIsAnnounced == gossip.sent => gossip.told

\* The watchdog of an HTTP/2 connection leaves its streams alone: it decides for a shutdown
\* only when none has been served for the whole idle timeout, however long a handler was
\* silent before, or in the instant between the two halves of a guard's drop; and no stream
\* that it cuts was being served when it looked.  A request that hyper has accepted does not
\* count before its task first runs, nor does what hyper has yet to write of a response
\* whose body has ended: a drop can cut these.
StreamsAreNotCut ==
    [][\A c \in Conns :
          /\ conn[c].verdict = "none" /\ conn'[c].verdict = "ask" =>
                conn[c].quiet = IdleTicks \/ conn[c].ending # {}
          /\ conn[c].verdict = "none" /\ conn'[c].verdict = "drop" => Served(conn'[c]) = {}]_vars

\* A peer takes a response over Noise for complete only when it has every chunk the
\* handler produced and the handler's body ended: a cut connection, a failed body or
\* a chunk without data never looks like the end.
PartialBodyIsAnError ==
    \A c \in Conns : conn[c].result = "ok" => conn[c].whole /\ conn[c].got = conn[c].made + 1

\* A signal ends the process, wherever the accept loop is when it comes.
SignalEndsTheProcess == draining ~> ~Running

\* A client that goes silent does not keep its connection: detection, the handshakes,
\* the body, the headers and the HTTP/2 watchdog all end it.  The one exception is a
\* peer after its Noise handshake, whose next request is awaited without a limit; and
\* other streams that the client began before keep the connection while they are served.
SilentClientsAreDropped ==
    \A c \in Conns :
        (/\ conn[c].stalled /\ conn[c].pc \in Waiting /\ conn[c].took # "Noise"
         /\ \A s \in Streams : conn[c].streams[s] = "none")
            ~> conn[c].pc \in {"closed", "dropped"} \/ ~Running

\* What either side takes from a connection is what the other sent: the protocol of its
\* first bytes, and a body over Noise that is whole.
ReadIsWhatWasSent == TypeOK /\ ProtocolsAreToldApart /\ PartialBodyIsAnError

=============================================================================
