---------------------------- MODULE GossipProofs ----------------------------
(***************************************************************************)
(* Proofs about Gossip, for any number of processes of the sender, rounds   *)
(* and start times, and a network that loses, delays, repeats and reorders  *)
(* messages: what a receiver knows is not undone by something older.        *)
(*                                                                         *)
(* The receiver compares one message with one entry, so the argument is     *)
(* about any two of them, under way or stored.  Two of one process that are *)
(* both stamped stand in the order the process went through: it is ready    *)
(* only before it drains, and a round that drains has a number of its own.  *)
(* Two of different processes have start times in the order of the          *)
(* processes as long as no clock was set back.                              *)
(***************************************************************************)
EXTENDS Gossip, TLAPS

\* What the receiver may compare.
Seen == net \cup {peer}

\* One message: who may have sent it, and when.
Sent(m) ==
    /\ m.run <= run
    /\ m.epoch # 0 => m.epoch = m.run
    /\ m.drains => ~m.ready
    /\ m.run = run => /\ m.seq <= seq
                      /\ m.drains => up # "up"
    /\ ~stepped => m.started <= started

\* Two messages.
Consistent(m, n) ==
    /\ m.run = n.run /\ Ordered(m) /\ Ordered(n) /\ m.drains /\ n.ready => n.seq < m.seq
    /\ ~stepped /\ m.run < n.run => m.started <= n.started

IInv ==
    /\ TypeOK
    /\ \A m \in Seen : Sent(m)
    /\ \A m, n \in Seen : Consistent(m, n)
    /\ ~known => peer = Placeholder

LEMMA PlaceholderType == Placeholder \in Messages
  BY GossipAssumption DEF Placeholder, Messages

\* The fields the comparisons look at.
LEMMA FieldTypes ==
    ASSUME NEW m \in Messages
    PROVE  /\ m.run \in Nat /\ m.epoch \in Nat /\ m.seq \in Nat /\ m.started \in Nat
           /\ m.ready \in BOOLEAN /\ m.drains \in BOOLEAN
  <1>1. /\ 0 .. MaxRuns \in SUBSET Nat /\ 0 .. MaxSeq \in SUBSET Nat
        /\ Seconds \cup {0} \in SUBSET Nat
    BY GossipAssumption
  <1>2. /\ m.run \in 0 .. MaxRuns /\ m.epoch \in 0 .. MaxRuns /\ m.seq \in 0 .. MaxSeq
        /\ m.started \in Seconds \cup {0} /\ m.ready \in BOOLEAN /\ m.drains \in BOOLEAN
    BY DEF Messages
  <1> QED BY <1>1, <1>2

LEMMA IInvInit == Init => IInv
  <1> SUFFICES ASSUME Init PROVE IInv
    OBVIOUS
  <1>1. TypeOK
    <2>1. 1 \in 1 .. MaxRuns /\ 0 \in 0 .. MaxSeq /\ 0 \in 0 .. Timeout + 1
      BY GossipAssumption
    <2>2. stamps \in BOOLEAN /\ started \in Seconds /\ has_binary \in BOOLEAN
      BY GossipAssumption DEF Init
    <2> QED BY <2>1, <2>2, PlaceholderType DEF Init, TypeOK
  <1>2. Seen = {Placeholder} /\ run = 1 /\ started \in Nat
    BY GossipAssumption DEF Init, Seen
  <1>3. Sent(Placeholder) /\ Consistent(Placeholder, Placeholder)
    BY <1>2 DEF Sent, Consistent, Placeholder
  <1> QED BY <1>1, <1>2, <1>3 DEF Init, IInv

----------------------------------------------------------------------------
(* The comparisons survive every step.                                     *)

Compared == /\ \A m \in Seen : Sent(m)
            /\ \A m, n \in Seen : Consistent(m, n)

\* Nothing is sent: the sender may go on, but not back up, and time may pass.
LEMMA ComparedShrinks ==
    ASSUME TypeOK, Compared, Seen' \in SUBSET Seen,
           up' = up \/ up' # "up", UNCHANGED <<run, started, stepped, seq>>
    PROVE  Compared'
  <1>1. ASSUME NEW m \in Seen' PROVE Sent(m)'
    BY <1>1 DEF Compared, Sent
  <1>2. ASSUME NEW m \in Seen', NEW n \in Seen' PROVE Consistent(m, n)'
    BY <1>2 DEF Compared, Consistent, Ordered
  <1> QED BY <1>1, <1>2 DEF Compared

LEMMA SnapshotType ==
    ASSUME TypeOK
    PROVE  /\ Snapshot \in Messages /\ NextSeq \in 0 .. MaxSeq /\ seq <= NextSeq
           /\ Snapshot.run = run /\ Snapshot.started = started
           /\ Snapshot.ready = Ready /\ Snapshot.drains = (up = "draining")
           /\ Snapshot.seq = (IF stamps THEN NextSeq ELSE 0)
           /\ Snapshot.epoch = (IF stamps THEN run ELSE 0)
  <1>1. NextSeq \in 0 .. MaxSeq /\ seq <= NextSeq
    BY GossipAssumption DEF TypeOK, NextSeq
  <1>2. /\ run \in 0 .. MaxRuns /\ started \in Seconds \cup {0} /\ 0 \in 0 .. MaxRuns
        /\ 0 \in 0 .. MaxSeq
    BY GossipAssumption DEF TypeOK
  <1>3. Ready \in BOOLEAN /\ (up = "draining") \in BOOLEAN
    BY DEF Ready, TypeOK
  <1>4. (IF stamps THEN run ELSE 0) \in 0 .. MaxRuns
    BY <1>2
  <1>5. (IF stamps THEN NextSeq ELSE 0) \in 0 .. MaxSeq
    BY <1>1, <1>2
  <1>6. Snapshot \in Messages
    BY <1>2, <1>3, <1>4, <1>5 DEF Snapshot, Messages
  <1> QED BY <1>1, <1>6 DEF Snapshot

\* A round sends at most one new message, under a number no earlier round of a drained
\* process had.
LEMMA ComparedGrows ==
    ASSUME TypeOK, Compared, Seen' \in SUBSET (Seen \cup {Snapshot}), seq' = NextSeq,
           up = "draining" => seq < NextSeq,
           UNCHANGED <<run, up, started, stepped>>
    PROVE  Compared'
  <1>0. /\ Seen \in SUBSET Messages /\ seq \in Nat /\ NextSeq \in Nat /\ seq <= NextSeq
        /\ run \in Nat /\ started \in Nat
    BY SnapshotType, GossipAssumption DEF TypeOK, Seen
  <1>1. ASSUME NEW m \in Seen PROVE Sent(m)'
    <2>1. m.seq \in Nat
      BY <1>0, <1>1, FieldTypes
    <2> QED BY <1>0, <1>1, <2>1 DEF Compared, Sent
  <1>2. PICK w : w = Snapshot
    OBVIOUS
  <1>3. /\ w.run = run /\ w.started = started /\ w.ready = Ready
        /\ w.drains = (up = "draining") /\ w.seq \in {NextSeq, 0} /\ w.epoch \in {run, 0}
    BY <1>2, SnapshotType
  <1>4. (w.drains => up = "draining") /\ (w.ready => up = "up")
    BY <1>3, Zenon DEF Ready
  <1>5. Sent(w)'
    <2>1. w.run <= run' /\ w.seq <= seq' /\ w.started <= started'
      BY <1>0, <1>3
    <2> QED BY <1>3, <1>4, <2>1 DEF Sent
  <1>6. ASSUME NEW m \in Seen, NEW n \in Seen PROVE Consistent(m, n)'
    BY <1>6 DEF Compared, Consistent, Ordered
  <1>7. ASSUME NEW m \in Seen PROVE Consistent(m, w)' /\ Consistent(w, m)'
    <2>1. m.run \in Nat /\ m.seq \in Nat /\ m.started \in Nat /\ Sent(m)
      BY <1>0, <1>7, FieldTypes DEF Compared
    <2>2. Consistent(m, w)'
      BY <1>0, <1>3, <2>1 DEF Consistent, Sent, Ready
    <2>3. ~(w.run < m.run)
      BY <1>0, <1>3, <2>1 DEF Sent
    <2>4. ASSUME w.run = m.run, Ordered(w), w.drains PROVE m.seq < w.seq
      <3>1. w.seq = NextSeq /\ m.seq <= seq /\ seq < NextSeq
        BY <1>3, <2>1, <2>4 DEF Ordered, Sent
      <3> QED BY <1>0, <2>1, <3>1
    <2> QED BY <2>2, <2>3, <2>4 DEF Consistent, Ordered
  <1>8. Consistent(w, w)'
    BY <1>0, <1>3, <1>4 DEF Consistent
  <1>9. \A m \in Seen' : m \in Seen \/ m = w
    BY <1>2
  <1> QED BY <1>1, <1>5, <1>6, <1>7, <1>8, <1>9 DEF Compared

\* A new process: its start time is not before its predecessor's, or the clock was set
\* back.
LEMMA ComparedRestart ==
    ASSUME TypeOK, Compared, Restart
    PROVE  Compared'
  <1>1. /\ Seen' = Seen /\ run' = run + 1 /\ started' \in Nat /\ started \in Nat
        /\ stepped' = (stepped \/ started' < started) /\ run \in Nat
        /\ Seen \in SUBSET Messages
    BY GossipAssumption DEF Restart, Seen, receiverVars, TypeOK
  <1>2. ASSUME NEW m \in Seen PROVE Sent(m)'
    <2>1. m.run \in Nat /\ m.started \in Nat /\ Sent(m)
      BY <1>1, <1>2, FieldTypes DEF Compared
    <2>2. m.run <= run' /\ m.run # run'
      BY <1>1, <2>1 DEF Sent
    <2>3. ASSUME ~stepped' PROVE m.started <= started'
      <3>1. ~stepped /\ ~(started' < started)
        BY <1>1, <2>3, Zenon
      <3>2. m.started <= started
        BY <2>1, <3>1 DEF Sent
      <3> QED BY <1>1, <2>1, <3>1, <3>2
    <2> QED BY <2>1, <2>2, <2>3 DEF Sent
  <1>3. ASSUME NEW m \in Seen, NEW n \in Seen PROVE Consistent(m, n)'
    BY <1>1, <1>3 DEF Compared, Consistent, Ordered
  <1> QED BY <1>1, <1>2, <1>3 DEF Compared

LEMMA IInvStep == IInv /\ [Next]_vars => IInv'
  <1> SUFFICES ASSUME IInv, [Next]_vars PROVE IInv'
    OBVIOUS
  <1>0. TypeOK /\ Compared /\ (~known => peer = Placeholder)
    BY DEF IInv, Compared
  <1>1. CASE Round \/ DrainRound
    <2>1. seq' = NextSeq /\ (up = "draining" => seq < NextSeq)
      BY <1>0, <1>1, GossipAssumption DEF Round, DrainRound, NextSeq, TypeOK
    <2>2. /\ net' \in SUBSET (net \cup {Snapshot})
          /\ UNCHANGED <<run, up, stamps, started, stepped, has_binary, announced, known,
                         peer, age>>
      BY <1>1 DEF Round, DrainRound, receiverVars
    <2>3. TypeOK'
      BY <1>0, <2>1, <2>2, SnapshotType DEF TypeOK
    <2>4. Compared'
      BY <1>0, <2>1, <2>2, ComparedGrows DEF Seen
    <2> QED BY <1>0, <2>2, <2>3, <2>4 DEF IInv, Compared
  <1>2. CASE DrainSent \/ BinaryAppears \/ BeginDrain \/ Exit
    <2>1. /\ UNCHANGED <<run, stamps, started, stepped, seq, net, known, peer, age>>
          /\ up' = up \/ up' # "up"
      BY <1>2 DEF DrainSent, BinaryAppears, BeginDrain, Exit, receiverVars
    <2>2. TypeOK'
      BY <1>0, <1>2, <2>1 DEF DrainSent, BinaryAppears, BeginDrain, Exit, TypeOK
    <2>3. Compared'
      BY <1>0, <2>1, ComparedShrinks DEF Seen
    <2> QED BY <1>0, <2>1, <2>2, <2>3 DEF IInv, Compared
  <1>3. CASE Restart
    <2>1. UNCHANGED <<net, known, peer, age>>
      BY <1>3 DEF Restart, receiverVars
    <2>2. TypeOK'
      <3>1. run' \in 1 .. MaxRuns /\ seq' \in 0 .. MaxSeq
        BY <1>0, <1>3, GossipAssumption DEF Restart, TypeOK
      <3>2. stamps' \in BOOLEAN /\ stepped' \in BOOLEAN /\ started' \in Seconds
        BY <1>0, <1>3 DEF Restart, TypeOK
      <3> QED BY <1>0, <1>3, <2>1, <3>1, <3>2 DEF Restart, TypeOK
    <2> QED BY <1>0, <1>3, <2>1, <2>2, ComparedRestart DEF IInv, Compared
  <1>4. CASE HearOf
    <2>1. peer = Placeholder /\ peer' = peer /\ UNCHANGED <<senderVars, net>>
      BY <1>0, <1>4 DEF HearOf
    <2>2. TypeOK'
      <3>1. age' \in 0 .. Timeout + 1 /\ known' \in BOOLEAN
        BY <1>4, GossipAssumption DEF HearOf
      <3> QED BY <1>0, <2>1, <3>1 DEF TypeOK, senderVars
    <2>3. Compared'
      BY <1>0, <2>1, ComparedShrinks DEF Seen, senderVars
    <2> QED BY <1>0, <2>1, <2>2, <2>3 DEF IInv, Compared
  <1>5. CASE Tick
    <2>1. TypeOK'
      <3>1. age' \in 0 .. Timeout + 1
        BY <1>0, <1>5, GossipAssumption DEF Tick, TypeOK
      <3> QED BY <1>0, <1>5, <3>1 DEF Tick, TypeOK, senderVars
    <2>2. Compared'
      BY <1>0, <1>5, ComparedShrinks DEF Tick, Seen, senderVars
    <2> QED BY <1>0, <1>5, <2>1, <2>2 DEF Tick, IInv, Compared
  <1>6. ASSUME NEW m \in net, Lose(m) \/ Ignore(m) PROVE IInv'
    <2>1. net' \in SUBSET net /\ UNCHANGED <<senderVars, receiverVars>>
      BY <1>6 DEF Lose, Ignore
    <2>2. TypeOK'
      BY <1>0, <2>1 DEF TypeOK, senderVars, receiverVars
    <2>3. Compared'
      BY <1>0, <2>1, ComparedShrinks DEF Seen, senderVars, receiverVars
    <2> QED BY <1>0, <2>1, <2>2, <2>3 DEF IInv, Compared, receiverVars
  <1>7. ASSUME NEW m \in net, Accept(m) PROVE IInv'
    <2>1. /\ net' \in SUBSET net /\ peer' = m /\ known' = TRUE /\ age' = 0
          /\ UNCHANGED senderVars
      BY <1>7 DEF Accept
    <2>2. TypeOK'
      <3>1. 0 \in 0 .. Timeout + 1
        BY GossipAssumption
      <3> QED BY <1>0, <2>1, <3>1 DEF TypeOK, senderVars
    <2>3. Compared'
      BY <1>0, <2>1, ComparedShrinks DEF Seen, senderVars
    <2> QED BY <1>0, <2>1, <2>2, <2>3 DEF IInv, Compared
  <1>8. CASE UNCHANGED vars
    <2>1. UNCHANGED <<senderVars, net, receiverVars>>
      BY <1>8 DEF vars
    <2>2. TypeOK'
      BY <1>0, <2>1 DEF TypeOK, senderVars, receiverVars
    <2>3. Compared'
      BY <1>0, <2>1, ComparedShrinks DEF Seen, senderVars, receiverVars
    <2> QED BY <1>0, <2>1, <2>2, <2>3 DEF IInv, Compared, receiverVars
  <1> QED BY <1>1, <1>2, <1>3, <1>4, <1>5, <1>6, <1>7, <1>8 DEF Next

----------------------------------------------------------------------------
(* The theorem.                                                            *)

\* The entry changes only to a message the receiver's comparison lets through.
LEMMA EntryChanges ==
    ASSUME IInv, [Next]_vars, Ordered(peer)
    PROVE  \/ peer' = peer
           \/ \E m \in net : peer' = m /\ (Fresh => Newer(m))
  <1>1. known
    BY DEF IInv, Ordered, Placeholder
  <1>2. ASSUME NEW m \in net, Accept(m) PROVE peer' = m /\ (Fresh => Newer(m))
    BY <1>1, <1>2 DEF Accept, Accepts
  <1>3. ASSUME HearOf PROVE FALSE
    BY <1>1, <1>3 DEF HearOf
  <1>4. ASSUME \/ Round \/ DrainRound \/ DrainSent \/ BinaryAppears \/ BeginDrain \/ Exit
               \/ Restart \/ Tick \/ (\E m \in net : Lose(m) \/ Ignore(m)) \/ UNCHANGED vars
        PROVE  peer' = peer
    BY <1>4 DEF Round, DrainRound, DrainSent, BinaryAppears, BeginDrain, Exit, Restart, Tick,
                Lose, Ignore, vars, receiverVars
  <1> QED BY <1>2, <1>3, <1>4 DEF Next

\* process_gossip_message: whatever is lost, repeated or overtaken on the way, and however
\* often the sender restarts, a fresh entry that shows a process draining is not made
\* routable by an earlier state of that process, and while clocks run forward an entry is
\* not replaced by an earlier process's that started in another second.
THEOREM NotMisled == Spec => ReceiverIsNotMisled
  <1>1. ASSUME IInv, [Next]_vars PROVE DrainIsNotUndone
    <2> SUFFICES ASSUME Ordered(peer), peer.drains, Fresh, peer'.run = peer.run
                 PROVE  ~peer'.ready
      BY DEF DrainIsNotUndone
    <2>1. Compared /\ TypeOK
      BY <1>1 DEF IInv, Compared
    <2>2. CASE peer' = peer
      BY <2>1, <2>2 DEF Compared, Sent, Seen
    <2>3. ASSUME NEW m \in net, peer' = m, Newer(m) PROVE ~peer'.ready
      <3>1. m \in Seen /\ peer \in Seen /\ m \in Messages /\ peer \in Messages
        BY <2>1 DEF Seen, TypeOK
      <3>2. Sent(m) /\ Sent(peer) /\ Consistent(peer, m)
        BY <2>1, <3>1 DEF Compared
      <3>3. Ordered(m) /\ m.epoch = peer.epoch /\ m.seq > peer.seq
        BY <2>3, <3>2 DEF Newer, Ordered, Sent
      <3>4. ~(m.seq < peer.seq)
        BY <3>1, <3>3, FieldTypes
      <3> QED BY <2>3, <3>2, <3>3, <3>4 DEF Consistent
    <2> QED BY <1>1, <2>2, <2>3, EntryChanges
  <1>2. ASSUME IInv, [Next]_vars PROVE OldProcessesAreIgnored
    <2> SUFFICES ASSUME ~stepped, known, Fresh, Ordered(peer), peer'.run < peer.run
                 PROVE  peer'.started = peer.started
      BY DEF OldProcessesAreIgnored
    <2>1. Compared /\ TypeOK
      BY <1>2 DEF IInv, Compared
    <2>2. CASE peer' = peer
      BY <2>2
    <2>3. ASSUME NEW m \in net, peer' = m, Newer(m) PROVE peer'.started = peer.started
      <3>1. m \in Seen /\ peer \in Seen /\ m \in Messages /\ peer \in Messages
        BY <2>1 DEF Seen, TypeOK
      <3>2. Sent(m) /\ Sent(peer) /\ Consistent(m, peer)
        BY <2>1, <3>1 DEF Compared
      <3>3. /\ m.run \in Nat /\ peer.run \in Nat /\ m.started \in Nat
            /\ peer.started \in Nat /\ m.run < peer.run
        BY <2>3, <3>1, FieldTypes
      <3>4. Ordered(m) /\ m.epoch # peer.epoch
        BY <2>3, <3>2, <3>3 DEF Newer, Ordered, Sent
      <3>5. m.started >= peer.started /\ m.started <= peer.started
        BY <2>3, <3>2, <3>3, <3>4 DEF Newer, Consistent
      <3> QED BY <2>3, <3>3, <3>5
    <2> QED BY <1>2, <2>2, <2>3, EntryChanges
  <1>3. IInv /\ [Next]_vars => [TypeOK' /\ DrainIsNotUndone /\ OldProcessesAreIgnored]_vars
    BY <1>1, <1>2, IInvStep DEF IInv
  <1> QED BY <1>3, IInvInit, IInvStep, PTL DEF Spec, ReceiverIsNotMisled

=============================================================================
