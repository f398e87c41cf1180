------------------------ MODULE CircuitBreakerProofs ------------------------
(***************************************************************************)
(* Proofs about CircuitBreaker, for any number of senders and any settings. *)
(*                                                                         *)
(* ProbePacing compares two tickets.  What makes it inductive ties each of  *)
(* them to last_probe_ms, which they all contend for: a ticket of this      *)
(* block window is no younger than the stamp, and a claimant whose          *)
(* compare_exchange would still succeed has loaded a stamp that was an      *)
(* interval old.                                                           *)
(***************************************************************************)
EXTENDS CircuitBreaker, TLAPS

\* The types of the circuit's own fields, and of what the dispatches carry
CircuitTypes ==
    /\ state \in {"Closed", "Open", "HalfOpen"}
    /\ failure_count \in 0..FailureThreshold
    /\ success_count \in 0..SuccessThreshold
    /\ consecutive_opens \in 0..MaxOpens
    /\ change_age \in 0..BackoffMax
    /\ probe_age \in 0..ProbeInterval

FlagTypes ==
    /\ present \in BOOLEAN
    /\ url_keyed \in BOOLEAN
    /\ peer_up \in BOOLEAN
    /\ retired \in BOOLEAN
    /\ phase \in [Senders -> {"idle", "claiming", "sent", "ok", "failed"}]
    /\ ticket \in [Senders -> BOOLEAN]
    /\ fresh \in [Senders -> BOOLEAN]
    /\ current \in [Senders -> BOOLEAN]

AgeTypes == claim_age \in [Senders -> 0..ProbeInterval]

CInv == CircuitTypes /\ AgeTypes /\ CountersMatchState

\* The stamp is that of the last ticket handed out
StampIsLatest ==
    \A s \in Senders : ticket[s] /\ current[s] => claim_age[s] >= probe_age

\* A claimant loaded a free slot, and nobody has stamped it since
FreshMeansFree ==
    \A s \in Senders : phase[s] = "claiming" /\ fresh[s] => probe_age = ProbeInterval

\* A ticket is carried from the claim to the report only
TicketsAreSent ==
    \A s \in Senders : ticket[s] => phase[s] \notin {"idle", "claiming"}

PInv == TicketsAreSent /\ StampIsLatest /\ FreshMeansFree /\ ProbePacing

USE ThresholdAssumption, TimesAssumption

----------------------------------------------------------------------------
LEMMA LesserFacts ==
    ASSUME NEW a \in Nat, NEW b \in Nat
    PROVE  Lesser(a, b) \in 0..b
  BY DEF Lesser

\* What a record leaves of the senders: the dispatch is over.
LEMMA RecordEnds ==
    ASSUME NEW s \in Senders, Record(s)
    PROVE  /\ WriteLock
           /\ present' = TRUE
           /\ Idle(s)
           /\ UNCHANGED <<claim_age, fresh, url_keyed, peer_up, retired>>
           /\ ResetProbe(s) \/ KeepProbe(s)
  <1>1. CASE Buffered(s)
    BY <1>1, Zenon DEF Buffered, RecordSuccess, SuccessClosed, SuccessUnticketed,
             SuccessHalfOpen, SuccessOpen, CloseAfterRecovery, EnterHalfOpen
  <1>2. CASE Streaming(s)
    BY <1>2, Zenon DEF Streaming, RecordSuccess, SuccessClosed, SuccessUnticketed,
             SuccessHalfOpen, SuccessOpen, CloseAfterRecovery, EnterHalfOpen
  <1>3. CASE Failed(s)
    BY <1>3, Zenon DEF Failed, RecordFailure, FailureClosed, FailureUnticketed,
             FailureReopens, OpenCircuit
  <1> QED
    BY <1>1, <1>2, <1>3, Zenon DEF Record

\* Each way a result is recorded keeps the counters in step with the state.
LEMMA RecordCounts ==
    ASSUME CInv, NEW s \in Senders, Record(s)
    PROVE  CircuitTypes' /\ CountersMatchState'
  <1> USE DEF CInv, CircuitTypes, CountersMatchState, MaxOpens, MaxExponent, KeepProbe, ResetProbe
  <1>1. CASE SuccessClosed(s)
    BY <1>1 DEF SuccessClosed
  <1>2. CASE SuccessUnticketed(s)
    BY <1>2 DEF SuccessUnticketed
  <1>3. CASE SuccessHalfOpen(s)
    <2>1. success_count' \in 1..SuccessThreshold
      BY <1>3 DEF SuccessHalfOpen
    <2>2. CASE CloseAfterRecovery(s)
      BY <2>1, <2>2 DEF CloseAfterRecovery
    <2>3. CASE /\ ~(success_count + 1 >= SuccessThreshold)
               /\ KeepProbe(s)
               /\ UNCHANGED <<state, failure_count, consecutive_opens, change_age>>
      BY <1>3, <2>3 DEF SuccessHalfOpen
    <2> QED BY <1>3, <2>2, <2>3 DEF SuccessHalfOpen
  <1>4. CASE SuccessOpen(s)
    <2>1. CASE CloseAfterRecovery(s)
      BY <1>4, <2>1 DEF SuccessOpen, CloseAfterRecovery
    <2>2. CASE ~(1 >= SuccessThreshold) /\ EnterHalfOpen(s)
      BY <1>4, <2>2 DEF SuccessOpen, EnterHalfOpen
    <2> QED BY <1>4, <2>1, <2>2 DEF SuccessOpen
  <1>5. CASE RecordFailure(s)
    <2>1. failure_count' \in 0..FailureThreshold
      BY <1>5, LesserFacts DEF RecordFailure
    <2>2. CASE OpenCircuit(s)
      <3>1. consecutive_opens' \in 1..MaxOpens
        BY <2>2 DEF OpenCircuit, Lesser
      <3> QED BY <2>1, <2>2, <3>1 DEF OpenCircuit
    <2>3. CASE FailureUnticketed(s)
      BY <2>1, <2>3 DEF FailureUnticketed
    <2>4. CASE FailureClosed(s) /\ ~(failure_count + 1 >= FailureThreshold)
      <3>1. failure_count' < FailureThreshold
        BY <1>5, <2>4 DEF RecordFailure, Lesser
      <3> QED BY <2>1, <2>4, <3>1 DEF FailureClosed
    <2> QED
      BY <1>5, <2>2, <2>3, <2>4 DEF RecordFailure, FailureClosed, FailureReopens
  <1>6. SuccessClosed(s) \/ SuccessUnticketed(s) \/ SuccessHalfOpen(s) \/ SuccessOpen(s)
        \/ RecordFailure(s)
    BY Zenon DEF Record, Buffered, Streaming, Failed, RecordSuccess
  <1> QED
    BY <1>1, <1>2, <1>3, <1>4, <1>5, <1>6

----------------------------------------------------------------------------
LEMMA CInvInit == Init => CInv
  BY DEF Init, CInv, CircuitTypes, AgeTypes, CountersMatchState, MaxOpens, MaxExponent

\* The counters change in Record, Forget and Tick only.
LEMMA CInvStep == CInv /\ [Next]_vars => CInv'
  <1> SUFFICES ASSUME CInv, [Next]_vars PROVE CInv'
      OBVIOUS
  <1> USE DEF CInv, CircuitTypes, AgeTypes
  <1>1. CASE UNCHANGED <<circuit, probe_age, claim_age>>
    BY <1>1 DEF circuit, CountersMatchState
  <1>2. ASSUME NEW s \in Senders, BeginClaim(s) PROVE CInv'
    BY <1>2 DEF BeginClaim, circuit, CountersMatchState
  <1>3. ASSUME NEW s \in Senders, FinishClaim(s) PROVE CInv'
    <2>1. UNCHANGED <<circuit, claim_age>> /\ probe_age' \in {probe_age, claim_age[s]}
      BY <1>3, Zenon DEF FinishClaim
    <2> QED BY <2>1 DEF circuit, CountersMatchState
  <1>4. ASSUME NEW s \in Senders, Record(s) PROVE CInv'
    <2>1. CircuitTypes' /\ CountersMatchState'
      BY <1>4, RecordCounts
    <2>2. UNCHANGED claim_age
      BY <1>4, RecordEnds, Zenon
    <2> QED BY <2>1, <2>2
  <1>5. CASE Forget
    BY <1>5 DEF Forget, CountersMatchState, MaxOpens, MaxExponent
  <1>6. CASE Tick
    <2>1. change_age' \in 0..BackoffMax /\ probe_age' \in 0..ProbeInterval
      BY <1>6, LesserFacts DEF Tick
    <2>2. claim_age' \in [Senders -> 0..ProbeInterval]
      BY <1>6, LesserFacts DEF Tick
    <2> QED BY <1>6, <2>1, <2>2 DEF Tick, CountersMatchState
  <1>7. ASSUME NEW s \in Senders,
               AdmitClosed(s) \/ AdmitContended(s) \/ DenyBlocked(s) \/ Reply(s) \/ Neutral(s)
        PROVE  UNCHANGED <<circuit, probe_age, claim_age>>
    BY <1>7, Zenon DEF AdmitClosed, AdmitContended, DenyBlocked, Reply, Neutral
  <1>8. Rekey \/ PeerFlips \/ UNCHANGED vars => UNCHANGED <<circuit, probe_age, claim_age>>
    BY DEF Rekey, PeerFlips, vars, senders, circuit
  <1> QED
    BY <1>1, <1>2, <1>3, <1>4, <1>5, <1>6, <1>7, <1>8, Zenon DEF Next, Dispatch

LEMMA FlagTypesInit == Init => FlagTypes
  BY Zenon DEF Init, FlagTypes

LEMMA FlagTypesStep == FlagTypes /\ [Next]_vars => FlagTypes'
  <1> SUFFICES ASSUME FlagTypes, [Next]_vars PROVE FlagTypes'
      OBVIOUS
  <1> USE DEF FlagTypes
  <1>1. CASE UNCHANGED <<present, url_keyed, peer_up, retired, phase, ticket, fresh, current>>
    BY <1>1, Zenon
  <1>2. ASSUME NEW s \in Senders, Dispatch(s) PROVE FlagTypes'
    <2>1. ASSUME NEW t \in BOOLEAN, Send(s, t)
          PROVE  /\ phase' \in [Senders -> {"idle", "claiming", "sent", "ok", "failed"}]
                 /\ ticket' \in [Senders -> BOOLEAN]
                 /\ current' \in [Senders -> BOOLEAN]
      BY <2>1 DEF Send
    <2>2. ASSUME Deny(s)
          PROVE  /\ phase' \in [Senders -> {"idle", "claiming", "sent", "ok", "failed"}]
                 /\ ticket' \in [Senders -> BOOLEAN]
                 /\ current' \in [Senders -> BOOLEAN]
      BY <2>1, <2>2, Zenon DEF Deny
    <2>3. CASE AdmitClosed(s) \/ AdmitContended(s)
      BY <2>1, <2>3, Zenon DEF AdmitClosed, AdmitContended, circuit
    <2>4. CASE DenyBlocked(s)
      BY <2>2, <2>4 DEF DenyBlocked, circuit
    <2>5. CASE BeginClaim(s)
      BY <2>5 DEF BeginClaim, circuit
    <2>6. CASE FinishClaim(s)
      <3>1. UNCHANGED <<present, url_keyed, peer_up, retired>>
        BY <2>6 DEF FinishClaim, circuit
      <3>2. CASE Send(s, TRUE) /\ fresh' = [r \in Senders |-> FALSE]
        BY <2>1, <3>1, <3>2, Zenon
      <3>3. CASE Deny(s) /\ UNCHANGED fresh
        BY <2>2, <3>1, <3>3
      <3> QED BY <2>6, <3>2, <3>3, Zenon DEF FinishClaim
    <2> QED
      BY <1>2, <2>3, <2>4, <2>5, <2>6, Zenon DEF Dispatch
  <1>3. ASSUME NEW s \in Senders, Reply(s) PROVE FlagTypes'
    BY <1>3 DEF Reply, circuit
  <1>4. ASSUME NEW s \in Senders, Record(s) PROVE FlagTypes'
    <2>1. /\ present' = TRUE
          /\ UNCHANGED <<fresh, url_keyed, peer_up, retired>>
          /\ phase' = [phase EXCEPT ![s] = "idle"]
          /\ ticket' = [ticket EXCEPT ![s] = FALSE]
          /\ \/ current' = [r \in Senders |-> FALSE]
             \/ current' = [current EXCEPT ![s] = FALSE]
      BY <1>4, RecordEnds, Zenon DEF Idle, ResetProbe, KeepProbe
    <2> QED BY <2>1, Zenon
  <1>5. ASSUME NEW s \in Senders, Neutral(s) PROVE FlagTypes'
    BY <1>5 DEF Neutral, Idle, circuit
  <1>6. CASE Rekey
    BY <1>6 DEF Rekey, circuit, senders
  <1>7. CASE Forget
    BY <1>7, Zenon DEF Forget
  <1>8. CASE PeerFlips
    BY <1>8 DEF PeerFlips, circuit, senders
  <1>9. Tick \/ UNCHANGED vars
        => UNCHANGED <<present, url_keyed, peer_up, retired, phase, ticket, fresh, current>>
    BY Zenon DEF Tick, vars
  <1> QED
    BY <1>1, <1>2, <1>3, <1>4, <1>5, <1>6, <1>7, <1>8, <1>9, Zenon DEF Next

----------------------------------------------------------------------------
LEMMA PInvInit == Init => PInv
  BY DEF Init, PInv, TicketsAreSent, StampIsLatest, FreshMeansFree, ProbePacing

\* A step that hands out no ticket, starts no claim and leaves the stamp alone.
LEMMA PInvQuiet ==
    ASSUME FlagTypes, PInv,
           UNCHANGED <<probe_age, claim_age>>,
           \A r \in Senders :
              /\ phase'[r] = "claiming" => phase[r] = "claiming"
              /\ fresh'[r] => fresh[r]
              /\ ticket'[r] => ticket[r] /\ phase'[r] \notin {"idle", "claiming"}
              /\ current'[r] => current[r] \/ ~ticket'[r]
    PROVE  PInv'
  <1> USE DEF FlagTypes, PInv
  <1>1. TicketsAreSent'
    BY DEF TicketsAreSent
  <1>2. StampIsLatest'
    BY DEF StampIsLatest
  <1>3. FreshMeansFree'
    BY DEF FreshMeansFree
  <1>4. ProbePacing'
    BY DEF ProbePacing
  <1> QED BY <1>1, <1>2, <1>3, <1>4

\* After reset_probe no ticket is of the current window, and no claimant is at work.
LEMMA PInvReset ==
    ASSUME FlagTypes, PInv, WriteLock,
           current' = [r \in Senders |-> FALSE],
           \A r \in Senders :
              /\ phase'[r] = phase[r] \/ (phase'[r] = "idle" /\ ~ticket'[r])
              /\ ticket'[r] => ticket[r]
    PROVE  PInv'
  <1> USE DEF FlagTypes, PInv
  <1>1. TicketsAreSent'
    BY DEF TicketsAreSent
  <1>2. StampIsLatest' /\ ProbePacing'
    BY DEF StampIsLatest, ProbePacing
  <1>3. FreshMeansFree'
    BY DEF FreshMeansFree, WriteLock
  <1> QED BY <1>1, <1>2, <1>3

\* The winner of a claim: the slot was free, so every other ticket is an interval old.
LEMMA PInvClaim ==
    ASSUME CInv, FlagTypes, PInv, NEW s \in Senders, FinishClaim(s), ClaimWins(s)
    PROVE  PInv'
  <1> USE DEF FlagTypes, CInv, CircuitTypes, AgeTypes, PInv
  <1>1. /\ probe_age' = claim_age[s]
        /\ fresh' = [r \in Senders |-> FALSE]
        /\ phase[s] = "claiming"
        /\ phase' = [phase EXCEPT ![s] = "sent"]
        /\ ticket' = [ticket EXCEPT ![s] = TRUE]
        /\ current' = [current EXCEPT ![s] = TRUE]
        /\ claim_age' = claim_age
    BY Zenon DEF FinishClaim, Send
  <1>2. \A r \in Senders : ticket[r] /\ current[r] => claim_age[r] = ProbeInterval
    <2>1. CASE fresh[s]
      BY <1>1, <2>1 DEF StampIsLatest, FreshMeansFree
    <2>2. CASE ProbeInterval = 0
      BY <2>2
    <2> QED BY <2>1, <2>2 DEF ClaimWins
  <1>3. \A r \in Senders : r # s => ticket'[r] = ticket[r] /\ current'[r] = current[r]
    BY <1>1
  <1>4. TicketsAreSent'
    BY <1>1 DEF TicketsAreSent
  <1>5. StampIsLatest'
    BY <1>1, <1>2, <1>3 DEF StampIsLatest
  <1>6. FreshMeansFree'
    BY <1>1 DEF FreshMeansFree
  <1>7. ProbePacing'
    BY <1>1, <1>2, <1>3 DEF ProbePacing
  <1> QED BY <1>4, <1>5, <1>6, <1>7

LEMMA PInvStep == CInv /\ FlagTypes /\ PInv /\ [Next]_vars => PInv'
  <1> SUFFICES ASSUME CInv, FlagTypes, PInv, [Next]_vars PROVE PInv'
      OBVIOUS
  <1>1. CASE UNCHANGED <<probe_age, phase, ticket, claim_age, fresh, current>>
    BY <1>1, Zenon DEF PInv, TicketsAreSent, StampIsLatest, FreshMeansFree, ProbePacing
  <1>2. ASSUME NEW s \in Senders, phase[s] # "claiming" \/ ~ClaimWins(s), Send(s, FALSE),
               UNCHANGED <<probe_age, claim_age, fresh>>
        PROVE  PInv'
    <2>1. \A r \in Senders :
              /\ phase'[r] = "claiming" => phase[r] = "claiming"
              /\ fresh'[r] => fresh[r]
              /\ ticket'[r] => ticket[r] /\ phase'[r] \notin {"idle", "claiming"}
              /\ current'[r] => current[r] \/ ~ticket'[r]
      BY <1>2 DEF Send, FlagTypes, PInv, TicketsAreSent
    <2> QED BY <1>2, <2>1, PInvQuiet
  <1>3. ASSUME NEW s \in Senders, phase[s] \in {"idle", "claiming"}, Deny(s),
               UNCHANGED <<probe_age, claim_age, fresh>>
        PROVE  PInv'
    <2>1. \A r \in Senders :
              /\ phase'[r] = "claiming" => phase[r] = "claiming"
              /\ fresh'[r] => fresh[r]
              /\ ticket'[r] => ticket[r] /\ phase'[r] \notin {"idle", "claiming"}
              /\ current'[r] => current[r] \/ ~ticket'[r]
      BY <1>3 DEF Deny, Send, FlagTypes, PInv, TicketsAreSent
    <2> QED BY <1>3, <2>1, PInvQuiet
  <1>4. ASSUME NEW s \in Senders, AdmitClosed(s) \/ AdmitContended(s) PROVE PInv'
    <2>1. phase[s] # "claiming" /\ Send(s, FALSE) /\ UNCHANGED <<probe_age, claim_age, fresh>>
      BY <1>4, Zenon DEF AdmitClosed, AdmitContended, MayDispatch
    <2> QED BY <1>2, <2>1, Zenon
  <1>5. ASSUME NEW s \in Senders, DenyBlocked(s) PROVE PInv'
    BY <1>3, <1>5 DEF DenyBlocked, MayDispatch
  <1>6. ASSUME NEW s \in Senders, BeginClaim(s) PROVE PInv'
    <2>1. /\ phase[s] = "idle" /\ probe_age = ProbeInterval
          /\ phase' = [phase EXCEPT ![s] = "claiming"]
          /\ claim_age' = [claim_age EXCEPT ![s] = 0]
          /\ UNCHANGED <<probe_age, ticket, current>>
      BY <1>6 DEF BeginClaim, MayDispatch, ProbeSlotFree, CInv, CircuitTypes
    <2>2. ~ticket[s]
      BY <2>1 DEF PInv, TicketsAreSent
    <2>3. \A r \in Senders : ticket[r] => r # s /\ phase'[r] = phase[r] /\ claim_age'[r] = claim_age[r]
      BY <2>1, <2>2 DEF FlagTypes, CInv, AgeTypes
    <2>4. TicketsAreSent'
      BY <2>1, <2>3 DEF PInv, TicketsAreSent
    <2>5. StampIsLatest'
      BY <2>1, <2>3 DEF PInv, StampIsLatest
    <2>6. FreshMeansFree'
      BY <2>1 DEF FreshMeansFree
    <2>7. ProbePacing'
      BY <2>1, <2>3 DEF PInv, ProbePacing
    <2> QED BY <2>4, <2>5, <2>6, <2>7 DEF PInv
  <1>7. ASSUME NEW s \in Senders, FinishClaim(s) PROVE PInv'
    <2>1. CASE ClaimWins(s)
      BY <1>7, <2>1, PInvClaim
    <2>2. CASE ~ClaimWins(s)
      BY <1>3, <1>7, <2>2, Zenon DEF FinishClaim
    <2> QED BY <2>1, <2>2
  <1>8. ASSUME NEW s \in Senders, Reply(s) PROVE PInv'
    <2>1. \A r \in Senders :
              /\ phase'[r] = "claiming" => phase[r] = "claiming"
              /\ fresh'[r] => fresh[r]
              /\ ticket'[r] => ticket[r] /\ phase'[r] \notin {"idle", "claiming"}
              /\ current'[r] => current[r] \/ ~ticket'[r]
      BY <1>8 DEF Reply, FlagTypes, PInv, TicketsAreSent
    <2> QED BY <1>8, <2>1, PInvQuiet DEF Reply
  <1>9. ASSUME NEW s \in Senders, Idle(s), UNCHANGED <<probe_age, claim_age, fresh>>,
               current' = [current EXCEPT ![s] = FALSE]
        PROVE  PInv'
    <2>1. \A r \in Senders :
              /\ phase'[r] = "claiming" => phase[r] = "claiming"
              /\ fresh'[r] => fresh[r]
              /\ ticket'[r] => ticket[r] /\ phase'[r] \notin {"idle", "claiming"}
              /\ current'[r] => current[r] \/ ~ticket'[r]
      BY <1>9 DEF Idle, FlagTypes, PInv, TicketsAreSent
    <2> QED BY <1>9, <2>1, PInvQuiet
  <1>10. ASSUME NEW s \in Senders, Neutral(s) PROVE PInv'
    BY <1>9, <1>10, Zenon DEF Neutral
  <1>11. ASSUME NEW s \in Senders, Record(s) PROVE PInv'
    <2>1. CASE KeepProbe(s)
      BY <1>9, <1>11, <2>1, RecordEnds, Zenon DEF KeepProbe
    <2>2. CASE ResetProbe(s)
      <3>1. /\ WriteLock
            /\ phase' = [phase EXCEPT ![s] = "idle"]
            /\ ticket' = [ticket EXCEPT ![s] = FALSE]
            /\ current' = [r \in Senders |-> FALSE]
        BY <1>11, <2>2, RecordEnds, Zenon DEF Idle, ResetProbe
      <3>2. ASSUME NEW r \in Senders
            PROVE  /\ phase'[r] = phase[r] \/ (phase'[r] = "idle" /\ ~ticket'[r])
                   /\ ticket'[r] => ticket[r]
        <4>1. CASE r = s
          <5>1. phase'[s] = "idle" /\ ticket'[s] = FALSE
            BY <3>1 DEF FlagTypes
          <5> QED BY <4>1, <5>1, Zenon
        <4>2. CASE r # s
          <5>1. phase'[r] = phase[r] /\ ticket'[r] = ticket[r]
            BY <3>1, <4>2 DEF FlagTypes
          <5> QED BY <5>1
        <4> QED BY <4>1, <4>2
      <3> QED BY <3>1, <3>2, PInvReset
    <2> QED BY <1>11, <2>1, <2>2, RecordEnds, Zenon
  <1>12. CASE Forget
    <2>1. /\ WriteLock
          /\ current' = [r \in Senders |-> FALSE]
          /\ UNCHANGED <<phase, ticket>>
      BY <1>12, Zenon DEF Forget
    <2>2. \A r \in Senders : phase'[r] = phase[r] /\ ticket'[r] = ticket[r]
      BY <2>1
    <2>3. \A r \in Senders :
              /\ phase'[r] = phase[r] \/ (phase'[r] = "idle" /\ ~ticket'[r])
              /\ ticket'[r] => ticket[r]
      BY <2>2
    <2> QED BY <2>1, <2>3, PInvReset
  <1>13. CASE Tick
    <2>1. /\ UNCHANGED <<phase, ticket, fresh, current>>
          /\ probe_age' = Lesser(probe_age + 1, ProbeInterval)
          /\ claim_age' = [s \in Senders |-> Lesser(claim_age[s] + 1, ProbeInterval)]
      BY <1>13 DEF Tick
    <2> USE DEF CInv, CircuitTypes, AgeTypes, PInv, Lesser
    <2>2. TicketsAreSent'
      BY <2>1 DEF TicketsAreSent
    <2>3. StampIsLatest'
      BY <2>1 DEF StampIsLatest
    <2>4. FreshMeansFree'
      BY <2>1 DEF FreshMeansFree
    <2>5. ProbePacing'
      BY <2>1 DEF ProbePacing
    <2> QED BY <2>2, <2>3, <2>4, <2>5
  <1>14. Rekey \/ PeerFlips \/ UNCHANGED vars
         => UNCHANGED <<probe_age, phase, ticket, claim_age, fresh, current>>
    BY DEF Rekey, PeerFlips, vars, senders
  <1> QED
    BY <1>1, <1>4, <1>5, <1>6, <1>7, <1>8, <1>10, <1>11, <1>12, <1>13, <1>14, Zenon
       DEF Next, Dispatch

----------------------------------------------------------------------------
(* Theorems.                                                               *)

\* The counters of circuit_breaker.rs agree with the circuit's state after any
\* sequence of results, of any number of dispatches and for any thresholds.
THEOREM CountersAgree == Spec => []CountersMatchState
  <1>1. CInv => CountersMatchState
    BY DEF CInv
  <1> QED
    BY CInvInit, CInvStep, <1>1, PTL DEF Spec

\* Every variable keeps its type: the counters stay within their thresholds, the
\* ages within what the code compares them with.
THEOREM TypeCorrect == Spec => []TypeOK
  <1>1. CInv /\ FlagTypes => TypeOK
    BY Zenon DEF CInv, FlagTypes, CircuitTypes, AgeTypes, TypeOK
  <1> QED
    BY CInvInit, CInvStep, FlagTypesInit, FlagTypesStep, <1>1, PTL DEF Spec

\* try_claim_probe hands out one ticket per interval and block window, whatever the
\* loads, compare_exchanges, results and resets of any number of dispatches
\* interleave to.
THEOREM ProbesArePaced == Spec => []ProbePacing
  <1>1. PInv => ProbePacing
    BY DEF PInv
  <1> QED
    BY CInvInit, CInvStep, FlagTypesInit, FlagTypesStep, PInvInit, PInvStep, <1>1, PTL DEF Spec

=============================================================================
