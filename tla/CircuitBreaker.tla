--------------------------- MODULE CircuitBreaker ---------------------------
(***************************************************************************)
(* One peer's circuit of circuit_breaker.rs, with the dispatches that      *)
(* consult it and report to it: routed requests (router.rs,                *)
(* attempt_peer_forward) and gossip sends (cluster.rs, start_gossip_loop). *)
(*                                                                         *)
(* Circuits of different peers share only the map's lock, so one circuit   *)
(* is enough.  Instants are kept as ages: the time since an instant,       *)
(* saturating at the largest value the code compares it with.  "Never      *)
(* probed" (last_probe_ms = 0) behaves as an age of at least the interval  *)
(* and is represented so.                                                  *)
(*                                                                         *)
(* should_allow and reset have no caller outside the tests and are not     *)
(* modelled.                                                               *)
(***************************************************************************)
EXTENDS Naturals

CONSTANTS
    Requests,           \* routed requests, one dispatch at a time each
    Gossips,            \* gossip sends to this peer
    FailureThreshold,   \* failure_threshold
    SuccessThreshold,   \* success_threshold
    BackoffBase,        \* open_duration_base_ms
    BackoffMax,         \* open_duration_max_ms
    ProbeInterval       \* half_open_probe_interval_ms; 0 disables the pacing

ASSUME SendersAssumption == Requests \cap Gossips = {}
ASSUME ThresholdAssumption ==
    /\ FailureThreshold \in Nat \ {0}
    /\ SuccessThreshold \in Nat \ {0}
ASSUME TimesAssumption ==
    /\ BackoffBase \in Nat
    /\ BackoffMax \in Nat
    /\ ProbeInterval \in Nat

VARIABLES
    present,            \* the map has an entry for the peer
    state,              \* CircuitState
    failure_count,      \* saturates at FailureThreshold
    success_count,
    consecutive_opens,  \* saturates at MaxOpens
    change_age,         \* last_state_change.elapsed()
    probe_age,          \* now - last_probe_ms
    phase,              \* where each dispatch stands
    ticket,             \* the probe ticket each dispatch carries
    claim_age,          \* time since the dispatch read the clock in try_claim_probe
    fresh,              \* last_probe_ms is still what the claimant loaded
    current,            \* history: no reset_probe since the ticket was claimed
    url_keyed,          \* gossip keys this target by its URL, not by a node id
    peer_up,            \* the peer answers
    retired             \* gossip no longer uses this key

circuit == <<present, state, failure_count, success_count, consecutive_opens, change_age>>
senders == <<phase, ticket, claim_age, fresh, current>>
vars == <<present, state, failure_count, success_count, consecutive_opens,
          change_age, probe_age, phase, ticket, claim_age, fresh, current,
          url_keyed, peer_up, retired>>

Senders == Requests \cup Gossips

\* The exponent is capped at 10, so larger values of consecutive_opens behave alike.
MaxExponent == 10
MaxOpens == MaxExponent + 1

Lesser(a, b) == IF a <= b THEN a ELSE b

CalculateBackoff(opens) ==
    LET exponent == Lesser(IF opens = 0 THEN 0 ELSE opens - 1, MaxExponent)
    IN  Lesser(BackoffBase * 2^exponent, BackoffMax)

TypeOK ==
    /\ present \in BOOLEAN
    /\ state \in {"Closed", "Open", "HalfOpen"}
    /\ failure_count \in 0..FailureThreshold
    /\ success_count \in 0..SuccessThreshold
    /\ consecutive_opens \in 0..MaxOpens
    /\ change_age \in 0..BackoffMax
    /\ probe_age \in 0..ProbeInterval
    /\ phase \in [Senders -> {"idle", "claiming", "sent", "ok", "failed"}]
    /\ ticket \in [Senders -> BOOLEAN]
    /\ claim_age \in [Senders -> 0..ProbeInterval]
    /\ fresh \in [Senders -> BOOLEAN]
    /\ current \in [Senders -> BOOLEAN]
    /\ url_keyed \in BOOLEAN
    /\ peer_up \in BOOLEAN
    /\ retired \in BOOLEAN

Init ==
    /\ present = FALSE
    /\ state = "Closed"
    /\ failure_count = 0
    /\ success_count = 0
    /\ consecutive_opens = 0
    /\ change_age = 0
    /\ probe_age = ProbeInterval
    /\ phase = [s \in Senders |-> "idle"]
    /\ ticket = [s \in Senders |-> FALSE]
    /\ claim_age = [s \in Senders |-> ProbeInterval]
    /\ fresh = [s \in Senders |-> FALSE]
    /\ current = [s \in Senders |-> FALSE]
    /\ url_keyed \in BOOLEAN
    /\ peer_up \in BOOLEAN
    /\ retired = FALSE

-----------------------------------------------------------------------------
(* Admission: try_claim_dispatch_sync under the map's read lock.           *)

BackoffElapsed == change_age >= CalculateBackoff(consecutive_opens)

\* The circuit is in its recovery phase: half-open, or open with the backoff over.
Recovering == state = "HalfOpen" \/ (state = "Open" /\ BackoffElapsed)

ProbeSlotFree == probe_age >= ProbeInterval

\* A dispatch leaves with or without the ticket.
Send(s, t) ==
    /\ phase' = [phase EXCEPT ![s] = "sent"]
    /\ ticket' = [ticket EXCEPT ![s] = t]
    /\ current' = [current EXCEPT ![s] = t]

\* Gossip uses the key only while no stored peer has the address.  Routing keys
\* circuits by node id, so only gossip meets a URL's circuit.
MayDispatch(s) == phase[s] = "idle" /\ ~retired /\ (s \in Requests => ~url_keyed)

\* No circuit, or a closed one: admitted without a ticket.
AdmitClosed(s) ==
    /\ MayDispatch(s)
    /\ state = "Closed"
    /\ Send(s, FALSE)
    /\ UNCHANGED <<circuit, probe_age, claim_age, fresh, url_keyed, peer_up, retired>>

\* try_read failed: a writer holds the map, the dispatch is admitted unticketed.
AdmitContended(s) ==
    /\ MayDispatch(s)
    /\ state # "Closed"
    /\ Send(s, FALSE)
    /\ UNCHANGED <<circuit, probe_age, claim_age, fresh, url_keyed, peer_up, retired>>

\* A denied request is not sent (ProbeDenied); gossip is sent all the same.
Deny(s) ==
    \/ /\ s \in Gossips
       /\ Send(s, FALSE)
    \/ /\ s \in Requests
       /\ phase' = [phase EXCEPT ![s] = "idle"]
       /\ UNCHANGED <<ticket, current>>

\* The circuit is blocking, or last_probe_ms is younger than the interval.
DenyBlocked(s) ==
    /\ MayDispatch(s)
    /\ state # "Closed"
    /\ ~(Recovering /\ ProbeSlotFree)
    /\ Deny(s)
    /\ UNCHANGED <<circuit, probe_age, claim_age, fresh, url_keyed, peer_up, retired>>

\* try_claim_probe up to its load: the claimant has read the clock and last_probe_ms.
BeginClaim(s) ==
    /\ MayDispatch(s)
    /\ Recovering
    /\ ProbeSlotFree
    /\ phase' = [phase EXCEPT ![s] = "claiming"]
    /\ claim_age' = [claim_age EXCEPT ![s] = 0]
    /\ fresh' = [fresh EXCEPT ![s] = TRUE]
    /\ UNCHANGED <<circuit, probe_age, ticket, current, url_keyed, peer_up, retired>>

\* Variant: a plain store in place of the compare_exchange.
StoreWins(s) == TRUE

\* compare_exchange succeeds, or the pacing is disabled.
ClaimWins(s) == fresh[s] \/ ProbeInterval = 0

\* try_claim_probe from its compare_exchange on: a winner stamps last_probe_ms.
FinishClaim(s) ==
    /\ phase[s] = "claiming"
    /\ \/ /\ ClaimWins(s)
          /\ probe_age' = claim_age[s]
          /\ fresh' = [r \in Senders |-> FALSE]
          /\ Send(s, TRUE)
       \/ /\ ~ClaimWins(s)
          /\ Deny(s)
          /\ UNCHANGED <<probe_age, fresh>>
    /\ UNCHANGED <<circuit, claim_age, url_keyed, peer_up, retired>>

-----------------------------------------------------------------------------
(* Results: record_success and record_failure under the map's write lock,  *)
(* which waits for the claimants' read locks.                              *)

WriteLock == \A s \in Senders : phase[s] # "claiming"

Idle(s) ==
    /\ phase' = [phase EXCEPT ![s] = "idle"]
    /\ ticket' = [ticket EXCEPT ![s] = FALSE]

\* reset_probe: forgets the pacing, so tickets in flight are of an earlier window.
ResetProbe(s) ==
    /\ probe_age' = ProbeInterval
    /\ current' = [r \in Senders |-> FALSE]

KeepProbe(s) ==
    /\ probe_age' = probe_age
    /\ current' = [current EXCEPT ![s] = FALSE]

\* Variant: closing keeps the failures that opened the circuit.
CloseKeepsFailures(s) ==
    /\ state' = "Closed"
    /\ change_age' = 0
    /\ failure_count' = failure_count
    /\ consecutive_opens' = 0
    /\ ResetProbe(s)

CloseAfterRecovery(s) ==
    /\ state' = "Closed"
    /\ change_age' = 0
    /\ failure_count' = 0
    /\ consecutive_opens' = 0
    /\ ResetProbe(s)

\* The transition an open circuit makes on a ticketed success that does not close it.
EnterHalfOpen(s) ==
    /\ state' = "HalfOpen"
    /\ change_age' = 0
    /\ KeepProbe(s)
    /\ UNCHANGED <<failure_count, consecutive_opens>>

\* record_success by state of the circuit; t is the ticket the caller passes.
SuccessClosed(s) ==
    /\ state = "Closed"
    /\ failure_count' = 0
    /\ KeepProbe(s)
    /\ UNCHANGED <<state, success_count, consecutive_opens, change_age>>

SuccessUnticketed(s) ==
    /\ state # "Closed"
    /\ KeepProbe(s)
    /\ UNCHANGED <<state, failure_count, success_count, consecutive_opens, change_age>>

SuccessHalfOpen(s) ==
    /\ state = "HalfOpen"
    /\ success_count' = success_count + 1
    /\ IF success_count + 1 >= SuccessThreshold
       THEN CloseAfterRecovery(s)
       ELSE /\ KeepProbe(s)
            /\ UNCHANGED <<state, failure_count, consecutive_opens, change_age>>

\* Variant: an open circuit takes no successes.
SuccessOpenIgnored(s) ==
    /\ state = "Open"
    /\ KeepProbe(s)
    /\ UNCHANGED <<state, failure_count, success_count, consecutive_opens, change_age>>

SuccessOpen(s) ==
    /\ state = "Open"
    /\ success_count' = 1
    /\ IF 1 >= SuccessThreshold THEN CloseAfterRecovery(s) ELSE EnterHalfOpen(s)

RecordSuccess(s, t) ==
    /\ WriteLock
    /\ present' = TRUE
    /\ \/ SuccessClosed(s)
       \/ ~t /\ SuccessUnticketed(s)
       \/ t /\ SuccessHalfOpen(s)
       \/ t /\ SuccessOpen(s)
    /\ Idle(s)
    /\ UNCHANGED <<claim_age, fresh, url_keyed, peer_up, retired>>

\* The circuit opens, or starts a new block window with a longer backoff.
OpenCircuit(s) ==
    /\ state' = "Open"
    /\ change_age' = 0
    /\ consecutive_opens' = Lesser(consecutive_opens + 1, MaxOpens)
    /\ success_count' = 0
    /\ ResetProbe(s)

\* A closed circuit opens at the threshold.
FailureClosed(s) ==
    /\ state = "Closed"
    /\ IF failure_count + 1 >= FailureThreshold
       THEN OpenCircuit(s)
       ELSE /\ KeepProbe(s)
            /\ UNCHANGED <<state, success_count, consecutive_opens, change_age>>

\* An unticketed failure only counts.
FailureUnticketed(s) ==
    /\ state # "Closed"
    /\ KeepProbe(s)
    /\ UNCHANGED <<state, success_count, consecutive_opens, change_age>>

\* Variant: a failed probe only counts.
FailedProbeCounts(s) ==
    /\ state # "Closed"
    /\ KeepProbe(s)
    /\ UNCHANGED <<state, success_count, consecutive_opens, change_age>>

\* A ticketed failure, half-open or open, restarts the block window.
FailureReopens(s) ==
    /\ state # "Closed"
    /\ OpenCircuit(s)

RecordFailure(s) ==
    /\ WriteLock
    /\ present' = TRUE
    /\ failure_count' = Lesser(failure_count + 1, FailureThreshold)
    /\ \/ FailureClosed(s)
       \/ ~ticket[s] /\ FailureUnticketed(s)
       \/ ticket[s] /\ FailureReopens(s)
    /\ Idle(s)
    /\ UNCHANGED <<claim_age, fresh, url_keyed, peer_up, retired>>

-----------------------------------------------------------------------------
(* What a dispatch comes to.                                               *)

\* The answer is fixed when the peer gives it and recorded later.  A request may
\* meet a 5xx, 401 or 403 of a peer that is up; gossip fails only with the peer.
Reply(s) ==
    /\ phase[s] = "sent"
    /\ \/ /\ peer_up
          /\ phase' = [phase EXCEPT ![s] = "ok"]
       \/ /\ ~peer_up \/ s \in Requests
          /\ phase' = [phase EXCEPT ![s] = "failed"]
    /\ UNCHANGED <<circuit, probe_age, ticket, claim_age, fresh, current, url_keyed, peer_up, retired>>

\* classify_buffered_peer_response, and the 2xx of a gossip send.
Buffered(s) == phase[s] = "ok" /\ RecordSuccess(s, ticket[s])

\* classify_peer_response: only the headers of a stream have arrived.
Streaming(s) == s \in Requests /\ phase[s] = "ok" /\ RecordSuccess(s, FALSE)

Failed(s) == phase[s] = "failed" /\ RecordFailure(s)

\* A drain rejection is neutral, and a dropped request future records nothing.
Neutral(s) ==
    /\ s \in Requests
    /\ phase[s] \in {"sent", "ok", "failed"}
    /\ Idle(s)
    /\ current' = [current EXCEPT ![s] = FALSE]
    /\ UNCHANGED <<circuit, probe_age, claim_age, fresh, url_keyed, peer_up, retired>>

Record(s) == Buffered(s) \/ Streaming(s) \/ Failed(s)

\* A stored peer takes the URL's address, or the URL stops being a target, and back.
Rekey ==
    /\ url_keyed
    /\ retired' = ~retired
    /\ UNCHANGED <<circuit, probe_age, senders, url_keyed, peer_up>>

\* Variant: only circuits that block are dropped.
ForgetBlocking ==
    /\ retired /\ present /\ state # "Closed"
    /\ WriteLock
    /\ present' = FALSE
    /\ state' = "Closed"
    /\ failure_count' = 0
    /\ success_count' = 0
    /\ consecutive_opens' = 0
    /\ change_age' = 0
    /\ probe_age' = ProbeInterval
    /\ current' = [r \in Senders |-> FALSE]
    /\ UNCHANGED <<phase, ticket, claim_age, fresh, url_keyed, peer_up, retired>>

\* reconcile_gossip_url_circuits: each round drops the circuit of an unused URL.
Forget ==
    /\ retired /\ present
    /\ WriteLock
    /\ present' = FALSE
    /\ state' = "Closed"
    /\ failure_count' = 0
    /\ success_count' = 0
    /\ consecutive_opens' = 0
    /\ change_age' = 0
    /\ probe_age' = ProbeInterval
    /\ current' = [r \in Senders |-> FALSE]
    /\ UNCHANGED <<phase, ticket, claim_age, fresh, url_keyed, peer_up, retired>>

Tick ==
    /\ change_age' = Lesser(change_age + 1, BackoffMax)
    /\ probe_age' = Lesser(probe_age + 1, ProbeInterval)
    /\ claim_age' = [s \in Senders |-> Lesser(claim_age[s] + 1, ProbeInterval)]
    /\ UNCHANGED <<present, state, failure_count, success_count, consecutive_opens,
                   phase, ticket, fresh, current, url_keyed, peer_up, retired>>

PeerFlips ==
    /\ peer_up' = ~peer_up
    /\ UNCHANGED <<circuit, probe_age, senders, url_keyed, retired>>

Dispatch(s) ==
    AdmitClosed(s) \/ AdmitContended(s) \/ DenyBlocked(s) \/ BeginClaim(s) \/ FinishClaim(s)

Next ==
    \/ \E s \in Senders : Dispatch(s) \/ Reply(s) \/ Record(s) \/ Neutral(s)
    \/ Rekey \/ Forget \/ Tick \/ PeerFlips

Spec == Init /\ [][Next]_vars

\* Time passes; a gossip round comes every interval, is answered or times out, and
\* gets the map's lock, which is fair, and a probe slot that keeps being free.
\* Of requests only that a claim, which has no await in it, comes to its end.
FairSpec ==
    /\ Spec
    /\ WF_vars(Tick)
    /\ SF_vars(Forget)
    /\ \A r \in Requests : WF_vars(FinishClaim(r))
    /\ \A g \in Gossips :
          /\ WF_vars(AdmitClosed(g))
          /\ SF_vars(BeginClaim(g))
          /\ WF_vars(FinishClaim(g))
          /\ WF_vars(Reply(g))
          /\ SF_vars(Record(g))

-----------------------------------------------------------------------------
(* Properties.                                                             *)

\* A closed circuit has not yet seen the failures that open it, only a circuit
\* that left Closed has a backoff, and a half-open one is short of the successes
\* that close it: no interleaving of results skips a transition of record_success
\* or record_failure, or leaves a counter of an earlier episode behind.
CountersMatchState ==
    /\ state = "Closed" => failure_count < FailureThreshold /\ consecutive_opens = 0
    /\ state # "Closed" => consecutive_opens >= 1
    /\ state = "HalfOpen" => success_count \in 1..(SuccessThreshold - 1)

\* try_claim_probe admits one probe per interval: of the tickets claimed in one
\* block window and still in flight, at most one is younger than the interval,
\* whatever the claimants' loads and compare_exchanges interleave to.
ProbePacing ==
    \A r, s \in Senders :
        /\ r # s
        /\ ticket[r] /\ current[r] /\ claim_age[r] < ProbeInterval
        /\ ticket[s] /\ current[s]
        => claim_age[s] >= ProbeInterval

\* Requests have ended, and left behind what they left.
NoTraffic == \A r \in Requests : phase[r] = "idle"

\* Gossip alone then sees to it that a peer that stays down ends up blocked: its
\* failures open the circuit and failing probes keep it open, whatever late
\* successes were recorded, and whoever claimed a probe and never reported.
DownPeerIsBlocked == <>[](~peer_up /\ ~retired /\ NoTraffic) => <>[](state = "Open")

\* And a peer that comes back is recovered by gossip alone: the probe of a request
\* that was dropped holds nobody up.
UpPeerRecovers == <>[](peer_up /\ ~retired /\ NoTraffic) => <>[](state = "Closed")

\* The circuit of a URL gossip stopped using is gone for good, although a late
\* send recreates it: a later round removes it again.
UnusedCircuitIsDropped == <>[]retired => <>[](~present)

\* The circuit follows its peer, whatever order results arrive in: record_failure
\* blocks one that stays down, the probes let one that is back in again, and gossip's
\* reconciliation drops the circuit of a URL that is no longer a target.
CircuitFollowsPeer == DownPeerIsBlocked /\ UpPeerRecovers /\ UnusedCircuitIsDropped

=============================================================================
