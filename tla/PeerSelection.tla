---------------------------- MODULE PeerSelection ----------------------------
(***************************************************************************)
(* How a node ranks the nodes a request could go to.  The operators are     *)
(* functions of what the node knows: the reports of its peers (gossip), its *)
(* own report, the circuits of its peers and the forwards it has started    *)
(* since the last gossip round.                                            *)
(*                                                                         *)
(* A report is a PeerState restricted to one model:profile, the one the     *)
(* request asks for: has (the peer advertises it), loaded, and the tps and  *)
(* the memory the peer learned for it, 0 when unknown.                      *)
(*                                                                         *)
(* Sources: node_state/mod.rs (any_peer_advertises_model,                   *)
(* find_peer_for_model, select_best_node, calculate_node_score,             *)
(* calculate_cold_start_cost).                                             *)
(***************************************************************************)
EXTENDS Integers

AtMost(a, b) == IF a <= b THEN a ELSE b
AtLeast(a, b) == IF a >= b THEN a ELSE b
SaturatingSub(a, b) == IF a >= b THEN a - b ELSE 0
DivCeil(a, b) == (a + b - 1) \div b

ColdStart    == 30
EvictionBase == 500
EvictionEach == 200
CannotFit    == 10000

----------------------------------------------------------------------------
\* calculate_cold_start_cost

Fits(need, room) == need = 0 \/ room >= need

\* Instances to evict so that one kind of memory suffices; each is taken to
\* use the average
Evictions(need, available, total, active) ==
    LET used    == SaturatingSub(total, available)
        average == IF used > 0 THEN used \div active ELSE 1
        deficit == SaturatingSub(need, available)
    IN  IF average > 0 /\ deficit > 0 THEN DivCeil(deficit, average) ELSE 0

EvictionCount(p, vram, sysmem) ==
    IF p.active = 0 THEN 1
    ELSE AtLeast(1, AtLeast(Evictions(vram, p.available_vram, p.max_vram, p.active),
                            Evictions(sysmem, p.available_sysmem, p.max_sysmem, p.active)))

CanEverFit(p, vram, sysmem) == Fits(vram, p.max_vram) /\ Fits(sysmem, p.max_sysmem)

ColdStartCost(p, vram, sysmem) ==
    IF \/ vram = 0 /\ sysmem = 0
       \/ Fits(vram, p.available_vram) /\ Fits(sysmem, p.available_sysmem)
    THEN ColdStart
    ELSE IF ~CanEverFit(p, vram, sysmem) THEN CannotFit
    ELSE EvictionBase + EvictionEach * AtMost(EvictionCount(p, vram, sysmem), p.active)

----------------------------------------------------------------------------
\* calculate_node_score: the lowest score is chosen

\* The memory the model needs there: what the peer learned, else our estimate
Vram(p, estimate)   == IF p.vram > 0 \/ p.sysmem > 0 THEN p.vram ELSE estimate.vram
Sysmem(p, estimate) == IF p.vram > 0 \/ p.sysmem > 0 THEN p.sysmem ELSE estimate.sysmem

LoadScore(p, current) == 50 * p.queue + 50 * current

Headroom(p) == 50 * AtMost(SaturatingSub(p.max_instances, p.active), 4)

Score(p, estimate, current) ==
    LoadScore(p, current)
    + (IF p.loaded THEN 0 ELSE ColdStartCost(p, Vram(p, estimate), Sysmem(p, estimate)))
    - 5 * AtMost(p.tps, 200) - Headroom(p)

\* Requests a peer has, as of its report, plus those sent to it since
PeerCurrent(p, sent) == p.current + sent

\* Our own requests, without those that only wait for a peer
SelfCurrent(p, sent) == SaturatingSub(p.current, sent)

----------------------------------------------------------------------------
\* Candidates among the reports, a function from the peers whose report is
\* not stale

\* any_peer_advertises_model
AnyAdvertises(reports) == \E m \in DOMAIN reports : reports[m].has

\* The filter of find_peer_for_model
Usable(reports, allowed, excluded) ==
    {m \in DOMAIN reports : /\ reports[m].ready /\ m \in allowed
                            /\ m \notin excluded /\ reports[m].has}

\* find_peer_for_model: a loaded model first, then the shortest queue
Preferred(reports, S) ==
    LET loaded == {m \in S : reports[m].loaded}
        pool   == IF loaded # {} THEN loaded ELSE S
    IN  {m \in pool : \A k \in pool : reports[m].queue <= reports[k].queue}

\* select_best_node also leaves out a peer that may run no instance
Routable(reports, allowed, excluded) ==
    {m \in Usable(reports, allowed, excluded) : reports[m].max_instances # 0}

\* The candidates of the lowest score
Best(scores) ==
    {m \in DOMAIN scores : \A k \in DOMAIN scores : scores[m] <= scores[k]}

============================================================================
