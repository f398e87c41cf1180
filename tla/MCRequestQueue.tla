--------------------------- MODULE MCRequestQueue ---------------------------
(* Small instances of RequestQueue. *)
EXTENDS RequestQueue

CONSTANTS r1, r2, r3, t1

ThreeRequests == {r1, r2, r3}
OneTask == {t1}

\* r1 gives up at its deadline, the client of r2 may leave, r3 stays
WithDeadline == {r1}
MayLeave == {r2}

\* At most one request waits; or the entries of requests that left count as well
OneWaits == [queue |-> 1, total |-> 0]
TwoEntries == [queue |-> 0, total |-> 2]
EitherLimit == {OneWaits, TwoEntries}
=============================================================================
