----------------------------- MODULE MCWatchdog -----------------------------
(***************************************************************************)
(* Small instances of Watchdog.                                            *)
(***************************************************************************)
EXTENDS Watchdog

CONSTANTS i1, r1, r2

OneInstance == {i1}
TwoRequests == {r1, r2}

\* Chunks with and without newlines, long lines and empty ones
SomeChunks == {<<"t">>, <<"n">>, <<"u", "x">>, <<"x", "n", "t">>, <<"t", "x", "n">>,
               <<"n", "n", "u">>, <<"t", "n", "t", "n">>, <<"x", "x", "x">>}

=============================================================================
