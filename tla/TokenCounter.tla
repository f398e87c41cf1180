---------------------------- MODULE TokenCounter ----------------------------
(***************************************************************************)
(* How a response stream counts the tokens that pass through it.  Upstream  *)
(* sends lines, the network cuts them into chunks anywhere, and the counter *)
(* keeps the incomplete line in a buffer of limited size.                   *)
(*                                                                         *)
(* Bytes are abstracted to: "n" a newline, "t" the first byte of a line     *)
(* that carries output, "u" the first byte of a line with the usage of the  *)
(* whole response, anything else a byte of no interest.                     *)
(*                                                                         *)
(* Sources: router.rs (process_line, CleanupStream::poll_upstream).         *)
(***************************************************************************)
EXTENDS Integers, Sequences

CONSTANTS
    MaxBuffer,      \* MAX_TOKEN_BUFFER_SIZE
    Usage,          \* what the usage line says
    Chunks,         \* chunks to check the counter with
    MaxChunks       \* how many of them a response has

\* One line: the usage replaces the count, output adds one
ProcessLine(tokens, line) ==
    IF line = <<>> THEN tokens
    ELSE CASE line[1] = "u" -> Usage
           [] line[1] = "t" -> tokens + 1
           [] OTHER         -> tokens

\* The place of the last newline among the first i bytes, 0 when there is none
LastNewline(s, i) ==
    LET Last[k \in 0..i] == IF k = 0 \/ s[k] = "n" THEN k ELSE Last[k - 1]
    IN  Last[i]

FirstNewline(s) ==
    IF \E i \in 1..Len(s) : s[i] = "n"
    THEN CHOOSE i \in 1..Len(s) : s[i] = "n" /\ \A k \in 1..(i - 1) : s[k] # "n"
    ELSE 0

\* Every complete line of s in turn
ProcessLines(tokens, s) ==
    LET After[i \in 0..Len(s)] ==
            IF i = 0 THEN tokens
            ELSE IF s[i] = "n"
            THEN ProcessLine(After[i - 1], SubSeq(s, LastNewline(s, i - 1) + 1, i - 1))
            ELSE After[i - 1]
    IN  After[Len(s)]

Remainder(s) == SubSeq(s, LastNewline(s, Len(s)) + 1, Len(s))

NewCounter == [buffer |-> <<>>, tokens |-> 0, disabled |-> FALSE]

\* The buffer would grow past its limit
Disable(c) == [c EXCEPT !.buffer = <<>>, !.disabled = TRUE]

Keep(c, s) ==
    IF Len(c.buffer) + Len(s) > MaxBuffer THEN Disable(c) ELSE [c EXCEPT !.buffer = @ \o s]

\* A chunk when no line is open
FeedLines(c, chunk) == Keep([c EXCEPT !.tokens = ProcessLines(@, chunk)], Remainder(chunk))

\* Variant: the open line and the rest of it are taken for two lines
FeedApart(c, chunk) ==
    IF c.disabled THEN c
    ELSE FeedLines([c EXCEPT !.tokens = ProcessLine(@, c.buffer), !.buffer = <<>>], chunk)

\* A chunk of the body
Feed(c, chunk) ==
    LET i == FirstNewline(chunk)
    IN  CASE c.disabled -> c
          [] ~c.disabled /\ c.buffer = <<>> -> FeedLines(c, chunk)
          [] ~c.disabled /\ c.buffer # <<>> /\ i = 0 -> Keep(c, chunk)
          [] OTHER ->
                IF Len(c.buffer) + i - 1 > MaxBuffer THEN Disable(c)
                ELSE FeedLines([c EXCEPT !.buffer = <<>>,
                                         !.tokens = ProcessLine(@, c.buffer \o SubSeq(chunk, 1, i - 1))],
                               SubSeq(chunk, i + 1, Len(chunk)))

----------------------------------------------------------------------------
\* The counter over a whole body
CountBody(body) ==
    LET After[k \in 0..Len(body)] == IF k = 0 THEN NewCounter ELSE Feed(After[k - 1], body[k])
    IN  After[Len(body)]

Joined(body) ==
    LET Upto[k \in 0..Len(body)] == IF k = 0 THEN <<>> ELSE Upto[k - 1] \o body[k]
    IN  Upto[Len(body)]

LongestLine(s) ==
    LET Length[i \in 0..Len(s)] == IF i = 0 \/ s[i] = "n" THEN 0 ELSE Length[i - 1] + 1
    IN  CHOOSE m \in 0..Len(s) : /\ \E i \in 0..Len(s) : Length[i] = m
                                 /\ \A i \in 0..Len(s) : Length[i] <= m

\* What the counter says of a body, however it was cut: one that was not disabled
\* has counted the complete lines of the whole body, and it is disabled only by a
\* line longer than the buffer
CountIsExact(body) ==
    LET c == CountBody(body)
        s == Joined(body)
    IN  /\ ~c.disabled => c.tokens = ProcessLines(0, s)
        /\ c.disabled => LongestLine(s) > MaxBuffer

Bodies == UNION {[1..k -> Chunks] : k \in 0..MaxChunks}

CountsAreExact == \A body \in Bodies : CountIsExact(body)

=============================================================================
