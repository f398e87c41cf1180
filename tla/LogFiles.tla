------------------------------ MODULE LogFiles ------------------------------
(***************************************************************************)
(* The daily log files, and how a start prepares today's: copies that an    *)
(* interrupted start left are removed, a day that was already compressed is  *)
(* reopened, and entries of today that an older version filed under the next *)
(* day are moved.  Every step is a separate one, so that the process can      *)
(* crash between any two.                                                   *)
(*                                                                         *)
(* An entry is a record of its day and a number that no other entry has.     *)
(* The appender is the logroller crate: it opens the file of the day, appends*)
(* to it, and on the first write of a later day compresses the file (over    *)
(* any compressed file of that day) and opens the new day's.  A file          *)
(* operation succeeds unless the process crashes before it; its retention    *)
(* limit is left out.                                                       *)
(*                                                                         *)
(* Source: logging.rs.                                                      *)
(***************************************************************************)
EXTENDS Integers, Sequences, SequencesExt, FiniteSets

CONSTANTS LastDay       \* the last day the clock can show

ASSUME LogFilesAssumption == LastDay \in Nat \ {0}

Days == 1..(LastDay + 1)

VARIABLES
    today,      \* the clock
    day,        \* the day that the start prepares, or 0
    plain,      \* the days that have a file
    zipped,     \* the days that have a compressed file
    file,       \* what the files hold
    gz,         \* what the compressed files hold
    copies,     \* the copies begun and not renamed into place
    open,       \* the day of the file that the appender has open, or 0
    wrote,      \* every entry ever written
    mixed       \* whether a file that began with the day before's entries was appended to

logVars == <<today, day, plain, zipped, file, gz, copies, open, wrote, mixed>>

NoFiles == [d \in Days |-> <<>>]

\* The file of day d, holding entries
Filed(d, entries) == [NoFiles EXCEPT ![d] = entries]

Entry(d, n) == [day |-> d, n |-> n]

\* What a start can find: nothing; a file of today; a file that a version rotating on
\* local days named after the next day; today's file rotated before the clock was set
\* back, with or without a file of the next day
LogInit ==
    /\ today = 1 /\ day = 0 /\ open = 0 /\ copies = {} /\ mixed = FALSE
    /\ \/ plain = {} /\ zipped = {} /\ file = NoFiles /\ gz = NoFiles
       \/ /\ plain \in SUBSET {1, 2} /\ 2 \in plain
          /\ zipped = {} /\ gz = NoFiles
          /\ file = [NoFiles EXCEPT ![1] = IF 1 \in plain THEN <<Entry(1, 1)>> ELSE <<>>,
                                    ![2] = <<Entry(1, 2), Entry(1, 3)>>]
       \/ /\ plain \in SUBSET {2}
          /\ zipped = {1} /\ gz = Filed(1, <<Entry(1, 1)>>)
          /\ file = Filed(2, IF 2 \in plain THEN <<Entry(2, 2)>> ELSE <<>>)
    /\ wrote = UNION {ToSet(file[d]) \cup ToSet(gz[d]) : d \in Days}

----------------------------------------------------------------------------
\* The steps of logging::init.  Each is an action on the files alone.

\* The clock is read once, for all of them
RemoveIncompleteCopies ==
    /\ day' = today /\ copies' = {}
    /\ UNCHANGED <<today, plain, zipped, file, gz, open, wrote, mixed>>

\* reopen_compressed_log: when it has something to do, and its three steps
Reopens == day \notin plain /\ day \in zipped

\* Variant: the compressed file is moved out of the way first
BeginRestoreMoving ==
    /\ copies' = copies \cup {"restoring"}
    /\ zipped' = zipped \ {day} /\ gz' = [gz EXCEPT ![day] = <<>>]
    /\ UNCHANGED <<today, day, plain, file, open, wrote, mixed>>

BeginRestore ==
    /\ copies' = copies \cup {"restoring"}
    /\ UNCHANGED <<today, day, plain, zipped, file, gz, open, wrote, mixed>>

RenameRestored ==
    /\ copies' = copies \ {"restoring"}
    /\ plain' = plain \cup {day} /\ file' = [file EXCEPT ![day] = gz[day]]
    /\ UNCHANGED <<today, day, zipped, gz, open, wrote, mixed>>

RemoveCompressed ==
    /\ zipped' = zipped \ {day} /\ gz' = [gz EXCEPT ![day] = <<>>]
    /\ UNCHANGED <<today, day, plain, file, copies, open, wrote, mixed>>

\* adopt_next_day_log: the next day's file begins with an entry of that day
Adopts ==
    /\ day + 1 \in plain /\ file[day + 1] # <<>>
    /\ file[day + 1][1].day = day

\* Variant: the entries are taken for missing without a look
NotMerged == TRUE

\* Its first entry is not in the day's file
Unmerged == file[day + 1][1] \notin ToSet(file[day])

BeginMerge ==
    /\ copies' = copies \cup {"merging"}
    /\ UNCHANGED <<today, day, plain, zipped, file, gz, open, wrote, mixed>>

RenameMerged ==
    /\ copies' = copies \ {"merging"}
    /\ plain' = plain \cup {day}
    /\ file' = [file EXCEPT ![day] = @ \o file[day + 1]]
    /\ UNCHANGED <<today, day, zipped, gz, open, wrote, mixed>>

RemoveNextDay ==
    /\ plain' = plain \ {day + 1} /\ file' = [file EXCEPT ![day + 1] = <<>>]
    /\ UNCHANGED <<today, day, zipped, gz, copies, open, wrote, mixed>>

\* The appender reads the clock itself
OpenAppender ==
    /\ open' = today /\ plain' = plain \cup {today}
    /\ day' = 0
    /\ UNCHANGED <<today, zipped, file, gz, copies, wrote, mixed>>

----------------------------------------------------------------------------
\* The appender, and the clock

WriteEntry(compression) ==
    LET e == Entry(today, 1 + Max({0} \cup {w.n : w \in wrote}))
        rotates == today > open
    IN /\ wrote' = wrote \cup {e} /\ open' = IF rotates THEN today ELSE open
       /\ plain' = IF rotates THEN (IF compression THEN plain \ {open} ELSE plain) \cup {today} ELSE plain
       /\ zipped' = IF rotates /\ compression THEN zipped \cup {open} ELSE zipped
       /\ gz' = IF rotates /\ compression THEN [gz EXCEPT ![open] = file[open]] ELSE gz
       /\ file' = [d \in Days |->
                     CASE d = open' -> Append(file[d], e)
                       [] d = open /\ rotates /\ compression -> <<>>
                       [] OTHER -> file[d]]
       /\ mixed' = (mixed \/ (file'[open'][1].day < today))
       /\ UNCHANGED <<today, day, copies>>

\* Midnight, or the clock is set back; only a stopped node is started with it set back
ClockTo(d) ==
    /\ today' = d
    /\ UNCHANGED <<day, plain, zipped, file, gz, copies, open, wrote, mixed>>

CloseLog ==
    /\ open' = 0 /\ day' = 0
    /\ UNCHANGED <<today, plain, zipped, file, gz, copies, wrote, mixed>>

----------------------------------------------------------------------------
LogTypeOK ==
    /\ today \in 1..LastDay /\ day \in 0..LastDay /\ open \in 0..LastDay
    /\ plain \subseteq Days /\ zipped \subseteq Days
    /\ copies \subseteq {"restoring", "merging"}
    /\ \A d \in Days : /\ d \notin plain => file[d] = <<>>
                       /\ d \notin zipped => gz[d] = <<>>

\* No start and no rotation loses an entry, wherever the process crashes, as long as no
\* day's entries were appended to a file that still begins with those of the day before
\* (mixed): a merge that crashed before it removed the next day's file leaves it to a
\* start after midnight, and a later start with the clock set back would remove it whole.
EntriesAreKept ==
    mixed \/ \A e \in wrote : \E d \in Days : e \in ToSet(file[d]) \/ e \in ToSet(gz[d])

\* No file holds an entry twice, and neither do the file that is appended to and the next
\* day's: a merge that was interrupted before the next day's file was removed is not done
\* again but finished.  (Between other files an entry may stay twice: a restore that was
\* interrupted leaves the compressed file, until the day is compressed again.)
EntriesAreNotRepeated ==
    /\ \A d \in plain : \A i, j \in 1..Len(file[d]) : file[d][i] = file[d][j] => i = j
    /\ open # 0 => ToSet(file[open]) \cap ToSet(file[open + 1]) = {}

=============================================================================
