------------------------------- MODULE Logger -------------------------------
(***************************************************************************)
(* Logger: lines of a level above the threshold are appended to a file; a  *)
(* file that has grown to max_size is renamed after the second of the      *)
(* clock and a new one begun.  A line is its number; the file system is    *)
(* the lines of the log file and of each renamed one.                      *)
(***************************************************************************)
EXTENDS Integers, Sequences

CONSTANTS Levels, SizeLimits,      \* log levels; values of set_log_max
          Prefix, Message,     \* bytes of the prefix and of a message
          MaxLog, MaxTime

\* The clock has a second to start in.
ASSUME MaxTimeAssumption == MaxTime \in Nat \ {0}

VARIABLES
    m_level, max_size, cur_size,
    m_fout,       \* [isOpen, fail]: the state of the stream
    named,        \* m_filename was set, by an open: the file exists
    logfile,      \* the lines in the file m_filename
    archive,      \* archive[t]: the lines of the file renamed at second t
    clock,
    written,      \* the number of lines that log() has written
    logLegal      \* no rotation so far replaced a file that held lines
logVars == <<m_level, max_size, cur_size, m_fout, named, logfile, archive, clock, written, logLegal>>
logFiles == <<logfile, archive, written, logLegal>>

\* What tellp finds: each line has a blank and a newline that cur_size omits.
BytesOf(lines) == Len(lines) * (Prefix + Message + 2)

LogInit ==
    /\ m_level = 0 /\ max_size = 0 /\ cur_size = 0
    /\ m_fout = [isOpen |-> FALSE, fail |-> FALSE] /\ named = FALSE
    /\ logfile = <<>> /\ archive = [t \in 1 .. MaxTime |-> <<>>]
    /\ clock = 1 /\ written = 0 /\ logLegal = TRUE

\* open appends; if the stream is open already it fails, and open throws.
open_log ==
    /\ m_fout' = [isOpen |-> TRUE, fail |-> m_fout.isOpen]
    /\ named' = TRUE
    /\ cur_size' = IF m_fout.isOpen THEN cur_size ELSE BytesOf(logfile)
    /\ UNCHANGED <<m_level, max_size, logFiles, clock>>
\* Closing what is not open sets the stream's error flag.
close_log ==
    /\ m_fout' = [isOpen |-> FALSE, fail |-> m_fout.fail \/ ~m_fout.isOpen]
    /\ UNCHANGED <<m_level, max_size, cur_size, named, logFiles, clock>>
setLevel(l) == m_level' = l /\ UNCHANGED <<max_size, cur_size, m_fout, named, logFiles, clock>>
set_log_max(n) == max_size' = n /\ UNCHANGED <<m_level, cur_size, m_fout, named, logFiles, clock>>
Second == clock < MaxTime /\ clock' = clock + 1 /\ UNCHANGED <<m_level, max_size, cur_size, m_fout, named, logFiles>>

\* Mutant: rotate opens the file to append.
Mut_Begun(lines) == lines
\* The file that rotate opens, after lines were renamed away.
Begun(lines) == <<>>

\* A line of the threshold's own level is dropped as well.
Filtered(l) == m_level >= l

Grown == cur_size + Prefix + Message
Full == Grown >= max_size /\ max_size > 0

\* The part of rotate that moves files, with what the log file then holds.
\* rename replaces a file of the same name: the last rotation of a second.
Renames(lines) ==
    /\ archive' = [archive EXCEPT ![clock] = lines]
    /\ logfile' = Begun(lines)
    /\ cur_size' = BytesOf(logfile')
    /\ logLegal' = (logLegal /\ archive[clock] = <<>>)

\* rotate: a stream that was open or not is open after it; but without a name
\* there is no file to rename, and rotate throws after it has closed the stream.
rotate ==
    /\ \/ named /\ Renames(logfile) /\ m_fout' = [isOpen |-> TRUE, fail |-> FALSE]
       \/ ~named /\ m_fout' = [isOpen |-> FALSE, fail |-> TRUE] /\ UNCHANGED <<cur_size, logfile, archive, logLegal>>
    /\ UNCHANGED <<m_level, max_size, named, clock, written>>

log(l) ==
    /\ ~Filtered(l) /\ ~m_fout.fail /\ m_fout.isOpen /\ written < MaxLog
    /\ LET lines == Append(logfile, written + 1)
       IN  \/ Full /\ Renames(lines)
           \/ ~Full /\ logfile' = lines /\ cur_size' = Grown /\ UNCHANGED <<archive, logLegal>>
    /\ written' = written + 1
    /\ UNCHANGED <<m_level, max_size, m_fout, named, clock>>

\* Nothing is open: the line is lost and sets the error flag, at which every
\* later one throws -- but it is counted, and rotate may rename what is there
\* and open the stream again.
log_unopened(l) ==
    /\ ~Filtered(l) /\ ~m_fout.fail /\ ~m_fout.isOpen
    /\ \/ Full /\ named /\ Renames(logfile) /\ m_fout' = [isOpen |-> TRUE, fail |-> FALSE]
       \/ /\ ~(Full /\ named) /\ m_fout' = [m_fout EXCEPT !.fail = TRUE]
          /\ cur_size' = Grown /\ UNCHANGED <<logfile, archive, logLegal>>
    /\ UNCHANGED <<m_level, max_size, named, clock, written>>

LogNext ==
    \/ open_log \/ close_log \/ rotate \/ Second
    \/ \E l \in Levels : setLevel(l) \/ log(l) \/ log_unopened(l)
    \/ \E n \in SizeLimits : set_log_max(n)

-----------------------------------------------------------------------------
InFile(n, lines) == \E i \in 1 .. Len(lines) : lines[i] = n

\* Safety.  Every line that was written is in exactly one file, the log or one
\* that was renamed -- exactly as long as no rotation fell into the same second
\* as an earlier one that had renamed lines: both files get one name.
LogKept ==
    logLegal <=> \A n \in 1 .. written :
        IF InFile(n, logfile) THEN \A t \in 1 .. MaxTime : ~InFile(n, archive[t])
        ELSE \E t \in 1 .. MaxTime : InFile(n, archive[t]) /\ \A u \in 1 .. MaxTime \ {t} : ~InFile(n, archive[u])

=============================================================================
