------------------------------ MODULE RotatingLog ------------------------------
\* The size-rotated log file of internal/logging. A line is its number; its size
\* is one of Sizes. A file is the sequence of its lines. Write holds the lock
\* throughout, so a write with the rotation it needs is one step. On a faulty disk
\* any of the rotation's file operations may fail.
EXTENDS Integers, Sequences, FiniteSets, SequencesExt

CONSTANTS MaxFiles,   \* w.maxFiles
          MaxSize,    \* w.maxSize
          Sizes,      \* sizes of the lines
          MaxLines,   \* bound on the lines
          NoLog       \* no file of that name

ASSUME RotatingLogAssumption ==
    /\ MaxFiles \in Nat \ {0} /\ MaxSize \in Nat /\ Sizes \subseteq Nat \ {0} /\ MaxLines \in Nat
    /\ NoLog \notin Seq(Nat)

VARIABLES current,    \* the file at w.path: its lines, or NoLog
          rotated,    \* the files .1 to .MaxFiles
          size,       \* the size of the file at w.path
          handle,     \* w.file: "open", "nil" or "closed"
          written,    \* w.written
          lines,      \* number of lines offered so far
          accepted,   \* the lines Write reported as written
          faulty      \* whether file operations may fail

logVars == <<current, rotated, size, handle, written, lines, accepted, faulty>>

LogInit ==
    /\ current = <<>> /\ rotated = [n \in 1..MaxFiles |-> NoLog] /\ size = 0
    /\ handle = "open" /\ written = 0
    /\ lines = 0 /\ accepted = <<>> /\ faulty \in BOOLEAN

\* A slip: the files renamed lowest first, so that each lands on the next.
ShiftedUpwards(fails) ==
    LET k == Cardinality({n \in 1..(MaxFiles - 1) : rotated[n] /= NoLog})
    IN  [n \in 1..MaxFiles |-> IF k > 0 /\ n = k + 1 THEN rotated[1] ELSE NoLog]

\* The files after the renames: those numbered MaxFiles and above are deleted, the
\* others move up by one, highest first. fails holds the numbers whose rename
\* fails (its error is ignored): such a file stays unless the next one lands on it.
Shifted(fails) ==
    [n \in 1..MaxFiles |->
        LET stays == n < MaxFiles /\ n \in fails /\ rotated[n] /= NoLog
            comes == n > 1 /\ n - 1 \notin fails /\ rotated[n - 1] /= NoLog
        IN  IF comes THEN rotated[n - 1] ELSE IF stays THEN rotated[n] ELSE NoLog]

\* What rotate leaves: the files .N, the current one and its size, w.file,
\* w.written.
Rotation(old, now, nowSize, file, count) ==
    [old |-> old, now |-> now, size |-> nowSize, file |-> file, written |-> count]

Unrotated(file) == Rotation(rotated, current, size, file, written)

\* rotate: the first failure ends it. Closing may fail and leave a closed file
\* behind; renaming the current file may fail and leave no file open, with
\* w.written as it was; opening may fail once w.written is already reset.
Rotated ==
    LET moved(fails) == [Shifted(fails) EXCEPT ![1] = IF current = NoLog THEN @ ELSE current]
        Done(fails)  == Rotation(moved(fails), <<>>, 0, "open", 0)
    IN  IF ~faulty THEN {Done({})}
        ELSE (IF handle = "nil" THEN {} ELSE {Unrotated("closed")})
             \cup UNION {{Done(fails),
                          Rotation(moved(fails), NoLog, 0, "nil", 0),
                          [Unrotated("nil") EXCEPT !.old = Shifted(fails)]} : fails \in SUBSET (1..MaxFiles)}

\* Closing a closed file again fails as well, and rotate ends there for good.
Rotations == IF handle = "closed" THEN {Unrotated("closed")} ELSE Rotated

\* Write: rotates when the line would not fit, writes to whatever file is open,
\* and counts what was written. Rotation errors are printed and passed over.
Write ==
    /\ lines < MaxLines /\ UNCHANGED faulty
    /\ lines' = lines + 1
    /\ \E bytes \in Sizes :
       \E after \in IF written + bytes > MaxSize THEN Rotations ELSE {Rotation(rotated, current, size, handle, written)} :
          LET taken == after.file = "open"
          IN  /\ rotated' = after.old /\ handle' = after.file
              /\ current' = IF taken THEN Append(after.now, lines + 1) ELSE after.now
              /\ size' = IF taken THEN after.size + bytes ELSE after.size
              /\ written' = IF taken THEN after.written + bytes ELSE after.written
              /\ accepted' = IF taken THEN Append(accepted, lines + 1) ELSE accepted

\* The process ends and a new one opens the log: O_APPEND, the size from Stat.
Reopen ==
    /\ handle' = "open" /\ written' = IF current = NoLog THEN 0 ELSE size
    /\ current' = IF current = NoLog THEN <<>> ELSE current
    /\ size' = IF current = NoLog THEN 0 ELSE size
    /\ UNCHANGED <<rotated, lines, accepted, faulty>>

LogNext == Write \/ Reopen

LogSpec == LogInit /\ [][LogNext]_logVars

-----------------------------------------------------------------------------

\* The files, the current one first, and what they hold together.
FileAt(n)  == IF n = 0 THEN current ELSE rotated[n]
Lines(file) == IF file = NoLog THEN {} ELSE Range(file)
Kept       == UNION {Lines(FileAt(n)) : n \in 0..MaxFiles}

Increasing(file) == file # NoLog => \A i, j \in DOMAIN file : i < j => file[i] < file[j]

\* Read from the oldest file to the current one, the log never repeats or reorders
\* a line, and where no file operation fails it is exactly the newest accepted
\* lines: none missing in between, and none at all before there are MaxFiles
\* rotated files (writer.go:134-194).
LogKeepsOrder ==
    /\ \A n \in 0..MaxFiles : Increasing(FileAt(n))
    /\ \A newer, older \in 0..MaxFiles : newer < older =>
          \A a \in Lines(FileAt(older)), b \in Lines(FileAt(newer)) : a < b
    /\ ~faulty => /\ Kept \subseteq Range(accepted)
                  /\ \A a \in Range(accepted) : (\E b \in Kept : b <= a) => a \in Kept
                  /\ Range(accepted) \subseteq Kept \/ \A n \in 1..MaxFiles : rotated[n] # NoLog
=============================================================================
