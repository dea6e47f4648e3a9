--------------------------- MODULE BackgroundIndexer ---------------------------
\* The background indexer of internal/async: one goroutine does the indexing, any
\* thread starts it, stops it and waits for it, and the process may be killed and
\* started again with a new indexer on the same data directory. An operation on a
\* channel that is already closed ends the process, as a panic does.
EXTENDS Naturals

CONSTANTS Thread,   \* threads that use the indexer
          MaxRuns   \* bound on the starts

ASSUME IndexerAssumption == MaxRuns \in Nat

VARIABLES running,      \* b.running
          stopClosed,   \* b.stopCh is closed
          doneClosed,   \* b.doneCh is closed
          worker,       \* where each run's goroutine is; several may exist
          lock,         \* indexing.lock: "none", "written" or "broken"
          progress,     \* b.progress: status and whether an error is set
          caller,       \* what each thread is doing
          starts,       \* number of starts so far
          cut,          \* the last run to write the lock was killed before it could remove it
          spoiled       \* the lock could not be removed, or not be written whole

indexerVars == <<running, stopClosed, doneClosed, worker, lock, progress, caller, starts, cut, spoiled>>

Runs == 1..MaxRuns

\* NewBackgroundIndexer and NewIndexProgress.
Fresh ==
    /\ running = FALSE /\ stopClosed = FALSE /\ doneClosed = FALSE
    /\ worker = [r \in Runs |-> "none"]
    /\ progress = "indexing"
    /\ caller = [t \in Thread |-> "idle"]

IndexerInit == Fresh /\ lock = "none" /\ starts = 0 /\ cut = FALSE /\ spoiled = FALSE

\* Start: checked and set under the lock.
Start(t) ==
    /\ caller[t] = "idle" /\ starts < MaxRuns
    /\ IF running THEN UNCHANGED <<running, worker, starts>>
       ELSE /\ running' = TRUE /\ starts' = starts + 1
            /\ worker' = [worker EXCEPT ![starts + 1] = "begin"]
    /\ UNCHANGED <<stopClosed, doneClosed, lock, progress, caller, cut, spoiled>>

\* The data directory and the lock file. A write that fails may have left a file.
WriteLock(r) ==
    /\ worker[r] = "begin"
    /\ lock' = "written" /\ cut' = FALSE /\ spoiled' = FALSE
    /\ worker' = [worker EXCEPT ![r] = "index"]
    /\ UNCHANGED <<running, stopClosed, doneClosed, progress, caller, starts>>

FailLock(r) ==
    /\ worker[r] = "begin"
    /\ progress' = "error"
    /\ worker' = [worker EXCEPT ![r] = "clear"]
    /\ \/ UNCHANGED <<lock, spoiled>>
       \/ lock' = "broken" /\ spoiled' = TRUE
    /\ UNCHANGED <<running, stopClosed, doneClosed, caller, starts, cut>>

\* A slip: the lock file removed only where the run ends well.
IndexKeepingLock(r) ==
    /\ worker[r] = "index"
    /\ progress' \in {"error", "ready"}
    /\ worker' = [worker EXCEPT ![r] = IF progress' = "ready" THEN "unlock" ELSE "clear"]
    /\ UNCHANGED <<running, stopClosed, doneClosed, lock, caller, starts, cut, spoiled>>

\* IndexFunc returns, with an error or not (a cancelled context only asks it to);
\* the lock file goes in both cases.
Index(r) ==
    /\ worker[r] = "index"
    /\ progress' \in {"error", "ready"}
    /\ worker' = [worker EXCEPT ![r] = "unlock"]
    /\ UNCHANGED <<running, stopClosed, doneClosed, lock, caller, starts, cut, spoiled>>

\* os.Remove of the lock file, whose error nobody looks at.
RemoveLock ==
    \/ lock' = "none" /\ spoiled' = FALSE
    \/ lock' = lock /\ spoiled' = TRUE

\* The deferred functions, last first: the lock file is removed, running is reset,
\* doneCh is closed, which panics the second time.
Unlock(r) ==
    /\ worker[r] = "unlock"
    /\ RemoveLock
    /\ worker' = [worker EXCEPT ![r] = "clear"]
    /\ UNCHANGED <<running, stopClosed, doneClosed, progress, caller, starts, cut>>

ClearRunning(r) ==
    /\ worker[r] = "clear"
    /\ running' = FALSE
    /\ worker' = [worker EXCEPT ![r] = "close"]
    /\ UNCHANGED <<stopClosed, doneClosed, lock, progress, caller, starts, cut, spoiled>>

\* The process is gone and comes back with a new indexer: a run cut off between
\* the lock's writing and its removal leaves the lock behind.
Restart ==
    /\ running' = FALSE /\ stopClosed' = FALSE /\ doneClosed' = FALSE
    /\ worker' = [r \in Runs |-> "none"]
    /\ progress' = "indexing"
    /\ caller' = [t \in Thread |-> "idle"]
    /\ UNCHANGED starts

Die ==
    /\ Restart
    /\ cut' = (cut \/ \E r \in Runs : worker[r] \in {"index", "unlock"})
    /\ UNCHANGED <<lock, spoiled>>

\* IndexFunc panics: the deferred functions run, the lock file goes with them, and
\* the process ends.
Panic(r) ==
    /\ worker[r] = "index"
    /\ RemoveLock
    /\ Restart
    /\ UNCHANGED cut

CloseDone(r) ==
    /\ worker[r] = "close"
    /\ IF doneClosed THEN Die
       ELSE /\ doneClosed' = TRUE
            /\ worker' = [worker EXCEPT ![r] = "none"]
            /\ UNCHANGED <<running, stopClosed, lock, progress, caller, starts, cut, spoiled>>

\* Stop: running is checked under the lock, stopCh closed after it was released,
\* which panics the second time.
CheckRunning(t) ==
    /\ caller[t] = "idle" /\ running
    /\ caller' = [caller EXCEPT ![t] = "stopping"]
    /\ UNCHANGED <<running, stopClosed, doneClosed, worker, lock, progress, starts, cut, spoiled>>

Stop(t) ==
    /\ caller[t] = "stopping"
    /\ IF stopClosed THEN Die
       ELSE /\ stopClosed' = TRUE
            /\ caller' = [caller EXCEPT ![t] = "waiting"]
            /\ UNCHANGED <<running, doneClosed, worker, lock, progress, starts, cut, spoiled>>

\* Wait blocks on doneCh, also when nothing was started.
Wait(t) ==
    /\ caller[t] = "idle"
    /\ caller' = [caller EXCEPT ![t] = "waiting"]
    /\ UNCHANGED <<running, stopClosed, doneClosed, worker, lock, progress, starts, cut, spoiled>>

\* What Stop and Wait return on.
Done(t) ==
    /\ caller[t] = "waiting" /\ doneClosed
    /\ caller' = [caller EXCEPT ![t] = "idle"]
    /\ UNCHANGED <<running, stopClosed, doneClosed, worker, lock, progress, starts, cut, spoiled>>

\* The process is killed.
KillIndexer == starts > 0 /\ Die

IndexerNext ==
    \/ \E t \in Thread : Start(t) \/ CheckRunning(t) \/ Stop(t) \/ Wait(t) \/ Done(t)
    \/ \E r \in Runs : WriteLock(r) \/ FailLock(r) \/ Index(r) \/ Panic(r) \/ Unlock(r)
                       \/ ClearRunning(r) \/ CloseDone(r)
    \/ KillIndexer

IndexerSpec == IndexerInit /\ [][IndexerNext]_indexerVars

-----------------------------------------------------------------------------

Working == \E r \in Runs : worker[r] \in {"index", "unlock"}

\* The lock file tells the truth about the last run (indexer.go:96-160, read by
\* HasIncompleteLock). Outside a run: one that was killed half way is always
\* noticed, whatever was started, stopped and killed since without getting as far as
\* the lock; and a lock without such a run means that the file system failed to
\* write or to remove it. A run that holds the lock is always reported as running.
LockTellsTruth ==
    /\ ~Working => (cut => lock /= "none") /\ (lock /= "none" => cut \/ spoiled)
    /\ Working => running
=============================================================================
