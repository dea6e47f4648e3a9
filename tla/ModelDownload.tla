----------------------------- MODULE ModelDownload -----------------------------
\* The other way a model gets here than through Ollama (ModelSetup):
\* internal/embed/model.go, lock.go and retry.go: processes fetch the model file
\* into one directory, one at a time by a lock on a file. A file is none, part of
\* the model or all of it. A process may be killed; the system then drops its lock.
EXTENDS ModelSetup

CONSTANTS Process, MaxDownloadRetries, MaxKills

ASSUME DownloadAssumption == MaxDownloadRetries \in Nat /\ MaxKills \in Nat

VARIABLES model,    \* the model's file
          tmpFile,      \* the temporary file, and who has it open
          holder,   \* who has the lock
          proc,     \* where each process is; the attempts it has made
          removals, kills

downloadVars == <<model, tmpFile, holder, proc, removals, kills>>

Nobody == "nobody"

DownloadInit ==
    /\ model \in {"none", "whole"} /\ tmpFile = [is |-> "none", of |-> {}] /\ holder = {}
    /\ proc = [p \in Process |-> [at |-> "begin", attempt |-> 0]]
    /\ removals = 0 /\ kills = 0

Go(p, at) == proc' = [proc EXCEPT ![p].at = at]

\* EnsureModel: a file that is not empty is the model.
EnsureModel(p) ==
    /\ proc[p].at = "begin"
    /\ Go(p, IF model /= "none" THEN "done" ELSE "lock")
    /\ UNCHANGED <<model, tmpFile, holder, removals, kills>>

\* A slip: the lock is not waited for.
NotWaiting(p) == holder' = holder \cup {p}

\* Lock: the process waits for it.
Lock(p) == holder = {} /\ holder' = {p}

AcquireLock(p) ==
    /\ proc[p].at = "lock"
    /\ \/ Lock(p) /\ Go(p, "recheck")
       \/ Go(p, "failed") /\ UNCHANGED holder
    /\ UNCHANGED <<model, tmpFile, removals, kills>>

\* Another process may have fetched it meanwhile.
CheckAgain(p) ==
    /\ proc[p].at = "recheck"
    /\ IF model /= "none" THEN Go(p, "done") /\ holder' = holder \ {p}
       ELSE Go(p, "create") /\ UNCHANGED holder
    /\ UNCHANGED <<model, tmpFile, removals, kills>>

\* downloadModel: the temporary file is made anew, whoever else has it open.
Create(p) ==
    /\ proc[p].at = "create"
    /\ tmpFile' = [is |-> "part", of |-> tmpFile.of \cup {p}]
    /\ Go(p, "read")
    /\ UNCHANGED <<model, holder, removals, kills>>

\* The body is read to its end, synced and closed.
ReadBody(p) ==
    /\ proc[p].at = "read"
    /\ tmpFile' = IF p \notin tmpFile.of THEN tmpFile
              ELSE [is |-> IF tmpFile.of = {p} THEN "whole" ELSE "part", of |-> tmpFile.of \ {p}]
    /\ Go(p, "rename")
    /\ UNCHANGED <<model, holder, removals, kills>>

\* The rename, and the removal deferred for a failure, which finds nothing.
RenameFile(p) ==
    /\ proc[p].at = "rename"
    /\ IF tmpFile.is = "none" THEN Go(p, "fail") /\ UNCHANGED <<model, tmpFile, holder>>
       ELSE /\ model' = tmpFile.is /\ tmpFile' = [is |-> "none", of |-> {}]
            /\ Go(p, "done") /\ holder' = holder \ {p}
    /\ UNCHANGED <<removals, kills>>

\* Any step of it fails: the temporary file is removed, then the lock dropped.
FailDownload(p) ==
    /\ proc[p].at \in {"create", "read", "rename", "fail"}
    /\ tmpFile' = [is |-> "none", of |-> {}] /\ holder' = holder \ {p}
    /\ Go(p, "failed")
    /\ UNCHANGED <<model, removals, kills>>

\* DownloadWithRetry: so many attempts more; then, or when cancelled, the error.
Retry(p) ==
    /\ proc[p].at = "failed"
    /\ \/ /\ proc[p].attempt < MaxDownloadRetries
          /\ proc' = [proc EXCEPT ![p] = [at |-> "begin", attempt |-> @.attempt + 1]]
       \/ Go(p, "gaveUp")
    /\ UNCHANGED <<model, tmpFile, holder, removals, kills>>

\* A process is killed where it is and runs again later.
Kill(p) ==
    /\ kills < MaxKills /\ kills' = kills + 1
    /\ proc[p].at \notin {"done", "gaveUp"}
    /\ holder' = holder \ {p} /\ tmpFile' = [tmpFile EXCEPT !.of = @ \ {p}]
    /\ proc' = [proc EXCEPT ![p] = [at |-> "begin", attempt |-> 0]]
    /\ UNCHANGED <<model, removals>>

\* DeleteModel.
DeleteModel ==
    /\ removals < 1 /\ removals' = removals + 1
    /\ model /= "none" /\ model' = "none"
    /\ UNCHANGED <<tmpFile, holder, proc, kills>>

DownloadNext ==
    \/ \E p \in Process : \/ EnsureModel(p) \/ AcquireLock(p) \/ CheckAgain(p) \/ Create(p) \/ ReadBody(p)
                          \/ RenameFile(p) \/ FailDownload(p) \/ Retry(p) \/ Kill(p)
    \/ DeleteModel

DownloadSpec == DownloadInit /\ [][DownloadNext]_downloadVars

-----------------------------------------------------------------------------

\* A model that is there is all of it, whichever processes fetch it, fail or are
\* killed meanwhile (model.go:56-183, "prevent concurrent downloads").
ModelIsWhole == model \in {"none", "whole"}

\* Whoever sets an embedder up gets one, and a whole model: see ModelSetup for the
\* first (setup.go, init.go, ollama.go), above for the second (model.go).
SetupIsSound == ReadyMeansUsable /\ ModelIsWhole
=============================================================================
