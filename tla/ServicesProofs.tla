--------------------------- MODULE ServicesProofs ---------------------------
(***************************************************************************)
(* Services for any number of threads, runs, retries and processes.  The   *)
(* lock file of the background indexer rests on one run at a time holding  *)
(* it, which Start sees to by the running flag; the retry loop on its      *)
(* having failed at every attempt so far while it goes on; the model's     *)
(* file on whoever is past its lock being alone there, so that the         *)
(* temporary file it renames is the one it has read to the end.  Sessions  *)
(* rest on inodes staying apart: a save that has met no other renames what *)
(* it has written; and on serve.pid, one server a project, which lets two  *)
(* copy into one session only when they opened it for two projects.  The    *)
(* log rests on what a rotation leaves, whatever fails in it: the files    *)
(* keep their order, since each moves to a later place or stays.  Setting  *)
(* an embedder up rests on what a caller has seen staying so: a server it  *)
(* found running runs on, and a model it found or pulled stays listed.     *)
(* The metrics rest on every event moving all the counts at once, and on   *)
(* nothing being recorded any more while the last flush writes them.  The   *)
(* vectors rest on every position asked for being pending, filled or given *)
(* up, and on the pending ones never being blank.                          *)
(***************************************************************************)
EXTENDS BackgroundIndexer, CircuitBreaker, ModelDownload, Sessions, RotatingLog, QueryMetrics, Embedding, FiniteSetTheorems, WellFoundedInduction, TLAPS

\* A run that running stands for.
Active(r) == worker[r] \in {"begin", "index", "unlock", "clear"}

IndexerTypeOK ==
    /\ running \in BOOLEAN /\ cut \in BOOLEAN /\ spoiled \in BOOLEAN
    /\ worker \in [Runs -> {"none", "begin", "index", "unlock", "clear", "close"}]
    /\ lock \in {"none", "written", "broken"}
    /\ starts \in 0..MaxRuns

\* The strengthening of LockTellsTruth.
IndexerInv ==
    /\ IndexerTypeOK
    /\ \A r \in Runs : Active(r) => running
    /\ \A r, s \in Runs : Active(r) /\ Active(s) => r = s
    /\ Working => lock = "written" /\ ~cut
    /\ ~Working => (cut => lock # "none") /\ (lock # "none" => cut \/ spoiled)

LEMMA IndexerStart == IndexerInit => IndexerInv
<1> SUFFICES ASSUME IndexerInit  PROVE IndexerInv
  OBVIOUS
<1>1. \A r \in Runs : worker[r] = "none"
  BY DEF IndexerInit, Fresh
<1>2. worker \in [Runs -> {"none", "begin", "index", "unlock", "clear", "close"}]
  BY DEF IndexerInit, Fresh
<1>3. starts \in 0..MaxRuns
  BY IndexerAssumption DEF IndexerInit
<1>4. running \in BOOLEAN /\ cut \in BOOLEAN /\ spoiled \in BOOLEAN /\ lock = "none" /\ ~cut
  BY Zenon DEF IndexerInit, Fresh
<1> QED
  BY <1>1, <1>2, <1>3, <1>4 DEF IndexerInv, IndexerTypeOK, Active, Working

\* The process ends: the lock of a run that held it stays, and counts as left.
LEMMA IndexerDies == ASSUME IndexerInv, Die  PROVE IndexerInv'
  BY DEF IndexerInv, IndexerTypeOK, Active, Working, Die, Restart

\* What threads do starts a run only where none is active.
LEMMA IndexerThreads ==
    ASSUME IndexerInv, NEW t \in Thread, Start(t) \/ CheckRunning(t) \/ Stop(t) \/ Wait(t) \/ Done(t)
    PROVE  IndexerInv'
<1> USE IndexerAssumption DEF IndexerInv, IndexerTypeOK, Active, Working, Runs
<1>1. CASE Start(t)
  <2>1. CASE running
    BY <1>1, <2>1 DEF Start
  <2>2. CASE ~running
    <3>1. starts + 1 \in Runs /\ starts' \in 0..MaxRuns
      BY <1>1, <2>2 DEF Start
    <3>2. worker' = [worker EXCEPT ![starts + 1] = "begin"] /\ running'
      BY <1>1, <2>2 DEF Start
    <3>3. \A r \in Runs : ~Active(r)
      BY <2>2
    <3>4. ~Working /\ ~Working'
      BY <3>1, <3>2, <3>3
    <3> QED
      BY <1>1, <2>2, <3>1, <3>2, <3>3, <3>4 DEF Start
  <2> QED
    BY <2>1, <2>2
<1>2. CASE CheckRunning(t) \/ Wait(t) \/ Done(t)
  BY <1>2 DEF CheckRunning, Wait, Done
<1>3. CASE Stop(t)
  BY <1>3, IndexerDies DEF Stop
<1> QED
  BY <1>1, <1>2, <1>3

\* A run takes its steps alone.
LEMMA IndexerRuns ==
    ASSUME IndexerInv, NEW r \in Runs,
           WriteLock(r) \/ FailLock(r) \/ Index(r) \/ Panic(r) \/ Unlock(r) \/ ClearRunning(r) \/ CloseDone(r)
    PROVE  IndexerInv'
<1> USE DEF IndexerInv, IndexerTypeOK, Active, Working
<1>1. CASE WriteLock(r)
  BY <1>1 DEF WriteLock
<1>2. CASE FailLock(r)
  <2>1. \A s \in Runs : s # r => ~Active(s)
    BY <1>2 DEF FailLock
  <2>2. ~Working /\ ~Working'
    BY <1>2, <2>1 DEF FailLock
  <2>3. CASE UNCHANGED <<lock, spoiled>>
    BY <1>2, <2>1, <2>2, <2>3 DEF FailLock
  <2>4. CASE lock' = "broken" /\ spoiled' = TRUE
    BY <1>2, <2>1, <2>2, <2>4 DEF FailLock
  <2> QED
    BY <1>2, <2>3, <2>4 DEF FailLock
<1>3. CASE Index(r)
  BY <1>3 DEF Index
<1>4. CASE Unlock(r)
  <2>1. CASE lock' = "none" /\ spoiled' = FALSE
    BY <1>4, <2>1 DEF Unlock
  <2>2. CASE lock' = lock /\ spoiled' = TRUE
    BY <1>4, <2>2 DEF Unlock
  <2> QED
    BY <1>4, <2>1, <2>2 DEF Unlock, RemoveLock
<1>5. CASE ClearRunning(r)
  BY <1>5 DEF ClearRunning
<1>6. CASE CloseDone(r)
  <2>1. CASE doneClosed
    BY <1>6, <2>1, IndexerDies DEF CloseDone
  <2>2. CASE ~doneClosed
    BY <1>6, <2>2 DEF CloseDone
  <2> QED
    BY <2>1, <2>2
<1>7. CASE Panic(r)
  <2>1. \A s \in Runs : worker'[s] = "none"
    BY <1>7 DEF Panic, Restart
  <2>2. lock' \in {"none", "written", "broken"} /\ spoiled' \in BOOLEAN /\ (lock' # "none" => spoiled') /\ ~cut
    BY <1>7 DEF Panic, RemoveLock
  <2> QED
    BY <1>7, <2>1, <2>2 DEF Panic, Restart
<1> QED
  BY <1>1, <1>2, <1>3, <1>4, <1>5, <1>6, <1>7

LEMMA IndexerStep == IndexerInv /\ [IndexerNext]_indexerVars => IndexerInv'
<1> SUFFICES ASSUME IndexerInv, [IndexerNext]_indexerVars  PROVE IndexerInv'
  OBVIOUS
<1>1. CASE UNCHANGED indexerVars
  BY <1>1 DEF indexerVars, IndexerInv, IndexerTypeOK, Active, Working
<1>2. CASE IndexerNext
  BY <1>2, IndexerThreads, IndexerRuns, IndexerDies DEF IndexerNext, KillIndexer
<1> QED
  BY <1>1, <1>2

\* For any number of threads and runs a run that was killed half way has left its
\* lock, a lock without one means that the file system failed to write or remove it,
\* and who holds it is running (indexer.go:96-160).
THEOREM LockIsTrue == IndexerSpec => []LockTellsTruth
<1>1. IndexerInv => LockTellsTruth
  BY DEF IndexerInv, LockTellsTruth, Working, Active
<1> QED
  BY IndexerStart, IndexerStep, <1>1, PTL DEF IndexerSpec

-----------------------------------------------------------------------------

RetryTypeOK ==
    /\ healthy \in BOOLEAN
    /\ attempt \in [Retrier -> {"idle", "check", "wait", "done", "gaveUp", "cancelled"}]
    /\ tried \in [Retrier -> Seq(BOOLEAN)]

\* The strengthening of RetryIsExact.
RetryInv ==
    /\ RetryTypeOK
    /\ RetryIsExact
    /\ \A r \in Retrier : /\ attempt[r] = "idle" => tried[r] = <<>>
                          /\ attempt[r] = "wait" => Len(tried[r]) <= MaxRetries
                          /\ attempt[r] = "done" => Len(tried[r]) > 0

LEMMA RetryStart == CircuitInit => RetryInv
  BY CircuitAssumption DEF CircuitInit, RetryInv, RetryTypeOK, RetryIsExact

\* Of all steps only an attempt adds an outcome, and only where all before it failed.
LEMMA RetryAttempts == ASSUME RetryInv, NEW r \in Retrier, Attempt(r)  PROVE RetryInv'
<1> USE CircuitAssumption DEF RetryInv, RetryTypeOK, RetryIsExact, Attempt
<1>1. /\ tried[r] \in Seq(BOOLEAN) /\ Len(tried[r]) \in Nat /\ Len(tried[r]) <= MaxRetries
      /\ \A i \in 1..Len(tried[r]) : ~tried[r][i]
  OBVIOUS
<1>2. /\ tried'[r] = Append(tried[r], healthy)
      /\ \A q \in Retrier : q # r => tried'[q] = tried[q] /\ attempt'[q] = attempt[q]
  OBVIOUS
<1>3. /\ Len(tried'[r]) = Len(tried[r]) + 1
      /\ tried'[r][Len(tried[r]) + 1] = healthy
      /\ \A i \in 1..Len(tried[r]) : ~tried'[r][i]
  BY <1>1, <1>2
<1>4. attempt'[r] = IF healthy THEN "done" ELSE IF Len(tried[r]) >= MaxRetries THEN "gaveUp" ELSE "wait"
  OBVIOUS
<1>5. RetryTypeOK'
  BY <1>1
<1>6. \A i \in 1..Len(tried'[r]) : tried'[r][i] => i = Len(tried'[r]) /\ attempt'[r] = "done"
  BY <1>1, <1>3, <1>4
<1>7. /\ attempt'[r] = "done" => tried'[r][Len(tried'[r])] /\ Len(tried'[r]) > 0
      /\ attempt'[r] = "gaveUp" => Len(tried'[r]) = MaxRetries + 1
      /\ attempt'[r] # "check" /\ attempt'[r] # "idle"
      /\ attempt'[r] = "wait" => Len(tried'[r]) <= MaxRetries
  BY <1>1, <1>3, <1>4
<1>8. ASSUME NEW q \in Retrier
      PROVE  /\ \A i \in 1..Len(tried'[q]) : tried'[q][i] => i = Len(tried'[q]) /\ attempt'[q] = "done"
             /\ attempt'[q] = "done" => tried'[q][Len(tried'[q])] /\ Len(tried'[q]) > 0
             /\ attempt'[q] = "gaveUp" => Len(tried'[q]) = MaxRetries + 1
             /\ attempt'[q] = "check" => Len(tried'[q]) <= MaxRetries
             /\ attempt'[q] = "idle" => tried'[q] = <<>>
             /\ attempt'[q] = "wait" => Len(tried'[q]) <= MaxRetries
  <2>1. CASE q = r
    BY <1>6, <1>7, <2>1
  <2>2. CASE q # r
    BY <1>2, <2>2
  <2> QED
    BY <2>1, <2>2
<1> QED
  BY <1>5, <1>8

LEMMA RetryStep == RetryInv /\ [CircuitNext]_circuitVars => RetryInv'
<1> SUFFICES ASSUME RetryInv, [CircuitNext]_circuitVars  PROVE RetryInv'
  OBVIOUS
<1>1. ASSUME UNCHANGED <<attempt, tried>>, healthy' \in BOOLEAN  PROVE RetryInv'
  BY <1>1 DEF RetryInv, RetryTypeOK, RetryIsExact
<1>2. CASE UNCHANGED circuitVars
  BY <1>1, <1>2 DEF circuitVars, RetryInv, RetryTypeOK
<1>3. ASSUME NEW c \in Caller, Execute(c) \/ Succeed(c) \/ Fail(c)  PROVE RetryInv'
  BY <1>1, <1>3 DEF Execute, Succeed, Fail, RetryInv, RetryTypeOK
<1>4. CASE Expire \/ Change
  BY <1>1, <1>4 DEF Expire, Change, RetryInv, RetryTypeOK
<1>5. ASSUME NEW r \in Retrier, StartRetry(r) \/ CancelRetry(r) \/ Waited(r)  PROVE RetryInv'
  <2> USE <1>5, CircuitAssumption DEF StartRetry, CancelRetry, Waited, RetryInv, RetryTypeOK, RetryIsExact
  <2>1. /\ attempt[r] \in {"idle", "check", "wait"} /\ tried' = tried /\ healthy' = healthy
        /\ \A q \in Retrier : q # r => attempt'[q] = attempt[q]
        /\ attempt'[r] \in {"check", "cancelled"}
        /\ attempt' \in [Retrier -> {"idle", "check", "wait", "done", "gaveUp", "cancelled"}]
    OBVIOUS
  <2>2. Len(tried[r]) <= MaxRetries /\ \A i \in 1..Len(tried[r]) : ~tried[r][i]
    BY <2>1
  <2> QED
    BY <2>1, <2>2
<1> QED
  BY <1>2, <1>3, <1>4, <1>5, RetryAttempts DEF CircuitNext

\* For any number of retries and callers: success is reported after the first
\* attempt that succeeds, and nobody gives up before all of them have failed
\* (retry.go:44-93).
THEOREM RetriesAreExact == CircuitSpec => []RetryIsExact
<1>1. RetryInv => RetryIsExact
  BY DEF RetryInv
<1> QED
  BY RetryStart, RetryStep, <1>1, PTL DEF CircuitSpec

-----------------------------------------------------------------------------

At == {"begin", "lock", "recheck", "create", "read", "rename", "fail", "failed", "done", "gaveUp"}

\* Steps that only the holder of the lock takes.
Section == {"recheck", "create", "read", "rename", "fail"}

DownloadTypeOK ==
    /\ model \in {"none", "part", "whole"}
    /\ tmpFile \in [is : {"none", "part", "whole"}, of : SUBSET Process]
    /\ proc \in [Process -> [at : At, attempt : Nat]]
    /\ removals \in Nat /\ kills \in Nat

\* The strengthening of ModelIsWhole.
DownloadInv ==
    /\ DownloadTypeOK
    /\ \A p \in Process : proc[p].at \in Section => holder = {p}
    /\ \A p \in Process : p \in tmpFile.of => proc[p].at = "read"
    /\ \A p \in Process : proc[p].at = "read" => p \in tmpFile.of
    /\ \A p \in Process : proc[p].at = "rename" => tmpFile.is = "whole"
    /\ ModelIsWhole

LEMMA DownloadStart == DownloadInit => DownloadInv
  BY DEF DownloadInit, DownloadInv, DownloadTypeOK, At, Section, ModelIsWhole

\* Asking and waiting for the lock, retrying.
LEMMA DownloadWaits ==
    ASSUME DownloadInv, NEW p \in Process, EnsureModel(p) \/ AcquireLock(p) \/ CheckAgain(p) \/ Retry(p)
    PROVE  DownloadInv'
<1> USE DownloadAssumption DEF DownloadInv, DownloadTypeOK, At, Section, ModelIsWhole, Go
<1>1. CASE EnsureModel(p)
  BY <1>1 DEF EnsureModel
<1>2. CASE AcquireLock(p)
  <2>1. proc[p].at = "lock" /\ UNCHANGED <<model, tmpFile, removals, kills>>
    BY <1>2 DEF AcquireLock
  <2>2. CASE holder = {} /\ holder' = {p} /\ Go(p, "recheck")
    BY <2>1, <2>2
  <2>3. CASE Go(p, "failed") /\ UNCHANGED holder
    BY <2>1, <2>3
  <2> QED
    BY <1>2, <2>2, <2>3 DEF AcquireLock, Lock
<1>3. CASE CheckAgain(p)
  BY <1>3 DEF CheckAgain
<1>4. CASE Retry(p)
  BY <1>4 DEF Retry
<1> QED
  BY <1>1, <1>2, <1>3, <1>4

\* The download itself: nobody else has the temporary file open.
LEMMA DownloadRuns ==
    ASSUME DownloadInv, NEW p \in Process, Create(p) \/ ReadBody(p) \/ RenameFile(p)
    PROVE  DownloadInv'
<1> USE DEF DownloadInv, DownloadTypeOK, At, Section, ModelIsWhole, Go
<1>1. \A q \in Process : proc[q].at \in Section => q = p
  BY DEF Create, ReadBody, RenameFile
<1>2. tmpFile.of \subseteq {p}
  BY <1>1
<1>3. CASE Create(p)
  BY <1>1, <1>2, <1>3 DEF Create
<1>4. CASE ReadBody(p)
  <2>1. tmpFile.of = {p}
    BY <1>2, <1>4 DEF ReadBody
  <2>2. tmpFile' = [is |-> "whole", of |-> {}]
    BY <1>4, <2>1 DEF ReadBody
  <2> QED
    BY <1>1, <1>4, <2>2 DEF ReadBody
<1>5. CASE RenameFile(p)
  BY <1>1, <1>2, <1>5 DEF RenameFile
<1> QED
  BY <1>3, <1>4, <1>5

\* Failures and kills leave at most a part in the temporary file.
LEMMA DownloadFails ==
    ASSUME DownloadInv, (\E p \in Process : FailDownload(p) \/ Kill(p)) \/ DeleteModel
    PROVE  DownloadInv'
<1> USE DEF DownloadInv, DownloadTypeOK, At, Section, ModelIsWhole, Go
<1>1. ASSUME NEW p \in Process, FailDownload(p)  PROVE DownloadInv'
  <2>1. \A q \in Process : proc[q].at \in Section => q = p
    BY <1>1 DEF FailDownload
  <2> QED
    BY <1>1, <2>1 DEF FailDownload
<1>2. ASSUME NEW p \in Process, Kill(p)  PROVE DownloadInv'
  BY <1>2, DownloadAssumption DEF Kill
<1>3. CASE DeleteModel
  BY <1>3 DEF DeleteModel
<1> QED
  BY <1>1, <1>2, <1>3

LEMMA DownloadStep == DownloadInv /\ [DownloadNext]_downloadVars => DownloadInv'
<1> SUFFICES ASSUME DownloadInv, [DownloadNext]_downloadVars  PROVE DownloadInv'
  OBVIOUS
<1>1. CASE UNCHANGED downloadVars
  BY <1>1 DEF downloadVars, DownloadInv, DownloadTypeOK, ModelIsWhole
<1>2. CASE DownloadNext
  BY <1>2, DownloadWaits, DownloadRuns, DownloadFails DEF DownloadNext
<1> QED
  BY <1>1, <1>2

\* Whichever processes fetch the model, fail, try again, are killed or remove it,
\* what is under its name is never a part of it (model.go:56-183).
THEOREM DownloadIsWhole == DownloadSpec => []ModelIsWhole
<1>1. DownloadInv => ModelIsWhole
  BY DEF DownloadInv
<1> QED
  BY DownloadStart, DownloadStep, <1>1, PTL DEF DownloadSpec

-----------------------------------------------------------------------------
(* Setting up.                                                             *)

Models == {Model(m[1], m[2]) : m \in AnyModel}
          \cup {DefaultModel, Model("qwen", "large"), Model("llama", "small"), Model("nomic", "large")}

Places == {"begin", "start", "wait", "again", "model", "pull", "verify", "ready", "failed", "offline"}

\* While nothing raised a doubt the server goes on running once a caller found it
\* so, and whoever is past the pull left the model there.
SetupInv ==
    /\ models \in Seq(Models) /\ command \in [Command -> Places]
    /\ doubts = {} => \A c \in Command :
          /\ command[c] \in {"model", "again", "pull", "verify", "ready"} => Running
          /\ command[c] \in {"verify", "ready"} => HasModel(DefaultModel)

LEMMA SetupStart == SetupInit => SetupInv
<1> SUFFICES ASSUME SetupInit  PROVE SetupInv
  OBVIOUS
<1>1. \A m \in Models : <<m>> \in Seq(Models) /\ \A n \in Models : <<m, n>> \in Seq(Models)
  OBVIOUS
<1>2. /\ \A m \in AnyModel : Model(m[1], m[2]) \in Models
      /\ Model("qwen", "large") \in Models /\ DefaultModel \in Models
      /\ Model("llama", "small") \in Models /\ Model("nomic", "large") \in Models
  BY Zenon DEF Models
<1>3. \/ models = <<>> \/ \E m \in AnyModel : models = <<Model(m[1], m[2])>>
      \/ models = <<Model("qwen", "large"), DefaultModel>>
      \/ models = <<Model("llama", "small"), Model("nomic", "large")>>
  BY Zenon DEF SetupInit
<1>4. models \in Seq(Models)
  <2>1. <<>> \in Seq(Models)
    OBVIOUS
  <2> QED
    BY <1>1, <1>2, <1>3, <2>1, Zenon
<1>5. command = [c \in Command |-> "begin"]
  BY Zenon DEF SetupInit
<1> QED
  BY <1>4, <1>5 DEF SetupInv, Places

\* A caller goes on to a place where it knows of the server and of the model what
\* is so; the server and its models are as before, or the model has come.
LEMMA GoesOn ==
    ASSUME SetupInv, NEW c \in Command, NEW place \in Places, command' = [command EXCEPT ![c] = place],
           models' \in Seq(Models),
           doubts' = {} => /\ doubts = {} /\ (Running => Running') /\ (HasModel(DefaultModel) => HasModel(DefaultModel)')
                           /\ place \in {"model", "again", "pull", "verify", "ready"} => Running'
                           /\ place \in {"verify", "ready"} => HasModel(DefaultModel)'
    PROVE  SetupInv'
<1>1. command' \in [Command -> Places] /\ command'[c] = place /\ \A d \in Command : d # c => command'[d] = command[d]
  BY DEF SetupInv
<1>2. ASSUME doubts' = {}, NEW d \in Command
      PROVE  /\ command'[d] \in {"model", "again", "pull", "verify", "ready"} => Running'
             /\ command'[d] \in {"verify", "ready"} => HasModel(DefaultModel)'
  <2>1. CASE d = c
    BY <1>1, <1>2, <2>1
  <2>2. CASE d # c
    BY <1>1, <1>2, <2>2 DEF SetupInv
  <2> QED
    BY <2>1, <2>2
<1> QED
  BY <1>1, <1>2 DEF SetupInv

\* A model pulled, or listed before the others.
LEMMA OneMore ==
    ASSUME NEW s \in Seq(Models), NEW m \in Models
    PROVE  /\ Append(s, m) \in Seq(Models) /\ Append(s, m)[Len(s) + 1] = m /\ Len(s) + 1 \in DOMAIN Append(s, m)
           /\ <<m>> \o s \in Seq(Models) /\ Len(<<m>> \o s) = Len(s) + 1
           /\ \A i \in DOMAIN s : i + 1 \in DOMAIN (<<m>> \o s) /\ (<<m>> \o s)[i + 1] = s[i]
<1>1. <<m>> \in Seq(Models) /\ Len(<<m>>) = 1
  OBVIOUS
<1>2. <<m>> \o s \in Seq(Models) /\ Len(<<m>> \o s) = Len(s) + 1
  BY <1>1
<1>3. \A i \in DOMAIN s : i + 1 \in DOMAIN (<<m>> \o s) /\ (<<m>> \o s)[i + 1] = s[i]
  BY <1>1, <1>2
<1> QED
  BY <1>2, <1>3

LEMMA SetupStep == SetupInv /\ [SetupNext]_setupVars => SetupInv'
<1> SUFFICES ASSUME SetupInv, [SetupNext]_setupVars  PROVE SetupInv'
  OBVIOUS
<1> USE DEF Places
<1> DEFINE Has == HasModel(DefaultModel)
           Going(c, place) ==
               /\ place \in Places /\ command' = [command EXCEPT ![c] = place]
               /\ doubts' = {} => /\ place \in {"model", "again", "pull", "verify", "ready"} => Running'
                                  /\ place \in {"verify", "ready"} => Has'
<1>1. CASE UNCHANGED setupVars
  BY <1>1 DEF setupVars, SetupInv, Running, HasModel
<1>2. ASSUME NEW c \in Command, GiveUp(c)  PROVE Going(c, "failed") \/ Going(c, "offline")
  BY <1>2 DEF GiveUp, Goto
<1>3. \A c \in Command : /\ Finish(c) \in {"verify", "ready"}
                         /\ AfterStatus(c) \in {"verify", "ready", "pull"}
                         /\ Running /\ AfterStatus(c) # "pull" => Has
  BY DEF Finish, AfterStatus, LacksModel
<1>4. ASSUME NEW c \in Command,
             Look(c) \/ WaitForReady(c) \/ AskAgain(c) \/ AskForModel(c) \/ Verify(c) \/ VerifyOther(c)
      PROVE  SetupInv'
  <2>1. UNCHANGED <<server, models, doubts>>
    BY <1>4 DEF Look, WaitForReady, AskAgain, AskForModel, Verify, VerifyOther
  <2>2. (Running' <=> Running) /\ (Has' <=> Has) /\ models' \in Seq(Models)
    BY <2>1 DEF Running, HasModel, SetupInv
  <2>3. doubts = {} => /\ command[c] \in {"again", "verify"} => Running
                       /\ command[c] = "verify" => Has
    BY DEF SetupInv
  <2> HIDE DEF Has
  <2>4. \E place : Going(c, place)
    <3>1. CASE Look(c)
      <4>1. CASE server = "absent"
        BY <1>2, <3>1, <4>1 DEF Look
      <4>2. CASE ~Running /\ Goto(c, "start")
        <5> SUFFICES Going(c, "start")
          OBVIOUS
        <5> QED
          BY <4>2 DEF Goto
      <4>3. CASE Running /\ Goto(c, "model")
        <5> SUFFICES Going(c, "model")
          OBVIOUS
        <5> QED
          BY <2>2, <4>3 DEF Goto
      <4>4. CASE Running /\ Goto(c, AfterStatus(c))
        <5> SUFFICES Going(c, AfterStatus(c))
          OBVIOUS
        <5> QED
          BY <1>3, <2>2, <4>4 DEF Goto
      <4> QED
        BY <3>1, <4>1, <4>2, <4>3, <4>4 DEF Look
    <3>2. CASE WaitForReady(c)
      <4>1. CASE Running /\ Goto(c, IF c = "ensure" THEN "model" ELSE "again")
        <5> SUFFICES Going(c, IF c = "ensure" THEN "model" ELSE "again")
          OBVIOUS
        <5> QED
          BY <2>2, <4>1 DEF Goto
      <4> QED
        BY <1>2, <3>2, <4>1 DEF WaitForReady
    <3>3. CASE AskAgain(c)
      <4> SUFFICES Going(c, AfterStatus(c))
        OBVIOUS
      <4> QED
        BY <1>3, <2>1, <2>2, <2>3, <3>3 DEF Goto, AskAgain
    <3>4. CASE AskForModel(c)
      <4> DEFINE place == IF ~Running THEN "failed" ELSE IF Has THEN "ready" ELSE "pull"
      <4> SUFFICES Going(c, place)
        OBVIOUS
      <4> QED
        BY <2>2, <3>4 DEF Goto, AskForModel, Has
    <3>5. CASE Verify(c) \/ VerifyOther(c)
      <4>1. CASE Goto(c, "ready") /\ command[c] = "verify"
        <5> SUFFICES Going(c, "ready")
          OBVIOUS
        <5> QED
          BY <2>1, <2>2, <2>3, <4>1 DEF Goto
      <4>2. CASE Goto(c, "failed")
        <5> SUFFICES Going(c, "failed")
          OBVIOUS
        <5> QED
          BY <4>2 DEF Goto
      <4> QED
        BY <3>5, <4>1, <4>2 DEF Verify, VerifyOther
    <3> QED
      BY <1>4, <3>1, <3>2, <3>3, <3>4, <3>5
  <2>5. PICK place : Going(c, place)
    BY <2>4
  <2> QED
    BY <2>1, <2>2, <2>5, GoesOn DEF Has
<1>5. ASSUME NEW c \in Command, LookInVain(c)  PROVE SetupInv'
  <2>1. command' = [command EXCEPT ![c] = Finish(c)] /\ models' = models /\ doubts' # {}
    BY <1>5 DEF LookInVain, Goto
  <2> QED
    BY <1>3, <2>1 DEF SetupInv
<1>6. ASSUME NEW c \in Command, StartOllama(c)  PROVE SetupInv'
  <2>1. models' = models /\ doubts' = doubts /\ (Running => Running')
    BY <1>6 DEF StartOllama, Running
  <2>2. Going(c, "wait") \/ Going(c, "failed") \/ Going(c, "offline")
    BY <1>6, <1>2 DEF StartOllama, Goto
  <2>3. PICK place : Going(c, place)
    BY <2>2
  <2>4. (Has' <=> Has) /\ models' \in Seq(Models)
    BY <2>1 DEF HasModel, SetupInv
  <2> QED
    BY <2>1, <2>3, <2>4, GoesOn
<1>7. ASSUME NEW c \in Command, Pull(c)  PROVE SetupInv'
  <2>1. server' = server /\ command[c] = "pull" /\ (Running' <=> Running)
    BY <1>7 DEF Pull, Running
  <2>2. CASE Running /\ ~LacksModel /\ Goto(c, Finish(c)) /\ UNCHANGED <<models, doubts>>
    <3>1. (Has' <=> Has) /\ Has /\ models' \in Seq(Models)
      BY <2>2 DEF HasModel, LacksModel, SetupInv
    <3>2. Going(c, Finish(c))
      BY <1>3, <2>1, <2>2, <3>1 DEF Goto
    <3> HIDE DEF Has
    <3> QED
      BY <2>1, <2>2, <3>1, <3>2, GoesOn DEF Has
  <2>3. CASE LacksModel /\ Goto(c, Finish(c)) /\ models' = Append(models, DefaultModel) /\ UNCHANGED doubts
    <3>1. models' \in Seq(Models) /\ Has'
      <4>1. DefaultModel \in Models /\ models \in Seq(Models)
        BY DEF Models, SetupInv
      <4>2. Len(models) + 1 \in DOMAIN models' /\ models'[Len(models) + 1] = DefaultModel /\ models' \in Seq(Models)
        BY <2>3, <4>1, OneMore
      <4> QED
        BY <4>2 DEF HasModel
    <3>2. Going(c, Finish(c))
      BY <1>3, <2>1, <2>3, <3>1 DEF Goto, LacksModel
    <3> HIDE DEF Has
    <3> QED
      BY <2>1, <2>3, <3>1, <3>2, GoesOn DEF Has
  <2>4. CASE Goto(c, Finish(c)) /\ doubts' = doubts \cup {"pull"} /\ UNCHANGED models
    <3>1. command' = [command EXCEPT ![c] = Finish(c)] /\ models' = models /\ doubts' # {}
      BY <2>4 DEF Goto
    <3> QED
      BY <1>3, <3>1 DEF SetupInv
  <2>5. CASE GiveUp(c) /\ UNCHANGED <<models, doubts>>
    <3>1. (Has' <=> Has) /\ models' \in Seq(Models)
      BY <2>5 DEF HasModel, SetupInv
    <3>2. PICK place : Going(c, place)
      BY <1>2, <2>5
    <3> HIDE DEF Has
    <3> QED
      BY <2>1, <2>5, <3>1, <3>2, GoesOn DEF Has
  <2> QED
    BY <1>7, <2>2, <2>3, <2>4, <2>5 DEF Pull
<1>8. CASE ServerAnswers
  BY <1>8 DEF ServerAnswers, SetupInv, Running, HasModel
<1>9. CASE Upset
  <2>1. command' = command
    BY <1>9 DEF Upset
  <2>2. CASE server' = "stopped" /\ server # "stopped" /\ UNCHANGED models
    BY <1>9, <2>1, <2>2 DEF Upset, SetupInv
  <2>3. CASE models # <<>> /\ models' = Tail(models)
    <3>1. models' \in Seq(Models) /\ Len(models') < Len(models)
      BY <2>3 DEF SetupInv
    <3>2. doubts' # {}
      <4>1. ~(Len(models') > Len(models))
        BY <3>1 DEF SetupInv
      <4>2. doubts' = doubts \cup {"upset"}
        BY <1>9, <4>1 DEF Upset
      <4> QED
        BY <4>2
    <3> QED
      BY <2>1, <3>1, <3>2 DEF SetupInv
  <2>4. CASE \E m \in AnyModel : models' = <<Model(m[1], m[2])>> \o models /\ UNCHANGED server
    <3>1. PICK m \in Models : models' = <<m>> \o models
      BY <2>4 DEF Models
    <3>2. /\ models' \in Seq(Models)
          /\ \A i \in DOMAIN models : i + 1 \in DOMAIN models' /\ models'[i + 1] = models[i]
      BY <3>1, OneMore DEF SetupInv
    <3>3. Has => Has'
      BY <3>2 DEF HasModel
    <3>4. (Running' <=> Running) /\ (doubts' = {} => doubts = {})
      BY <1>9, <2>4 DEF Running, Upset
    <3> QED
      BY <2>1, <3>2, <3>3, <3>4 DEF SetupInv
  <2> QED
    BY <1>9, <2>2, <2>3, <2>4 DEF Upset
<1> QED
  BY <1>1, <1>4, <1>5, <1>6, <1>7, <1>8, <1>9 DEF SetupNext

LEMMA TwoNames ==
    ASSUME NEW a, NEW b
    PROVE  1 \in DOMAIN (<<a>> \o <<b>>) /\ (<<a>> \o <<b>>)[1] = a /\ DOMAIN (<<a>> \o <<b>>) \subseteq Nat \ {0}
<1> DEFINE S == {a, b}
<1>1. <<a>> \in Seq(S) /\ <<b>> \in Seq(S) /\ <<a>>[1] = a /\ Len(<<a>>) = 1 /\ Len(<<b>>) = 1
  OBVIOUS
<1> HIDE DEF S
<1>2. <<a>> \o <<b>> \in Seq(S) /\ Len(<<a>> \o <<b>>) = 2 /\ (<<a>> \o <<b>>)[1] = a
  BY <1>1
<1> QED
  BY <1>2

LEMMA LeastIsThere ==
    ASSUME NEW S \in SUBSET Nat, S # {}
    PROVE  Min(S) \in S /\ \A m \in S : Min(S) <= m
<1>1. PICK n \in S : \A m \in S : ~(<<m, n>> \in OpToRel(<, Nat))
  BY NatLessThanWellFounded, WFMin, Zenon
<1>2. \A m \in S : ~(m < n)
  BY <1>1, Zenon DEF OpToRel
<1>3. \A m \in S : n <= m
  BY <1>2
<1> QED
  BY <1>3 DEF Min

\* What is found where a model of the name is listed.
LEMMA ModelIsFound ==
    ASSUME models \in Seq(Models), HasModel(DefaultModel)
    PROVE  LET found == FindAvailableModel(models, DefaultModel)
           IN  found.base = DefaultModel.base /\ (Contains(models, DefaultModel) => found = DefaultModel)
<1> DEFINE of == {i \in DOMAIN models : models[i].base = DefaultModel.base}
           first == FirstOf(models, DefaultModel.base)
           names == <<DefaultModel>> \o FallbackModels
           there == {i \in DOMAIN names : FirstOf(models, names[i].base) /= None}
<1>1. first.base = DefaultModel.base /\ first # None
  <2>1. of # {} /\ of \subseteq Nat
    BY DEF HasModel
  <2>2. Min(of) \in of
    BY <2>1, LeastIsThere
  <2>3. first = models[Min(of)]
    BY <2>1 DEF FirstOf
  <2>4. DefaultModel.base # None.base
    BY DEF DefaultModel, Model, None
  <2> QED
    BY <2>2, <2>3, <2>4
<1>2. 1 \in there /\ names[1] = DefaultModel /\ \A i \in there : 1 <= i /\ i \in Nat
  <2>1. /\ 1 \in DOMAIN names /\ names[1] = DefaultModel /\ DOMAIN names \subseteq Nat \ {0}
    BY TwoNames DEF FallbackModels
  <2> QED
    BY <1>1, <2>1
<1>3. Min(there) = 1
  BY <1>2 DEF Min
<1>4. FindAvailableModel(models, DefaultModel) = IF Contains(models, DefaultModel) THEN DefaultModel ELSE first
  BY <1>2, <1>3 DEF FindAvailableModel
<1> QED
  BY <1>1, <1>4

\* For any commands beside a server and any models, whatever happens to either:
\* who is told the embedder is ready can make one, with the model asked for where
\* it is listed, unless a doubt was raised (setup.go, init.go, ollama.go); and for
\* any processes that fetch it, a model file that is there is whole (model.go).
THEOREM SetupStaysSound == SetupSpec /\ DownloadSpec => []SetupIsSound
<1>1. SetupInv => ReadyMeansUsable
  BY ModelIsFound DEF SetupInv, ReadyMeansUsable
<1>2. ReadyMeansUsable /\ ModelIsWhole => SetupIsSound
  BY DEF SetupIsSound
<1> QED
  BY SetupStart, SetupStep, <1>1, <1>2, DownloadIsWhole, PTL DEF SetupSpec

-----------------------------------------------------------------------------

Steps == {"down", "create", "fill", "name", "opened", "unlink", "claim", "stat", "copy", "serve",
          "save", "refill", "rename", "leave"}

\* Where a server has session.json.tmp open, where it has passed the look at the
\* project's PID file, and where that file is its own.
Writing == {"fill", "name", "refill", "rename"}
Between == {"unlink", "claim"}
Named == {"stat", "copy", "serve", "save", "refill", "rename", "leave"}

TakesPID(s) == CheckPID(s) \/ RemovePID(s) \/ WritePID(s)

\* The sessions that exist.
There == {n \in Session : Exists(n)}

FilesTyped ==
    /\ json \in [Session -> Inode \cup {Nothing}] /\ tmp \in [Session -> Inode \cup {Nothing}]
    /\ content \in [Inode -> Project \cup {Nothing}]
    /\ files \in [Session -> [Range(IndexFiles) -> {"none", "partial", "whole"}]]
    /\ pid \in [Project -> Server \cup {Nothing}]
    /\ IsFiniteSet(There)

ServersTyped ==
    /\ step \in [Server -> Steps]
    /\ sess \in [Server -> [name : Session \cup {Nothing}, project : Project \cup {Nothing}, counted : Nat]]
    /\ \A s \in Server : step[s] # "down" => sess[s].name \in Session /\ sess[s].project \in Project
    /\ holds \in [Server -> Inode \cup {Nothing}]
    /\ \A s \in Server : holds[s] # Nothing <=> step[s] \in Writing
    /\ copied \in [Server -> 0..4]

SessionTypeOK == FilesTyped /\ ServersTyped

\* No inode has two names, and a server writes none of another session's.
InodesAreApart ==
    /\ \A n, m \in Session : /\ n # m /\ json[n] # Nothing => json[n] # json[m]
                             /\ n # m /\ tmp[n] # Nothing => tmp[n] # tmp[m]
                             /\ json[n] # Nothing => json[n] # tmp[m]
    /\ \A s \in Server : holds[s] # Nothing =>
           /\ \A m \in Session : m # sess[s].name => json[m] # holds[s] /\ tmp[m] # holds[s]
           /\ \A r \in Server : holds[r] = holds[s] => sess[r].name = sess[s].name

\* Where no two saves have met, the one under way has the temporary file to itself,
\* and has written it before it is renamed.
SavesAreAlone ==
    \A s \in Server : holds[s] # Nothing /\ sess[s].name \notin shared =>
        /\ \A r \in Server : holds[r] # Nothing /\ sess[r].name = sess[s].name => r = s
        /\ tmp[sess[s].name] \in {Nothing, holds[s]} /\ json[sess[s].name] # holds[s]
        /\ step[s] \in {"name", "rename"} => content[holds[s]] # Nothing

\* A server past WritePID is the one of its project, unless two have taken its PID
\* file at once, so that two of them on one session are rivals.
CopiersAreAlone ==
    /\ \A s \in Server : step[s] \in Named /\ sess[s].project \notin raced => pid[sess[s].project] = s
    /\ \A s, r \in Server : /\ s # r /\ step[s] \in Between /\ step[r] \in Between \cup Named
                            /\ sess[s].project = sess[r].project
                            => sess[s].project \in raced
    /\ \A s, r \in Server : /\ step[s] # "down" /\ step[r] # "down"
                            /\ sess[s].name = sess[r].name /\ sess[s].project # sess[r].project
                            => s \in bereft

\* How far a copy of its own is while a server makes it.
CopyIsAsFar ==
    \A s \in Server :
        /\ step[s] \in {"create", "fill", "name", "opened", "unlink", "claim", "stat"} => copied[s] = 0
        /\ step[s] = "copy" /\ s \notin bereft /\ sess[s].project \notin raced =>
               /\ copied[s] = 1 => files[sess[s].name]["metadata.db"] = "partial"
               /\ copied[s] \in 2..4 => files[sess[s].name]["metadata.db"] = "whole"
               /\ copied[s] = 3 => files[sess[s].name]["vectors.hnsw"] = "partial"
               /\ copied[s] = 4 => files[sess[s].name]["vectors.hnsw"] = "whole"

CountedWithRoom == \A s \in Server : step[s] \in {"create", "fill", "name"} => sess[s].counted < MaxSessions

\* The strengthening of SessionsAreWhole.
SessionsInv ==
    /\ SessionTypeOK /\ InodesAreApart /\ SavesAreAlone /\ CopiersAreAlone /\ CopyIsAsFar
    /\ CountedWithRoom /\ SessionsAreWhole

-----------------------------------------------------------------------------

LEMMA TwoFiles ==
    /\ Range(IndexFiles) = {"metadata.db", "vectors.hnsw"} /\ 2 * Len(IndexFiles) = 4
    /\ IndexFiles[1] = "metadata.db" /\ IndexFiles[2] = "vectors.hnsw"
<1>1. Len(IndexFiles) = 2 /\ IndexFiles[1] = "metadata.db" /\ IndexFiles[2] = "vectors.hnsw"
      /\ DOMAIN IndexFiles = {1, 2}
  BY DEF IndexFiles
<1>2. 2 * Len(IndexFiles) = 4
  BY <1>1
<1> QED
  BY <1>1, <1>2 DEF Range

LEMMA SessionsStart == SessionsInit => SessionsInv
<1> SUFFICES ASSUME SessionsInit  PROVE SessionsInv
  OBVIOUS
<1> USE SessionsAssumption, TwoFiles
<1>1. There = {} /\ IsFiniteSet(There) /\ Cardinality(There) = 0 /\ IsFiniteSet({}) /\ Cardinality({}) = 0
  BY FS_EmptySet DEF SessionsInit, There, Exists
<1>2. NoFiles \in [Range(IndexFiles) -> {"none", "partial", "whole"}]
  BY DEF NoFiles
<1>3. FilesTyped
  BY <1>1, <1>2 DEF SessionsInit, FilesTyped
<1>4. ServersTyped
  <2>1. holds \in [Server -> Inode \cup {Nothing}] /\ copied \in [Server -> 0..4]
    BY DEF SessionsInit
  <2>3. step \in [Server -> Steps]
    BY DEF SessionsInit, Steps
  <2>4. [name |-> Nothing, project |-> Nothing, counted |-> 0]
            \in [name : Session \cup {Nothing}, project : Project \cup {Nothing}, counted : Nat]
    OBVIOUS
  <2>5. sess \in [Server -> [name : Session \cup {Nothing}, project : Project \cup {Nothing}, counted : Nat]]
    BY <2>4 DEF SessionsInit
  <2>2. \A s \in Server : step[s] = "down" /\ holds[s] = Nothing
    BY DEF SessionsInit
  <2> QED
    BY <2>1, <2>2, <2>3, <2>5 DEF ServersTyped, Writing
<1>5. InodesAreApart /\ SavesAreAlone /\ CopiersAreAlone /\ CopyIsAsFar /\ CountedWithRoom
  BY DEF SessionsInit, InodesAreApart, SavesAreAlone, CopiersAreAlone, CopyIsAsFar, CountedWithRoom, Named, Between
<1>6. SessionFileIsWhole /\ CopierServesAll
  BY DEF SessionsInit, SessionFileIsWhole, CopierServesAll, Exists
<1>7. Cardinality(There \ excess) = 0
  <2>1. There \ excess = {}
    BY <1>1
  <2> QED
    BY <1>1, <2>1, Zenon
<1>8. WithinLimit
  <2>1. Cardinality({n \in Session : Exists(n)} \ excess) = 0
    BY <1>7 DEF There
  <2>2. 0 <= MaxSessions
    OBVIOUS
  <2> QED
    BY <2>1, <2>2, Zenon DEF WithinLimit
<1> QED
  BY <1>3, <1>4, <1>5, <1>6, <1>8 DEF SessionsInv, SessionsAreWhole, SessionTypeOK

-----------------------------------------------------------------------------

LEMMA CountIsNat == SessionTypeOK => SessionCount \in Nat
  BY FS_CardinalityType DEF SessionTypeOK, FilesTyped, SessionCount, There

\* A temporary file is one that is there or a new one, which nothing refers to.
LEMMA TemporaryIs ==
    ASSUME SessionTypeOK, NEW s \in Server, OpenTemporary(s)
    PROVE  \E i \in Inode :
              /\ IF tmp[sess[s].name] # Nothing THEN i = tmp[sess[s].name] ELSE i \notin Referred
              /\ tmp' = [tmp EXCEPT ![sess[s].name] = i] /\ holds' = [holds EXCEPT ![s] = i]
              /\ content' = [content EXCEPT ![i] = Nothing]
<1>1. sess[s].name \in Session
  BY DEF SessionTypeOK, ServersTyped, OpenTemporary
<1>2. CASE tmp[sess[s].name] # Nothing
  BY <1>1, <1>2 DEF SessionTypeOK, FilesTyped, OpenTemporary
<1>3. CASE tmp[sess[s].name] = Nothing
  <2>1. NewInode \in Inode \ Referred
    BY <1>3 DEF OpenTemporary, NewInode
  <2> QED
    BY <1>3, <2>1 DEF OpenTemporary
<1> QED
  BY <1>2, <1>3

LEMMA FilesStayTyped == SessionTypeOK /\ [SessionsNext]_sessionVars => FilesTyped'
<1> SUFFICES ASSUME SessionTypeOK, [SessionsNext]_sessionVars  PROVE FilesTyped'
  OBVIOUS
<1> USE DEF SessionTypeOK
<1>1. ASSUME UNCHANGED <<json, tmp, content, files, pid>>  PROVE FilesTyped'
  BY <1>1 DEF FilesTyped, There, Exists
<1>2. ASSUME NEW s \in Server, OpenTemporary(s)  PROVE FilesTyped'
  <2>1. There' = There /\ UNCHANGED <<json, files, pid>>
    BY <1>2 DEF OpenTemporary, There, Exists
  <2>2. PICK i \in Inode : tmp' = [tmp EXCEPT ![sess[s].name] = i] /\ content' = [content EXCEPT ![i] = Nothing]
    BY <1>2, TemporaryIs
  <2> QED
    BY <2>1, <2>2 DEF FilesTyped
<1>3. ASSUME NEW s \in Server, WriteTemporary(s)  PROVE FilesTyped'
  <2>1. There' = There /\ UNCHANGED <<json, tmp, files, pid>>
    BY <1>3 DEF WriteTemporary, There, Exists
  <2>2. content' \in [Inode -> Project \cup {Nothing}]
    BY <1>3 DEF WriteTemporary, FilesTyped, ServersTyped
  <2> QED
    BY <2>1, <2>2 DEF FilesTyped
<1>4. ASSUME NEW s \in Server, Rename(s)  PROVE FilesTyped'
  <2>1. sess[s].name \in Session /\ UNCHANGED <<content, files, pid>>
    BY <1>4 DEF ServersTyped, Rename
  <2>2. json' \in [Session -> Inode \cup {Nothing}] /\ tmp' \in [Session -> Inode \cup {Nothing}]
    BY <1>4, <2>1 DEF Rename, FilesTyped
  <2>3. There' \subseteq There \cup {sess[s].name}
    BY <1>4, <2>1 DEF Rename, There, Exists, FilesTyped
  <2>4. IsFiniteSet(There')
    BY <2>3, FS_AddElement, FS_Subset DEF FilesTyped
  <2> QED
    BY <2>1, <2>2, <2>4 DEF FilesTyped
<1>5. ASSUME NEW s \in Server, TakesPID(s) \/ Leave(s)  PROVE FilesTyped'
  <2>1. There' = There /\ UNCHANGED <<json, tmp, content, files>>
    BY <1>5 DEF TakesPID, CheckPID, RemovePID, WritePID, Leave, There, Exists
  <2>2. pid' \in [Project -> Server \cup {Nothing}]
    BY <1>5 DEF TakesPID, CheckPID, RemovePID, WritePID, Leave, FilesTyped
  <2> QED
    BY <2>1, <2>2 DEF FilesTyped
<1>6. ASSUME NEW s \in Server, CopyFile(s)  PROVE FilesTyped'
  <2>1. There' = There /\ UNCHANGED <<json, tmp, content, pid>>
    BY <1>6 DEF CopyFile, There, Exists
  <2>2. files' \in [Session -> [Range(IndexFiles) -> {"none", "partial", "whole"}]]
    <3>1. CASE files' = files
      BY <3>1 DEF FilesTyped
    <3>2. CASE files' # files
      <4> DEFINE f == IndexFiles[(copied[s] \div 2) + 1]
                 n == sess[s].name
      <4>1. files' = [files EXCEPT ![n][f] = IF copied[s] % 2 = 0 THEN "partial"
                                              ELSE IF @ = "partial" THEN "whole" ELSE @]
        BY <1>6, <3>2, Zenon DEF CopyFile
      <4>2. step[s] = "copy" /\ copied[s] # 2 * Len(IndexFiles)
        BY <1>6, <3>2 DEF CopyFile
      <4>3. n \in Session /\ copied[s] \in 0..3
        <5>1. copied[s] \in 0..4 /\ n \in Session
          BY <4>2 DEF ServersTyped
        <5>2. copied[s] # 4
          BY <4>2, TwoFiles, Zenon
        <5> QED
          BY <5>1, <5>2
      <4>4. f \in Range(IndexFiles)
        <5>1. (copied[s] \div 2) + 1 \in {1, 2}
          BY <4>3
        <5> QED
          BY <5>1, TwoFiles, Zenon
      <4> QED
        BY <4>1, <4>3, <4>4 DEF FilesTyped
    <3> QED
      BY <3>1, <3>2
  <2> QED
    BY <2>1, <2>2 DEF FilesTyped
<1>7. ASSUME NEW n \in Session, Delete(n)  PROVE FilesTyped'
  <2>1. There' \subseteq There
    BY <1>7 DEF Delete, There, Exists, FilesTyped
  <2>2. IsFiniteSet(There')
    BY <2>1, FS_Subset DEF FilesTyped
  <2>3. NoFiles \in [Range(IndexFiles) -> {"none", "partial", "whole"}]
    BY TwoFiles DEF NoFiles
  <2> QED
    BY <1>7, <2>2, <2>3 DEF Delete, FilesTyped
<1>8. ASSUME NEW s \in Server, FindIndex(s) \/ FailStart(s) \/ Shutdown(s) \/ KillServer(s)  PROVE FilesTyped'
  BY <1>1, <1>8 DEF FindIndex, FailStart, Shutdown, KillServer
<1>9. ASSUME NEW s \in Server, NEW n \in Session, NEW p \in Project, Open(s, n, p)  PROVE FilesTyped'
  BY <1>1, <1>9 DEF Open
<1> QED
  BY <1>1, <1>2, <1>3, <1>4, <1>5, <1>6, <1>7, <1>8, <1>9 DEF SessionsNext, TakesPID, sessionVars

LEMMA ServersStayTyped == SessionTypeOK /\ [SessionsNext]_sessionVars => ServersTyped'
<1> SUFFICES ASSUME SessionTypeOK, [SessionsNext]_sessionVars  PROVE ServersTyped'
  OBVIOUS
<1> USE SessionsAssumption DEF SessionTypeOK
<1>1. ASSUME UNCHANGED <<step, sess, holds, copied>>  PROVE ServersTyped'
  BY <1>1 DEF ServersTyped
<1>2. ASSUME NEW s \in Server, NEW n \in Session, NEW p \in Project, Open(s, n, p)  PROVE ServersTyped'
  <2>1. step[s] = "down" /\ holds' = holds /\ holds[s] = Nothing
    BY <1>2 DEF Open, ServersTyped, Writing
  <2>2. sess' = [sess EXCEPT ![s] = [name |-> n, project |-> p, counted |-> SessionCount]]
        /\ copied' = [copied EXCEPT ![s] = 0]
    BY <1>2 DEF Open
  <2>3. PICK place \in {"down", "opened", "create"} : step' = [step EXCEPT ![s] = place]
    BY <1>2, <2>1 DEF Open, ServersTyped
  <2>4. SessionCount \in Nat
    BY CountIsNat
  <2> HIDE <1>2 DEF SessionTypeOK
  <2> QED
    BY <2>1, <2>2, <2>3, <2>4 DEF SessionTypeOK, ServersTyped, Steps, Writing
<1>3. ASSUME NEW s \in Server, NEW to \in Steps, step' = [step EXCEPT ![s] = to], step[s] # "down",
             to \in Writing, UNCHANGED <<sess, copied>>,
             NEW i \in Inode, holds' = [holds EXCEPT ![s] = i]
      PROVE  ServersTyped'
  BY <1>3 DEF ServersTyped
<1>4. ASSUME NEW s \in Server, NEW to \in Steps, step' = [step EXCEPT ![s] = to], step[s] # "down",
             to \notin Writing, UNCHANGED sess, holds' = [holds EXCEPT ![s] = Nothing],
             copied' \in [Server -> 0..4]
      PROVE  ServersTyped'
  BY <1>4 DEF ServersTyped
<1>5. ASSUME NEW s \in Server, OpenTemporary(s)  PROVE ServersTyped'
  <2>1. PICK i \in Inode : holds' = [holds EXCEPT ![s] = i]
    BY <1>5, TemporaryIs
  <2>2. step[s] # "down" /\ UNCHANGED <<sess, copied>>
    BY <1>5 DEF OpenTemporary
  <2>3. PICK to \in {"fill", "refill"} : step' = [step EXCEPT ![s] = to]
    BY <1>5 DEF OpenTemporary, NextStep
  <2>4. to \in Steps /\ to \in Writing
    BY DEF Steps, Writing
  <2> QED
    BY <1>3, <2>1, <2>2, <2>3, <2>4
<1>6. ASSUME NEW s \in Server, WriteTemporary(s)  PROVE ServersTyped'
  <2>1. step[s] \in Writing /\ UNCHANGED <<sess, copied, holds>>
    BY <1>6 DEF WriteTemporary, Writing
  <2>2. PICK to \in {"name", "rename"} : step' = [step EXCEPT ![s] = to]
    BY <1>6 DEF WriteTemporary, NextStep
  <2> QED
    BY <2>1, <2>2 DEF ServersTyped, Steps, Writing
<1>7. ASSUME NEW s \in Server, Rename(s)  PROVE ServersTyped'
  <2>1. step[s] # "down" /\ UNCHANGED <<sess, copied>> /\ holds' = [holds EXCEPT ![s] = Nothing]
    BY <1>7 DEF Rename
  <2>2. PICK to \in {"opened", "down", "leave"} : step' = [step EXCEPT ![s] = to]
    BY <1>7 DEF Rename, NextStep
  <2>3. to \in Steps /\ to \notin Writing /\ copied' \in [Server -> 0..4]
    BY <2>1 DEF Steps, Writing, ServersTyped
  <2> QED
    BY <1>4, <2>1, <2>2, <2>3
<1>8. ASSUME NEW s \in Server, TakesPID(s) \/ FindIndex(s) \/ FailStart(s) \/ Shutdown(s) \/ Leave(s) \/ KillServer(s)
      PROVE  ServersTyped'
  <2>1. /\ UNCHANGED <<sess, copied>> /\ step[s] # "down"
        /\ holds' = [holds EXCEPT ![s] = Nothing]
    BY <1>8 DEF TakesPID, CheckPID, RemovePID, WritePID, FindIndex, FailStart, Shutdown, Leave, KillServer, ServersTyped, Writing
  <2>2. PICK to \in {"down", "unlink", "claim", "stat", "serve", "copy", "leave", "save"} : step' = [step EXCEPT ![s] = to]
    BY <1>8 DEF TakesPID, CheckPID, RemovePID, WritePID, FindIndex, FailStart, Shutdown, Leave, KillServer
  <2>3. to \in Steps /\ to \notin Writing /\ copied' \in [Server -> 0..4]
    BY <2>1 DEF Steps, Writing, ServersTyped
  <2> QED
    BY <1>4, <2>1, <2>2, <2>3
<1>9. ASSUME NEW s \in Server, CopyFile(s)  PROVE ServersTyped'
  <2>1. UNCHANGED sess /\ step[s] = "copy" /\ holds' = [holds EXCEPT ![s] = Nothing]
    BY <1>9 DEF CopyFile, ServersTyped, Writing
  <2>2. PICK to \in {"copy", "serve", "leave"} : step' = [step EXCEPT ![s] = to]
    BY <1>9 DEF CopyFile, ServersTyped
  <2>3. copied' \in [Server -> 0..4]
    <3>1. CASE copied' = copied
      BY <3>1 DEF ServersTyped
    <3>2. CASE copied' # copied
      <4>1. copied' = [copied EXCEPT ![s] = @ + 1] /\ copied[s] # 2 * Len(IndexFiles)
        BY <1>9, <3>2 DEF CopyFile
      <4>2. copied[s] # 4
        BY <4>1, TwoFiles, Zenon
      <4> QED
        BY <4>1, <4>2 DEF ServersTyped
    <3> QED
      BY <3>1, <3>2
  <2>4. to \in Steps /\ to \notin Writing
    BY DEF Steps, Writing
  <2> QED
    BY <1>4, <2>1, <2>2, <2>3, <2>4
<1>10. ASSUME NEW n \in Session, Delete(n)  PROVE ServersTyped'
  BY <1>1, <1>10 DEF Delete
<1> QED
  BY <1>1, <1>2, <1>5, <1>6, <1>7, <1>8, <1>9, <1>10 DEF SessionsNext, TakesPID, sessionVars

LEMMA SessionsTyped == SessionTypeOK /\ [SessionsNext]_sessionVars => SessionTypeOK'
  BY FilesStayTyped, ServersStayTyped DEF SessionTypeOK

-----------------------------------------------------------------------------

\* A new inode is nobody's; a temporary file that is there is its session's only.
LEMMA TemporaryIsApart ==
    ASSUME SessionTypeOK, InodesAreApart, NEW s \in Server, OpenTemporary(s), NEW i \in Inode,
           IF tmp[sess[s].name] # Nothing THEN i = tmp[sess[s].name] ELSE i \notin Referred
    PROVE  /\ i # Nothing /\ sess[s].name \in Session
           /\ \A m \in Session : json[m] # i /\ (m # sess[s].name => tmp[m] # i)
           /\ \A r \in Server : holds[r] = i => sess[r].name = sess[s].name
           /\ tmp[sess[s].name] = Nothing => \A r \in Server : holds[r] # i
<1>1. sess[s].name \in Session /\ i # Nothing
  BY SessionsAssumption DEF SessionTypeOK, ServersTyped, OpenTemporary
<1>2. CASE tmp[sess[s].name] # Nothing
  <2>1. i = tmp[sess[s].name]
    BY <1>2
  <2>2. ASSUME NEW r \in Server, holds[r] = i  PROVE sess[r].name = sess[s].name
    BY <1>1, <2>1, <2>2 DEF InodesAreApart
  <2> QED
    BY <1>1, <1>2, <2>1, <2>2 DEF InodesAreApart
<1>3. CASE tmp[sess[s].name] = Nothing
  <2>1. i \notin Referred
    BY <1>3
  <2> QED
    BY <1>1, <1>3, <2>1 DEF Referred
<1> QED
  BY <1>2, <1>3

LEMMA InodesStayApart ==
    SessionTypeOK /\ InodesAreApart /\ [SessionsNext]_sessionVars => InodesAreApart'
<1> SUFFICES ASSUME SessionTypeOK, InodesAreApart, [SessionsNext]_sessionVars  PROVE InodesAreApart'
  OBVIOUS
<1>1. ASSUME UNCHANGED <<json, tmp, sess, holds>>  PROVE InodesAreApart'
  BY <1>1 DEF InodesAreApart
<1>2. ASSUME NEW s \in Server, NEW n \in Session, NEW p \in Project, Open(s, n, p)  PROVE InodesAreApart'
  <2>1. holds[s] = Nothing /\ UNCHANGED <<json, tmp, holds>> /\ \A r \in Server \ {s} : sess'[r] = sess[r]
    BY <1>2 DEF Open, SessionTypeOK, ServersTyped, Writing
  <2> QED
    BY <2>1 DEF InodesAreApart
<1>3. ASSUME NEW s \in Server, OpenTemporary(s)  PROVE InodesAreApart'
  <2>1. PICK i \in Inode :
              /\ IF tmp[sess[s].name] # Nothing THEN i = tmp[sess[s].name] ELSE i \notin Referred
              /\ tmp' = [tmp EXCEPT ![sess[s].name] = i] /\ holds' = [holds EXCEPT ![s] = i]
              /\ content' = [content EXCEPT ![i] = Nothing]
    BY <1>3, TemporaryIs
  <2>2. UNCHANGED <<json, sess>>
    BY <1>3 DEF OpenTemporary
  <2>3. /\ i # Nothing /\ sess[s].name \in Session
        /\ \A m \in Session : json[m] # i /\ (m # sess[s].name => tmp[m] # i)
        /\ \A r \in Server : holds[r] = i => sess[r].name = sess[s].name
    BY <1>3, <2>1, TemporaryIsApart
  <2>4. tmp'[sess[s].name] = i /\ holds'[s] = i
    BY <2>1, <2>3 DEF SessionTypeOK, FilesTyped, ServersTyped
  <2>5. /\ \A m \in Session : m # sess[s].name => tmp'[m] = tmp[m]
        /\ \A r \in Server : r # s => holds'[r] = holds[r]
    BY <2>1 DEF SessionTypeOK, FilesTyped, ServersTyped
  <2>6. \A n, m \in Session : /\ n # m /\ json'[n] # Nothing => json'[n] # json'[m]
                              /\ n # m /\ tmp'[n] # Nothing => tmp'[n] # tmp'[m]
                              /\ json'[n] # Nothing => json'[n] # tmp'[m]
    BY <2>2, <2>3, <2>4, <2>5 DEF InodesAreApart
  <2>7. ASSUME NEW r \in Server, holds'[r] # Nothing
        PROVE  /\ \A m \in Session : m # sess'[r].name => json'[m] # holds'[r] /\ tmp'[m] # holds'[r]
               /\ \A q \in Server : holds'[q] = holds'[r] => sess'[q].name = sess'[r].name
    <3>1. CASE r = s
      BY <2>2, <2>3, <2>4, <2>5, <3>1 DEF InodesAreApart
    <3>2. CASE r # s
      BY <2>2, <2>3, <2>4, <2>5, <2>7, <3>2 DEF InodesAreApart
    <3> QED
      BY <3>1, <3>2
  <2> QED
    BY <2>6, <2>7 DEF InodesAreApart
<1>4. ASSUME NEW s \in Server, Rename(s)  PROVE InodesAreApart'
  <2>1. /\ sess[s].name \in Session /\ sess' = sess /\ holds'[s] = Nothing
        /\ \A r \in Server : r # s => holds'[r] = holds[r]
    BY <1>4 DEF Rename, SessionTypeOK, ServersTyped
  <2>2. CASE UNCHANGED <<json, tmp>>
    BY <2>1, <2>2 DEF InodesAreApart
  <2>3. CASE ~UNCHANGED <<json, tmp>>
    <3>1. /\ tmp[sess[s].name] # Nothing
          /\ json' = [json EXCEPT ![sess[s].name] = tmp[sess[s].name]]
          /\ tmp' = [tmp EXCEPT ![sess[s].name] = Nothing]
      BY <1>4, <2>3 DEF Rename
    <3>2. /\ json'[sess[s].name] = tmp[sess[s].name] /\ tmp'[sess[s].name] = Nothing
          /\ \A m \in Session : m # sess[s].name => json'[m] = json[m] /\ tmp'[m] = tmp[m]
      BY <2>1, <3>1 DEF SessionTypeOK, FilesTyped
    <3>3. \A n, m \in Session : /\ n # m /\ json'[n] # Nothing => json'[n] # json'[m]
                                /\ n # m /\ tmp'[n] # Nothing => tmp'[n] # tmp'[m]
                                /\ json'[n] # Nothing => json'[n] # tmp'[m]
      BY <3>1, <3>2 DEF InodesAreApart
    <3>4. ASSUME NEW r \in Server, holds'[r] # Nothing
          PROVE  /\ \A m \in Session : m # sess'[r].name => json'[m] # holds'[r] /\ tmp'[m] # holds'[r]
                 /\ \A q \in Server : holds'[q] = holds'[r] => sess'[q].name = sess'[r].name
      BY <2>1, <3>1, <3>2, <3>4 DEF InodesAreApart
    <3> QED
      BY <3>3, <3>4 DEF InodesAreApart
  <2> QED
    BY <2>2, <2>3
<1>5. ASSUME NEW s \in Server, KillServer(s)  PROVE InodesAreApart'
  <2>1. /\ UNCHANGED <<json, tmp, sess>> /\ holds'[s] = Nothing
        /\ \A r \in Server : r # s => holds'[r] = holds[r]
    BY <1>5 DEF KillServer, SessionTypeOK, ServersTyped
  <2> QED
    BY <2>1 DEF InodesAreApart
<1>6. ASSUME NEW n \in Session, Delete(n)  PROVE InodesAreApart'
  <2>1. /\ UNCHANGED <<sess, holds>> /\ json'[n] = Nothing /\ tmp'[n] = Nothing
        /\ \A m \in Session : m # n => json'[m] = json[m] /\ tmp'[m] = tmp[m]
    BY <1>6 DEF Delete, SessionTypeOK, FilesTyped
  <2> QED
    BY <2>1 DEF InodesAreApart
<1>7. ASSUME NEW s \in Server, \/ WriteTemporary(s) \/ TakesPID(s) \/ FindIndex(s) \/ CopyFile(s)
                               \/ FailStart(s) \/ Shutdown(s) \/ Leave(s)
      PROVE  InodesAreApart'
  BY <1>1, <1>7 DEF WriteTemporary, TakesPID, CheckPID, RemovePID, WritePID, FindIndex, CopyFile, FailStart, Shutdown, Leave
<1> QED
  BY <1>1, <1>2, <1>3, <1>4, <1>5, <1>6, <1>7 DEF SessionsNext, TakesPID, sessionVars

-----------------------------------------------------------------------------

LEMMA RoomWasCounted ==
    /\ SessionTypeOK /\ CountedWithRoom /\ WithinLimit /\ [SessionsNext]_sessionVars
    => CountedWithRoom' /\ WithinLimit'
<1> SUFFICES ASSUME SessionTypeOK, CountedWithRoom, WithinLimit, [SessionsNext]_sessionVars
             PROVE  CountedWithRoom' /\ WithinLimit'
  OBVIOUS
<1>1. CountedWithRoom'
  <2>1. CASE UNCHANGED <<step, sess>>
    BY <2>1 DEF CountedWithRoom
  <2>2. ASSUME NEW s \in Server, NEW n \in Session, NEW p \in Project, Open(s, n, p)  PROVE CountedWithRoom'
    <3>1. /\ step'[s] = "create" => HasRoom
          /\ step'[s] \in {"down", "opened", "create"} /\ sess'[s].counted = SessionCount
          /\ \A r \in Server : r # s => step'[r] = step[r] /\ sess'[r] = sess[r]
      BY <2>2 DEF Open, SessionTypeOK, ServersTyped
    <3> QED
      BY <3>1 DEF CountedWithRoom, HasRoom
  <2>3. ASSUME NEW s \in Server, OpenTemporary(s) \/ WriteTemporary(s) \/ Rename(s)  PROVE CountedWithRoom'
    <3>1. /\ step'[s] \in {"create", "fill", "name"} => step[s] \in {"create", "fill", "name"}
          /\ sess' = sess /\ \A r \in Server : r # s => step'[r] = step[r]
      BY <2>3 DEF OpenTemporary, WriteTemporary, Rename, NextStep, SessionTypeOK, ServersTyped
    <3> QED
      BY <3>1 DEF CountedWithRoom
  <2>4. ASSUME NEW s \in Server, \/ TakesPID(s) \/ FindIndex(s) \/ CopyFile(s)
                                 \/ FailStart(s) \/ Shutdown(s) \/ Leave(s) \/ KillServer(s)
        PROVE  CountedWithRoom'
    <3>1. /\ step'[s] \notin {"create", "fill", "name"}
          /\ sess' = sess /\ \A r \in Server : r # s => step'[r] = step[r]
      BY <2>4 DEF TakesPID, CheckPID, RemovePID, WritePID, FindIndex, CopyFile, FailStart, Shutdown, Leave, KillServer, SessionTypeOK, ServersTyped
    <3> QED
      BY <3>1 DEF CountedWithRoom
  <2>5. ASSUME NEW n \in Session, Delete(n)  PROVE CountedWithRoom'
    BY <2>5 DEF Delete, CountedWithRoom
  <2> QED
    BY <2>1, <2>2, <2>3, <2>4, <2>5 DEF SessionsNext, TakesPID, sessionVars
<1>2. WithinLimit'
  <2>1. IsFiniteSet(There) /\ Cardinality(There \ excess) <= MaxSessions /\ IsFiniteSet(There \ excess)
    BY FS_Difference DEF SessionTypeOK, FilesTyped, WithinLimit, There
  <2>2. ASSUME There' \ excess' \subseteq There \ excess  PROVE WithinLimit'
    <3>1. Cardinality(There' \ excess') <= Cardinality(There \ excess)
          /\ Cardinality(There' \ excess') \in Nat /\ Cardinality(There \ excess) \in Nat
      BY <2>1, <2>2, FS_Subset, FS_CardinalityType
    <3>2. Cardinality(There' \ excess') <= MaxSessions
      BY <2>1, <3>1, SessionsAssumption
    <3> QED
      BY <3>2 DEF WithinLimit, There
  <2>3. CASE UNCHANGED <<json, excess>>
    BY <2>2, <2>3 DEF There, Exists
  <2>4. ASSUME NEW s \in Server, Rename(s)  PROVE WithinLimit'
    <3>1. sess[s].name \in Session
      BY <2>4 DEF Rename, SessionTypeOK, ServersTyped
    <3>2. There' \subseteq There \cup {sess[s].name}
      BY <2>4, <3>1 DEF Rename, There, Exists, SessionTypeOK, FilesTyped
    <3>3. excess \subseteq excess'
      BY <2>4 DEF Rename
    <3>4. CASE Exists(sess[s].name)
      <4>1. There' \subseteq There
        BY <3>1, <3>2, <3>4 DEF There
      <4> QED
        BY <2>2, <3>3, <4>1
    <3>5. CASE sess[s].name \in excess'
      BY <2>2, <3>2, <3>3, <3>5
    <3>6. CASE UNCHANGED <<json, excess>>
      BY <2>3, <3>6
    <3>7. CASE ~Exists(sess[s].name) /\ sess[s].name \notin excess' /\ ~UNCHANGED <<json, excess>>
      <4>1. step[s] = "name" /\ ~(SessionCount > sess[s].counted)
        BY <2>4, <3>7 DEF Rename
      <4>2. sess[s].counted \in Nat /\ sess[s].counted < MaxSessions /\ SessionCount \in Nat
        BY <4>1, CountIsNat DEF CountedWithRoom, SessionTypeOK, ServersTyped
      <4>3. Cardinality(There) + 1 <= MaxSessions /\ Cardinality(There) \in Nat
        BY <4>1, <4>2, SessionsAssumption DEF SessionCount, There
      <4>4. /\ IsFiniteSet(There \cup {sess[s].name})
            /\ Cardinality(There \cup {sess[s].name}) \in Nat
            /\ Cardinality(There \cup {sess[s].name}) <= Cardinality(There) + 1
        <5>1. /\ IsFiniteSet(There \cup {sess[s].name})
              /\ Cardinality(There \cup {sess[s].name})
                     = IF sess[s].name \in There THEN Cardinality(There) ELSE Cardinality(There) + 1
          BY <2>1, FS_AddElement
        <5> QED
          BY <4>3, <5>1
      <4>5. There' \ excess' \subseteq There \cup {sess[s].name}
        BY <3>2
      <4>6. Cardinality(There' \ excess') <= Cardinality(There \cup {sess[s].name})
            /\ Cardinality(There' \ excess') \in Nat
        BY <4>4, <4>5, FS_Subset, FS_CardinalityType
      <4>7. Cardinality(There' \ excess') <= MaxSessions
        BY <4>3, <4>4, <4>6, SessionsAssumption
      <4> QED
        BY <4>7 DEF WithinLimit, There
    <3> QED
      BY <3>4, <3>5, <3>6, <3>7
  <2>5. ASSUME NEW n \in Session, Delete(n)  PROVE WithinLimit'
    <3>1. There' \subseteq There \ {n} /\ excess' = excess \ {n}
      BY <2>5 DEF Delete, There, Exists, SessionTypeOK, FilesTyped
    <3> QED
      BY <2>2, <3>1
  <2>6. ASSUME NEW s \in Server, \/ OpenTemporary(s) \/ WriteTemporary(s) \/ TakesPID(s) \/ FindIndex(s) \/ CopyFile(s)
                                 \/ FailStart(s) \/ Shutdown(s) \/ Leave(s) \/ KillServer(s)
        PROVE  WithinLimit'
    BY <2>3, <2>6 DEF OpenTemporary, WriteTemporary, TakesPID, CheckPID, RemovePID, WritePID, FindIndex, CopyFile, FailStart, Shutdown, Leave, KillServer
  <2>7. ASSUME NEW s \in Server, NEW n \in Session, NEW p \in Project, Open(s, n, p)  PROVE WithinLimit'
    BY <2>3, <2>7 DEF Open
  <2> QED
    BY <2>3, <2>4, <2>5, <2>6, <2>7 DEF SessionsNext, TakesPID, sessionVars
<1> QED
  BY <1>1, <1>2

-----------------------------------------------------------------------------

LEMMA SavesStayAlone ==
    ASSUME SessionTypeOK, InodesAreApart, SavesAreAlone, SessionFileIsWhole, [SessionsNext]_sessionVars
    PROVE  SavesAreAlone' /\ SessionFileIsWhole'
<1> DEFINE Alone == SavesAreAlone /\ SessionFileIsWhole
<1>1. ASSUME UNCHANGED <<json, tmp, content, holds, shared>>,
             \A s \in Server : holds[s] # Nothing =>
                sess'[s].name = sess[s].name /\ (step'[s] \in {"name", "rename"} => step[s] \in {"name", "rename"})
      PROVE  Alone'
  BY <1>1 DEF SavesAreAlone, SessionFileIsWhole, Exists, Whole
<1>2. CASE UNCHANGED sessionVars
  BY <1>1, <1>2 DEF sessionVars
<1>3. ASSUME NEW s \in Server, NEW n \in Session, NEW p \in Project, Open(s, n, p)  PROVE Alone'
  <2>1. /\ UNCHANGED <<json, tmp, content, holds, shared>> /\ holds[s] = Nothing
        /\ \A r \in Server : r # s => step'[r] = step[r] /\ sess'[r] = sess[r]
    BY <1>3 DEF Open, SessionTypeOK, ServersTyped, Writing
  <2> QED
    BY <1>1, <2>1
<1>4. ASSUME NEW s \in Server, OpenTemporary(s)  PROVE Alone'
  <2> DEFINE n == sess[s].name
  <2>1. PICK i \in Inode :
              /\ IF tmp[sess[s].name] # Nothing THEN i = tmp[sess[s].name] ELSE i \notin Referred
              /\ tmp' = [tmp EXCEPT ![sess[s].name] = i] /\ holds' = [holds EXCEPT ![s] = i]
              /\ content' = [content EXCEPT ![i] = Nothing]
    BY <1>4, TemporaryIs
  <2>2. UNCHANGED <<json, sess>> /\ holds[s] = Nothing
        /\ shared' = (IF Saving(n) THEN shared \cup {n} ELSE shared)
        /\ step'[s] \in {"fill", "refill"} /\ \A r \in Server : r # s => step'[r] = step[r]
    BY <1>4 DEF OpenTemporary, NextStep, SessionTypeOK, ServersTyped, Writing
  <2>3. /\ i # Nothing /\ n \in Session
        /\ \A m \in Session : json[m] # i /\ (m # n => tmp[m] # i)
        /\ \A r \in Server : holds[r] = i => sess[r].name = n
    BY <1>4, <2>1, TemporaryIsApart
  <2>4. /\ tmp'[n] = i /\ holds'[s] = i
        /\ \A m \in Session : m # n => tmp'[m] = tmp[m]
        /\ \A r \in Server : r # s => holds'[r] = holds[r]
        /\ \A j \in Inode : j # i => content'[j] = content[j]
    BY <2>1, <2>3 DEF SessionTypeOK, FilesTyped, ServersTyped
  <2>5. n \notin shared' => \A r \in Server : holds[r] # Nothing => sess[r].name # n
    BY <2>2 DEF Saving
  <2>6. SavesAreAlone'
    <3> SUFFICES ASSUME NEW r \in Server, holds'[r] # Nothing, sess'[r].name \notin shared'
                 PROVE  /\ \A q \in Server : holds'[q] # Nothing /\ sess'[q].name = sess'[r].name => q = r
                        /\ tmp'[sess'[r].name] \in {Nothing, holds'[r]} /\ json'[sess'[r].name] # holds'[r]
                        /\ step'[r] \in {"name", "rename"} => content'[holds'[r]] # Nothing
      BY DEF SavesAreAlone
    <3>1. CASE r = s
      BY <2>2, <2>3, <2>4, <2>5, <3>1
    <3>2. CASE r # s
      <4>1. holds[r] # Nothing /\ sess[r].name # n /\ sess[r].name \notin shared /\ holds[r] \in Inode
            /\ sess[r].name \in Session
        BY <2>2, <2>4, <2>5, <3>2, SessionsAssumption DEF SessionTypeOK, ServersTyped, Writing
      <4>2. holds[r] # i
        BY <2>3, <4>1
      <4>3. /\ \A q \in Server : holds[q] # Nothing /\ sess[q].name = sess[r].name => q = r
            /\ tmp[sess[r].name] \in {Nothing, holds[r]} /\ json[sess[r].name] # holds[r]
            /\ step[r] \in {"name", "rename"} => content[holds[r]] # Nothing
        BY <4>1 DEF SavesAreAlone
      <4> QED
        BY <2>2, <2>4, <3>2, <4>1, <4>2, <4>3
    <3> QED
      BY <3>1, <3>2
  <2>7. SessionFileIsWhole'
    BY <2>2, <2>3, <2>4 DEF SessionFileIsWhole, Exists, Whole, SessionTypeOK, FilesTyped
  <2> QED
    BY <2>6, <2>7
<1>5. ASSUME NEW s \in Server, WriteTemporary(s)  PROVE Alone'
  <2>1. /\ UNCHANGED <<json, tmp, sess, holds, shared>> /\ holds[s] \in Inode /\ sess[s].project # Nothing
        /\ content' = [content EXCEPT ![holds[s]] = sess[s].project]
        /\ \A r \in Server : r # s => step'[r] = step[r]
    BY <1>5, SessionsAssumption DEF WriteTemporary, NextStep, SessionTypeOK, ServersTyped, Writing
  <2>2. content'[holds[s]] # Nothing /\ \A j \in Inode : content[j] # Nothing => content'[j] # Nothing
    BY <2>1 DEF SessionTypeOK, FilesTyped
  <2>3. SavesAreAlone'
    BY <2>1, <2>2 DEF SavesAreAlone, SessionTypeOK, ServersTyped
  <2>4. SessionFileIsWhole'
    BY <2>1, <2>2 DEF SessionFileIsWhole, Exists, Whole, SessionTypeOK, FilesTyped
  <2> QED
    BY <2>3, <2>4
<1>6. ASSUME NEW s \in Server, Rename(s)  PROVE Alone'
  <2> DEFINE n == sess[s].name
  <2>1. /\ UNCHANGED <<content, sess, shared>> /\ n \in Session /\ holds[s] # Nothing /\ holds'[s] = Nothing
        /\ step[s] \in {"name", "rename"}
        /\ step'[s] \notin {"name", "rename"}
        /\ \A r \in Server : r # s => step'[r] = step[r] /\ holds'[r] = holds[r]
    BY <1>6 DEF Rename, NextStep, SessionTypeOK, ServersTyped, Writing
  <2>2. CASE UNCHANGED <<json, tmp>>
    <3>1. SavesAreAlone'
      BY <2>1, <2>2 DEF SavesAreAlone
    <3>2. SessionFileIsWhole'
      BY <2>1, <2>2 DEF SessionFileIsWhole, Exists, Whole
    <3> QED
      BY <3>1, <3>2
  <2>3. CASE ~UNCHANGED <<json, tmp>>
    <3>1. /\ tmp[n] # Nothing
          /\ json'[n] = tmp[n] /\ tmp'[n] = Nothing
          /\ \A m \in Session : m # n => json'[m] = json[m] /\ tmp'[m] = tmp[m]
      BY <1>6, <2>1, <2>3 DEF Rename, SessionTypeOK, FilesTyped
    <3>2. n \notin shared => /\ tmp[n] = holds[s] /\ content[tmp[n]] # Nothing
                             /\ \A r \in Server : holds[r] # Nothing /\ sess[r].name = n => r = s
      BY <2>1, <3>1 DEF SavesAreAlone
    <3>3. SavesAreAlone'
      <4> SUFFICES ASSUME NEW r \in Server, holds'[r] # Nothing, sess'[r].name \notin shared'
                   PROVE  /\ \A q \in Server : holds'[q] # Nothing /\ sess'[q].name = sess'[r].name => q = r
                          /\ tmp'[sess'[r].name] \in {Nothing, holds'[r]} /\ json'[sess'[r].name] # holds'[r]
                          /\ step'[r] \in {"name", "rename"} => content'[holds'[r]] # Nothing
        BY DEF SavesAreAlone
      <4>1. r # s /\ holds[r] # Nothing /\ sess[r].name \notin shared
        BY <2>1
      <4>2. sess[r].name # n /\ sess[r].name \in Session
        BY <2>1, <3>2, <4>1 DEF SessionTypeOK, ServersTyped, Writing
      <4>3. /\ \A q \in Server : holds[q] # Nothing /\ sess[q].name = sess[r].name => q = r
            /\ tmp[sess[r].name] \in {Nothing, holds[r]} /\ json[sess[r].name] # holds[r]
            /\ step[r] \in {"name", "rename"} => content[holds[r]] # Nothing
        BY <4>1 DEF SavesAreAlone
      <4> QED
        BY <2>1, <3>1, <4>1, <4>2, <4>3
    <3>4. SessionFileIsWhole'
      BY <2>1, <3>1, <3>2 DEF SessionFileIsWhole, Exists, Whole
    <3> QED
      BY <3>3, <3>4
  <2> QED
    BY <2>2, <2>3
<1>7. ASSUME NEW s \in Server, KillServer(s)  PROVE Alone'
  <2>1. /\ UNCHANGED <<json, tmp, content, sess, shared>> /\ holds'[s] = Nothing
        /\ \A r \in Server : r # s => step'[r] = step[r] /\ holds'[r] = holds[r]
    BY <1>7 DEF KillServer, SessionTypeOK, ServersTyped
  <2>2. SavesAreAlone'
    BY <2>1 DEF SavesAreAlone
  <2>3. SessionFileIsWhole'
    BY <2>1 DEF SessionFileIsWhole, Exists, Whole
  <2> QED
    BY <2>2, <2>3
<1>8. ASSUME NEW n \in Session, Delete(n)  PROVE Alone'
  <2>1. /\ UNCHANGED <<content, step, sess, holds>> /\ json'[n] = Nothing /\ tmp'[n] = Nothing
        /\ shared' = (IF Saving(n) THEN shared ELSE shared \ {n})
        /\ \A m \in Session : m # n => json'[m] = json[m] /\ tmp'[m] = tmp[m]
    BY <1>8 DEF Delete, SessionTypeOK, FilesTyped
  <2>2. SavesAreAlone'
    <3> SUFFICES ASSUME NEW r \in Server, holds'[r] # Nothing, sess'[r].name \notin shared'
                 PROVE  /\ \A q \in Server : holds'[q] # Nothing /\ sess'[q].name = sess'[r].name => q = r
                        /\ tmp'[sess'[r].name] \in {Nothing, holds'[r]} /\ json'[sess'[r].name] # holds'[r]
                        /\ step'[r] \in {"name", "rename"} => content'[holds'[r]] # Nothing
      BY DEF SavesAreAlone
    <3>1. holds[r] # Nothing /\ sess[r].name \in Session
      BY <2>1 DEF SessionTypeOK, ServersTyped, Writing
    <3>2. sess[r].name \notin shared
      BY <2>1, <3>1 DEF Saving
    <3> QED
      BY <2>1, <3>1, <3>2 DEF SavesAreAlone
  <2>3. SessionFileIsWhole'
    BY <2>1 DEF SessionFileIsWhole, Exists, Whole
  <2> QED
    BY <2>2, <2>3
<1>9. ASSUME NEW s \in Server, \/ TakesPID(s) \/ FindIndex(s) \/ CopyFile(s)
                               \/ FailStart(s) \/ Shutdown(s) \/ Leave(s)
      PROVE  Alone'
  <2>1. /\ UNCHANGED <<json, tmp, content, sess, holds, shared>>
        /\ step'[s] \notin {"name", "rename"}
        /\ \A r \in Server : r # s => step'[r] = step[r]
    BY <1>9 DEF TakesPID, CheckPID, RemovePID, WritePID, FindIndex, CopyFile, FailStart, Shutdown, Leave, SessionTypeOK, ServersTyped
  <2> QED
    BY <1>1, <2>1
<1> QED
  BY <1>2, <1>3, <1>4, <1>5, <1>6, <1>7, <1>8, <1>9 DEF SessionsNext, TakesPID

-----------------------------------------------------------------------------

LEMMA CopiersStayAlone ==
    ASSUME SessionTypeOK, CopiersAreAlone, [SessionsNext]_sessionVars
    PROVE  CopiersAreAlone'
<1> DEFINE Apart ==
               \A s, r \in Server : /\ step[s] # "down" /\ step[r] # "down"
                                   /\ sess[s].name = sess[r].name /\ sess[s].project # sess[r].project
                                   => s \in bereft
           Own == \A s \in Server : step[s] \in Named /\ sess[s].project \notin raced => pid[sess[s].project] = s
           First == \A s, r \in Server : /\ s # r /\ step[s] \in Between /\ step[r] \in Between \cup Named
                                         /\ sess[s].project = sess[r].project
                                         => sess[s].project \in raced
<1>1. CASE UNCHANGED sessionVars
  BY <1>1 DEF sessionVars, CopiersAreAlone
<1>2. ASSUME NEW s \in Server, NEW n \in Session, NEW p \in Project, Open(s, n, p)  PROVE CopiersAreAlone'
  <2>1. /\ pid' = pid /\ raced' = raced /\ step[s] = "down" /\ step'[s] \notin Named \cup Between
        /\ sess'[s].name = n /\ sess'[s].project = p
        /\ \A r \in Server : r # s => step'[r] = step[r] /\ sess'[r] = sess[r]
    BY <1>2 DEF Open, SessionTypeOK, ServersTyped, Named, Between
  <2>2. bereft \ {s} \subseteq bereft' /\ (step'[s] # "down" => step' # step)
    BY <1>2, <2>1 DEF Open
  <2>3. step'[s] # "down" /\ Rivals(s, n, p) # {} => s \in bereft' /\ Rivals(s, n, p) \subseteq bereft'
    BY <1>2, <2>2 DEF Open
  <2>4. ASSUME NEW r \in Server, r # s, step'[s] # "down", step'[r] # "down",
               sess'[s].name = sess'[r].name, sess'[s].project # sess'[r].project
        PROVE  s \in bereft' /\ r \in bereft'
    <3>1. r \in Rivals(s, n, p)
      BY <2>1, <2>4 DEF Rivals
    <3> QED
      BY <2>3, <2>4, <3>1
  <2>5. Own' /\ First'
    BY <2>1 DEF CopiersAreAlone
  <2>6. ASSUME NEW q \in Server, NEW r \in Server, step'[q] # "down", step'[r] # "down",
               sess'[q].name = sess'[r].name, sess'[q].project # sess'[r].project
        PROVE  q \in bereft'
    <3>1. CASE q = s \/ r = s
      BY <2>4, <2>6, <3>1
    <3>2. CASE q # s /\ r # s
      BY <2>1, <2>2, <2>6, <3>2 DEF CopiersAreAlone
    <3> QED
      BY <3>1, <3>2
  <2> QED
    BY <2>5, <2>6 DEF CopiersAreAlone
<1>3. ASSUME NEW s \in Server, \/ OpenTemporary(s) \/ WriteTemporary(s) \/ Rename(s) \/ FindIndex(s) \/ CopyFile(s)
                               \/ FailStart(s) \/ Shutdown(s) \/ KillServer(s)
      PROVE  CopiersAreAlone'
  <2>1. /\ UNCHANGED <<pid, raced, sess, bereft>> /\ step[s] # "down"
        /\ step'[s] \in Named => step[s] \in Named
        /\ step'[s] \notin Between
        /\ \A r \in Server : r # s => step'[r] = step[r]
    BY <1>3 DEF OpenTemporary, WriteTemporary, Rename, FindIndex, CopyFile, FailStart, Shutdown, KillServer,
                NextStep, SessionTypeOK, ServersTyped, Named, Between
  <2> QED
    BY <2>1 DEF CopiersAreAlone, Named
\* A step of the taking: what it says of rivals is as before.
<1>4. ASSUME NEW s \in Server, TakesPID(s)
      PROVE  /\ UNCHANGED <<sess, bereft>> /\ sess[s].project \in Project /\ raced \subseteq raced'
             /\ \A r \in Server : r # s => step'[r] = step[r]
             /\ Apart'
  <2>1. /\ UNCHANGED <<sess, bereft>> /\ step[s] # "down" /\ raced \subseteq raced'
        /\ \A r \in Server : r # s => step'[r] = step[r]
    BY <1>4 DEF TakesPID, CheckPID, RemovePID, WritePID, SessionTypeOK, ServersTyped
  <2>2. sess[s].project \in Project
    BY <2>1 DEF SessionTypeOK, ServersTyped
  <2>3. Apart'
    BY <2>1 DEF CopiersAreAlone
  <2> QED
    BY <2>1, <2>2, <2>3
<1>5. ASSUME NEW s \in Server, CheckPID(s)  PROVE CopiersAreAlone'
  <2> DEFINE p == sess[s].project
  <2>1. UNCHANGED pid /\ step[s] = "opened" /\ step'[s] \in {"down", "unlink"}
    BY <1>5 DEF CheckPID, SessionTypeOK, ServersTyped
  <2>2. Own'
    BY <1>4, <1>5, <2>1 DEF CopiersAreAlone, Named, TakesPID
  <2>3. ASSUME NEW r \in Server, r # s, step'[s] \in Between, step[r] \in Between \cup Named, sess[r].project = p
        PROVE  p \in raced'
    <3>1. /\ ~(pid[p] # Nothing /\ pid[p] # s /\ step[pid[p]] # "down")
          /\ raced' = IF Taking(p) # {} THEN raced \cup {p} ELSE raced
      BY <1>5, <2>1, <2>3 DEF CheckPID, Between, SessionTypeOK, ServersTyped
    <3>2. CASE step[r] \in Between
      <4>1. r \in Taking(p)
        BY <2>3, <3>2 DEF Taking, Between
      <4> QED
        BY <3>1, <4>1
    <3>3. CASE step[r] \in Named
      <4>1. pid[p] # r
        BY <2>3, <3>1, <3>3, SessionsAssumption DEF Named
      <4> QED
        BY <1>4, <1>5, <2>3, <3>3, <4>1 DEF CopiersAreAlone, TakesPID
    <3> QED
      BY <2>3, <3>2, <3>3
  <2>4. First'
    <3> SUFFICES ASSUME NEW q \in Server, NEW r \in Server, q # r, step'[q] \in Between,
                        step'[r] \in Between \cup Named, sess[q].project = sess[r].project
                 PROVE  sess[q].project \in raced'
      BY <1>4, <1>5 DEF TakesPID
    <3>1. CASE q = s
      BY <1>4, <1>5, <2>3, <3>1 DEF TakesPID
    <3>2. CASE r = s
      <4>1. step'[s] \in Between /\ step[q] \in Between
        BY <1>4, <1>5, <2>1, <3>2 DEF TakesPID, Named, Between
      <4> QED
        BY <2>3, <3>2, <4>1
    <3>3. CASE q # s /\ r # s
      BY <1>4, <1>5, <3>3 DEF TakesPID, CopiersAreAlone
    <3> QED
      BY <3>1, <3>2, <3>3
  <2> QED
    BY <1>4, <1>5, <2>2, <2>4 DEF TakesPID, CopiersAreAlone
<1>6. ASSUME NEW s \in Server, RemovePID(s) \/ WritePID(s)  PROVE CopiersAreAlone'
  <2> DEFINE p == sess[s].project
  <2>1. /\ raced' = raced /\ step[s] \in Between /\ step'[s] \in {"claim", "stat", "down"}
        /\ step'[s] \in Named => pid'[p] = s
        /\ \A o \in Project : o # p => pid'[o] = pid[o]
    BY <1>6 DEF RemovePID, WritePID, Between, Named, SessionTypeOK, ServersTyped, FilesTyped
  <2>2. First'
    <3> SUFFICES ASSUME NEW q \in Server, NEW r \in Server, q # r, step'[q] \in Between,
                        step'[r] \in Between \cup Named, sess[q].project = sess[r].project
                 PROVE  sess[q].project \in raced
      BY <1>4, <1>6, <2>1 DEF TakesPID
    <3>1. step[q] \in Between /\ step[r] \in Between \cup Named
      BY <1>4, <1>6, <2>1 DEF TakesPID, Named, Between
    <3> QED
      BY <3>1 DEF CopiersAreAlone
  <2>3. ASSUME NEW q \in Server, step'[q] \in Named, sess[q].project \notin raced
        PROVE  pid'[sess[q].project] = q
    <3>1. CASE q = s
      BY <2>1, <2>3, <3>1
    <3>2. CASE q # s
      <4>1. step[q] \in Named
        BY <1>4, <1>6, <2>3, <3>2 DEF TakesPID
      <4>2. sess[q].project # p /\ sess[q].project \in Project
        BY <2>1, <2>3, <3>2, <4>1 DEF CopiersAreAlone, SessionTypeOK, ServersTyped, Named
      <4> QED
        BY <2>1, <2>3, <4>1, <4>2 DEF CopiersAreAlone
    <3> QED
      BY <3>1, <3>2
  <2> QED
    BY <1>4, <1>6, <2>1, <2>2, <2>3 DEF TakesPID, CopiersAreAlone
<1>7. ASSUME NEW s \in Server, Leave(s)  PROVE CopiersAreAlone'
  <2>1. /\ UNCHANGED <<sess, bereft, raced>> /\ step[s] = "leave" /\ step'[s] = "down" /\ sess[s].project \in Project
        /\ \A r \in Server : r # s => step'[r] = step[r]
        /\ \A o \in Project : o # sess[s].project => pid'[o] = pid[o]
    BY <1>7 DEF Leave, SessionTypeOK, FilesTyped, ServersTyped
  <2>2. sess[s].project \notin raced => pid[sess[s].project] = s
    BY <2>1 DEF CopiersAreAlone, Named
  <2>3. ASSUME NEW q \in Server, step'[q] \in Named, sess[q].project \notin raced
        PROVE  pid'[sess'[q].project] = q
    <3>1. q # s /\ step[q] \in Named
      BY <2>1, <2>3 DEF Named
    <3>2. pid[sess[q].project] = q /\ sess[q].project \in Project
      BY <2>3, <3>1 DEF CopiersAreAlone, SessionTypeOK, ServersTyped, Named
    <3> QED
      BY <2>1, <2>2, <2>3, <3>1, <3>2
  <2>4. First' /\ Apart'
    BY <2>1 DEF CopiersAreAlone, Named, Between
  <2> QED
    BY <2>1, <2>3, <2>4 DEF CopiersAreAlone
<1>8. ASSUME NEW n \in Session, Delete(n)  PROVE CopiersAreAlone'
  <2>1. UNCHANGED <<pid, raced, sess, step>> /\ bereft \subseteq bereft'
    BY <1>8 DEF Delete
  <2> QED
    BY <2>1 DEF CopiersAreAlone
<1> QED
  BY <1>1, <1>2, <1>3, <1>5, <1>6, <1>7, <1>8 DEF SessionsNext, TakesPID

\* Whoever copies into the directory of a session is the only server to serve it,
\* or the other is bereft.
LEMMA CopierIsAlone ==
    ASSUME SessionTypeOK, CopiersAreAlone, NEW s \in Server, NEW r \in Server, r # s,
           step[s] \in Named, step[r] \in Named, sess[s].name = sess[r].name, sess[r].project \notin raced
    PROVE  r \in bereft
<1>1. sess[s].project # sess[r].project
  BY DEF CopiersAreAlone
<1>2. step[s] # "down" /\ step[r] # "down"
  BY DEF Named
<1> QED
  BY <1>1, <1>2 DEF CopiersAreAlone

LEMMA CopiesGoOn ==
    ASSUME SessionTypeOK, CopiersAreAlone, CopyIsAsFar, CopierServesAll, [SessionsNext]_sessionVars
    PROVE  CopyIsAsFar' /\ CopierServesAll'
<1> DEFINE Copies == CopyIsAsFar /\ CopierServesAll
           Early == {"create", "fill", "name", "opened", "unlink", "claim", "stat"}
           F1(s) == files[sess[s].name]["metadata.db"]
           F2(s) == files[sess[s].name]["vectors.hnsw"]
\* What the invariant says of one server.
           Far(s) ==
               /\ step[s] \in Early => copied[s] = 0
               /\ step[s] = "copy" /\ s \notin bereft /\ sess[s].project \notin raced =>
                      /\ copied[s] = 1 => F1(s) = "partial"
                      /\ copied[s] \in 2..4 => F1(s) = "whole"
                      /\ copied[s] = 3 => F2(s) = "partial"
                      /\ copied[s] = 4 => F2(s) = "whole"
               /\ step[s] = "serve" /\ copied[s] > 0 /\ s \notin bereft /\ sess[s].project \notin raced =>
                      F1(s) = "whole" /\ F2(s) = "whole"
<1>1. \A s \in Server : Far(s)
  BY TwoFiles DEF CopyIsAsFar, CopierServesAll
<1>2. ASSUME \A s \in Server : Far(s)'  PROVE Copies'
  <2>1. CopyIsAsFar'
    BY <1>2 DEF CopyIsAsFar
  <2>2. CopierServesAll'
    BY <1>2, TwoFiles DEF CopierServesAll
  <2> QED
    BY <2>1, <2>2
<1>3. ASSUME NEW s \in Server, step'[s] = step[s], sess'[s] = sess[s], copied'[s] = copied[s],
             files'[sess[s].name] = files[sess[s].name], s \in bereft => s \in bereft', raced \subseteq raced'
      PROVE  Far(s)'
  BY <1>1, <1>3
<1> SUFFICES \A s \in Server : Far(s)'
  BY <1>2
<1>4. CASE UNCHANGED sessionVars
  BY <1>3, <1>4 DEF sessionVars
<1>5. ASSUME NEW s \in Server, NEW n \in Session, NEW p \in Project, Open(s, n, p)  PROVE \A r \in Server : Far(r)'
  <2>1. /\ files' = files /\ copied'[s] = 0 /\ step'[s] \in {"down", "opened", "create"} /\ bereft \ {s} \subseteq bereft'
        /\ raced' = raced
        /\ \A r \in Server : r # s => step'[r] = step[r] /\ sess'[r] = sess[r] /\ copied'[r] = copied[r]
    BY <1>5 DEF Open, SessionTypeOK, ServersTyped
  <2>2. Far(s)'
    BY <2>1
  <2> QED
    BY <1>3, <2>1, <2>2
<1>6. ASSUME NEW s \in Server, \/ OpenTemporary(s) \/ WriteTemporary(s) \/ Rename(s) \/ TakesPID(s)
                               \/ FailStart(s) \/ Shutdown(s) \/ Leave(s) \/ KillServer(s)
      PROVE  \A r \in Server : Far(r)'
  <2>1. /\ UNCHANGED <<files, copied, sess, bereft>> /\ raced \subseteq raced'
        /\ step'[s] \in Early => step[s] \in Early
        /\ step'[s] # "copy" /\ step'[s] # "serve"
        /\ \A r \in Server : r # s => step'[r] = step[r]
    BY <1>6 DEF OpenTemporary, WriteTemporary, Rename, TakesPID, CheckPID, RemovePID, WritePID, FailStart, Shutdown, Leave, KillServer,
                NextStep, SessionTypeOK, ServersTyped
  <2>2. Far(s)'
    BY <1>1, <2>1
  <2> QED
    BY <1>3, <2>1, <2>2
<1>7. ASSUME NEW s \in Server, FindIndex(s)  PROVE \A r \in Server : Far(r)'
  <2>1. /\ UNCHANGED <<files, copied, sess, bereft, raced>>
        /\ step[s] = "stat" /\ step'[s] \in {"serve", "copy", "leave"}
        /\ \A r \in Server : r # s => step'[r] = step[r]
    BY <1>7 DEF FindIndex, SessionTypeOK, ServersTyped
  <2>2. copied[s] = 0
    BY <1>1, <2>1
  <2>3. Far(s)'
    BY <2>1, <2>2
  <2> QED
    BY <1>3, <2>1, <2>3
<1>8. ASSUME NEW s \in Server, CopyFile(s)  PROVE \A r \in Server : Far(r)'
  <2> DEFINE n == sess[s].name
  <2>1. /\ UNCHANGED <<sess, bereft, raced>> /\ step[s] = "copy" /\ n \in Session /\ copied[s] \in 0..4
        /\ \A r \in Server : r # s => step'[r] = step[r] /\ copied'[r] = copied[r]
        /\ \A m \in Session : m # n => files'[m] = files[m]
    BY <1>8 DEF CopyFile, SessionTypeOK, FilesTyped, ServersTyped
  <2>2. ASSUME NEW r \in Server, r # s  PROVE Far(r)'
    <3>1. CASE sess[r].name # n /\ sess[r].name \in Session
      BY <1>3, <2>1, <2>2, <3>1
    <3>2. CASE step[r] \in Named /\ sess[r].name = n
      <4>1. step[s] \in Named
        BY <2>1 DEF Named
      <4>2. r \in bereft \/ sess[r].project \in raced
        BY <2>2, <3>2, <4>1, CopierIsAlone
      <4> QED
        BY <1>1, <2>1, <2>2, <4>2
    <3>3. CASE step[r] \notin Named
      <4>1. step[r] # "copy" /\ step[r] # "serve"
        BY <3>3 DEF Named
      <4> QED
        BY <1>1, <2>1, <2>2, <4>1
    <3>4. step[r] \in Named => sess[r].name \in Session
      BY DEF SessionTypeOK, ServersTyped, Named
    <3> QED
      BY <3>1, <3>2, <3>3, <3>4
  <2>3. Far(s)'
    <3>1. CASE copied[s] = 4
      <4>1. step'[s] = "serve" /\ UNCHANGED <<files, copied>>
        BY <1>8, <2>1, <3>1, TwoFiles DEF CopyFile, SessionTypeOK, ServersTyped
      <4> QED
        BY <1>1, <2>1, <3>1, <4>1
    <3>2. CASE step'[s] = "leave"
      BY <3>2
    <3>3. CASE copied[s] # 4 /\ step'[s] # "leave"
      <4>1. /\ files' = [files EXCEPT ![n][IndexFiles[(copied[s] \div 2) + 1]] =
                             IF copied[s] % 2 = 0 THEN "partial" ELSE IF @ = "partial" THEN "whole" ELSE @]
            /\ copied' = [copied EXCEPT ![s] = @ + 1] /\ step' = step
        BY <1>8, <3>3, TwoFiles DEF CopyFile, SessionTypeOK, ServersTyped
      <4>2. copied'[s] = copied[s] + 1 /\ step'[s] = "copy"
        BY <2>1, <4>1 DEF SessionTypeOK, ServersTyped
      <4>3. CASE copied[s] = 0
        <5>1. (copied[s] \div 2) + 1 = 1 /\ copied[s] % 2 = 0
          BY <4>3
        <5>2. files' = [files EXCEPT ![n]["metadata.db"] = "partial"]
          BY <4>1, <5>1, TwoFiles
        <5>3. F1(s)' = "partial"
          BY <2>1, <5>2, TwoFiles DEF SessionTypeOK, FilesTyped
        <5> QED
          BY <4>2, <4>3, <5>3
      <4>4. CASE copied[s] = 1
        <5>1. (copied[s] \div 2) + 1 = 1 /\ copied[s] % 2 # 0
          BY <4>4
        <5>2. files' = [files EXCEPT ![n]["metadata.db"] = IF @ = "partial" THEN "whole" ELSE @]
          BY <4>1, <5>1, TwoFiles
        <5>3. F1(s) = "partial" => F1(s)' = "whole"
          BY <2>1, <5>2, TwoFiles DEF SessionTypeOK, FilesTyped
        <5> QED
          BY <1>1, <2>1, <4>2, <4>4, <5>3
      <4>5. CASE copied[s] = 2
        <5>1. (copied[s] \div 2) + 1 = 2 /\ copied[s] % 2 = 0
          BY <4>5
        <5>2. files' = [files EXCEPT ![n]["vectors.hnsw"] = "partial"]
          BY <4>1, <5>1, TwoFiles
        <5>3. F2(s)' = "partial" /\ F1(s)' = F1(s)
          BY <2>1, <5>2, TwoFiles DEF SessionTypeOK, FilesTyped
        <5> QED
          BY <1>1, <2>1, <4>2, <4>5, <5>3
      <4>6. CASE copied[s] = 3
        <5>1. (copied[s] \div 2) + 1 = 2 /\ copied[s] % 2 # 0
          BY <4>6
        <5>2. files' = [files EXCEPT ![n]["vectors.hnsw"] = IF @ = "partial" THEN "whole" ELSE @]
          BY <4>1, <5>1, TwoFiles
        <5>3. (F2(s) = "partial" => F2(s)' = "whole") /\ F1(s)' = F1(s)
          BY <2>1, <5>2, TwoFiles DEF SessionTypeOK, FilesTyped
        <5> QED
          BY <1>1, <2>1, <4>2, <4>6, <5>3
      <4> QED
        BY <2>1, <3>3, <4>3, <4>4, <4>5, <4>6
    <3> QED
      BY <3>1, <3>2, <3>3
  <2> QED
    BY <2>2, <2>3
<1>9. ASSUME NEW n \in Session, Delete(n)  PROVE \A r \in Server : Far(r)'
  <2>1. /\ UNCHANGED <<step, sess, copied, raced>> /\ bereft' = bereft \cup {s \in Server : sess[s].name = n}
        /\ \A m \in Session : m # n => files'[m] = files[m]
    BY <1>9 DEF Delete, SessionTypeOK, FilesTyped
  <2>2. ASSUME NEW r \in Server  PROVE Far(r)'
    <3>1. CASE sess[r].name = n
      BY <1>1, <2>1, <3>1
    <3>2. CASE sess[r].name # n /\ sess[r].name \in Session
      BY <1>3, <2>1, <3>2
    <3>3. CASE step[r] = "down"
      BY <2>1, <3>3
    <3> QED
      BY <3>1, <3>2, <3>3 DEF SessionTypeOK, ServersTyped
  <2> QED
    BY <2>2
<1> QED
  BY <1>4, <1>5, <1>6, <1>7, <1>8, <1>9 DEF SessionsNext, TakesPID

-----------------------------------------------------------------------------

LEMMA SessionsStep == SessionsInv /\ [SessionsNext]_sessionVars => SessionsInv'
<1> SUFFICES ASSUME SessionsInv, [SessionsNext]_sessionVars  PROVE SessionsInv'
  OBVIOUS
<1>1. /\ SessionTypeOK /\ InodesAreApart /\ SavesAreAlone /\ CopiersAreAlone /\ CopyIsAsFar /\ CountedWithRoom
      /\ SessionFileIsWhole /\ CopierServesAll /\ WithinLimit
  BY DEF SessionsInv, SessionsAreWhole
<1>2. SessionTypeOK'
  BY <1>1, SessionsTyped
<1>3. InodesAreApart'
  BY <1>1, InodesStayApart
<1>4. SavesAreAlone' /\ SessionFileIsWhole'
  BY <1>1, SavesStayAlone
<1>5. CopiersAreAlone'
  BY <1>1, CopiersStayAlone
<1>6. CopyIsAsFar' /\ CopierServesAll'
  BY <1>1, CopiesGoOn
<1>7. CountedWithRoom' /\ WithinLimit'
  BY <1>1, RoomWasCounted
<1> QED
  BY <1>2, <1>3, <1>4, <1>5, <1>6, <1>7 DEF SessionsInv, SessionsAreWhole

\* For any number of servers, sessions and projects: session.json is whole wherever
\* no two saves have met, whoever copied an index serves all of it where no two
\* servers have taken the project's PID file at once, and the limit
\* is passed only by servers that counted at the same time and by a deleted
\* session saved back (internal/session, serve.go:754-973).
THEOREM SessionsStayWhole == SessionsSpec => []SessionsAreWhole
<1>1. SessionsInv => SessionsAreWhole
  BY DEF SessionsInv
<1> QED
  BY SessionsStart, SessionsStep, <1>1, PTL DEF SessionsSpec
-----------------------------------------------------------------------------
(* The log.                                                                *)

Log == Seq(Nat) \cup {NoLog}

\* Of rotated files and a current one: what LogKeepsOrder says of their order.
Ordered(old, now) ==
    LET file(n) == IF n = 0 THEN now ELSE old[n]
    IN  /\ \A n \in 0..MaxFiles : Increasing(file(n))
        /\ \A newer, older \in 0..MaxFiles : newer < older =>
              \A a \in Lines(file(older)), b \in Lines(file(newer)) : a < b

LogTypeOK ==
    /\ current \in Log /\ rotated \in [1..MaxFiles -> Log]
    /\ accepted \in Seq(Nat) /\ lines \in Nat /\ (handle = "open" => current # NoLog)
    /\ \A n \in 0..MaxFiles : \A a \in Lines(FileAt(n)) : a <= lines
    /\ \A a \in Range(accepted) : a <= lines

\* Where nothing fails a file is open and no number is skipped.
NoneSkipped(old) == \A m, n \in 1..MaxFiles : m < n /\ old[n] # NoLog => old[m] # NoLog

LogIsWhole == ~faulty => handle = "open" /\ current # NoLog /\ NoneSkipped(rotated)

\* Of rotated files and a current one: what LogKeepsOrder says of a log on a disk
\* where nothing fails.
NewestKept(old, now, taken) ==
    LET held == UNION {Lines(IF n = 0 THEN now ELSE old[n]) : n \in 0..MaxFiles}
    IN  /\ held \subseteq taken
        /\ \A a \in taken : (\E b \in held : b <= a) => a \in held
        /\ taken \subseteq held \/ \A n \in 1..MaxFiles : old[n] # NoLog

LogInv == LogTypeOK /\ LogIsWhole /\ LogKeepsOrder

LEMMA OrderOfLog == LogKeepsOrder => Ordered(rotated, current)
BY DEF LogKeepsOrder, Ordered, FileAt

\* A file keeps its place or moves up by one, and where two would be in one place the
\* newer one stays.
LEMMA ShiftedFiles ==
    ASSUME LogTypeOK, NEW fails
    PROVE  /\ Shifted(fails) \in [1..MaxFiles -> Log]
           /\ \E from \in [1..MaxFiles -> 0..MaxFiles] :
                 \A n \in 1..MaxFiles : Shifted(fails)[n] # NoLog =>
                     /\ from[n] # 0 /\ Shifted(fails)[n] = rotated[from[n]]
                     /\ \A m \in 1..MaxFiles : m < n /\ Shifted(fails)[m] # NoLog => from[m] < from[n]
<1> USE RotatingLogAssumption
<1> DEFINE comes(n) == n > 1 /\ n - 1 \notin fails /\ rotated[n - 1] /= NoLog
           stays(n) == n < MaxFiles /\ n \in fails /\ rotated[n] /= NoLog
           from == [n \in 1..MaxFiles |-> IF comes(n) THEN n - 1 ELSE n]
           new(n) == IF comes(n) THEN rotated[n - 1] ELSE IF stays(n) THEN rotated[n] ELSE NoLog
<1>1. Shifted(fails) = [n \in 1..MaxFiles |-> new(n)]
  BY DEF Shifted
<1>2. \A n \in 1..MaxFiles : new(n) \in Log /\ from[n] \in 1..MaxFiles
  BY DEF LogTypeOK, Log
<1>3. \A n \in 1..MaxFiles : new(n) # NoLog => new(n) = rotated[from[n]]
  OBVIOUS
<1>4. ASSUME NEW m \in 1..MaxFiles, NEW n \in 1..MaxFiles, m < n, new(m) # NoLog, new(n) # NoLog
      PROVE  from[m] < from[n]
  <2>1. CASE comes(m) \/ ~comes(n)
    BY <1>4, <2>1
  <2>2. CASE ~comes(m) /\ comes(n)
    <3>1. m \in fails /\ n - 1 \notin fails
      BY <1>4, <2>2
    <3>2. m # n - 1
      BY <3>1
    <3>3. QED
      BY <1>4, <2>2, <3>2
  <2>3. QED
    BY <2>1, <2>2
<1>5. from \in [1..MaxFiles -> 0..MaxFiles]
  BY <1>2
<1> HIDE DEF from, new
<1>6. \A n \in 1..MaxFiles : new(n) # NoLog =>
         /\ from[n] # 0 /\ new(n) = rotated[from[n]]
         /\ \A m \in 1..MaxFiles : m < n /\ new(m) # NoLog => from[m] < from[n]
  BY <1>2, <1>3, <1>4
<1> QED
  BY <1>1, <1>2, <1>5, <1>6

LEMMA ShiftedInOrder ==
    ASSUME LogTypeOK, Ordered(rotated, current), NEW fails
    PROVE  /\ Ordered(Shifted(fails), current)
           /\ \A n \in 1..MaxFiles : \A a \in Lines(Shifted(fails)[n]) :
                 \E k \in 1..MaxFiles : a \in Lines(rotated[k])
<1>1. PICK from \in [1..MaxFiles -> 0..MaxFiles] :
         \A n \in 1..MaxFiles : Shifted(fails)[n] # NoLog =>
             /\ from[n] # 0 /\ Shifted(fails)[n] = rotated[from[n]]
             /\ \A m \in 1..MaxFiles : m < n /\ Shifted(fails)[m] # NoLog => from[m] < from[n]
  BY ShiftedFiles
<1> DEFINE new == Shifted(fails)
<1> HIDE DEF new
<1>2. \A n \in 1..MaxFiles : new[n] # NoLog => from[n] \in 1..MaxFiles /\ new[n] = rotated[from[n]]
  BY <1>1, RotatingLogAssumption DEF new
<1>3. \A n \in 1..MaxFiles : Increasing(new[n])
  BY <1>2, RotatingLogAssumption DEF Ordered, Increasing
<1>4. \A m, n \in 1..MaxFiles : m < n => \A a \in Lines(new[n]), b \in Lines(new[m]) : a < b
  <2> SUFFICES ASSUME NEW m \in 1..MaxFiles, NEW n \in 1..MaxFiles, m < n,
                      NEW a \in Lines(new[n]), NEW b \in Lines(new[m])
               PROVE  a < b
    OBVIOUS
  <2>1. new[m] # NoLog /\ new[n] # NoLog
    BY DEF Lines
  <2>2. from[m] < from[n]
    BY <1>1, <2>1 DEF new
  <2>3. a \in Lines(rotated[from[n]]) /\ b \in Lines(rotated[from[m]]) /\ from[m] \in 1..MaxFiles /\ from[n] \in 1..MaxFiles
    BY <1>2, <2>1
  <2>4. QED
    BY <2>2, <2>3, RotatingLogAssumption DEF Ordered
<1>5. \A n \in 1..MaxFiles : \A a \in Lines(new[n]), b \in Lines(current) : a < b
  BY <1>2, RotatingLogAssumption DEF Ordered, Lines
<1>6. Increasing(current)
  BY RotatingLogAssumption DEF Ordered
<1>7. Ordered(new, current)
  BY <1>3, <1>4, <1>5, <1>6, RotatingLogAssumption DEF Ordered
<1>8. \A n \in 1..MaxFiles : \A a \in Lines(new[n]) : \E k \in 1..MaxFiles : a \in Lines(rotated[k])
  BY <1>2 DEF Lines
<1> QED
  BY <1>7, <1>8 DEF new

LEMMA AppendedLines ==
    ASSUME NEW s \in Seq(Nat), NEW x \in Nat
    PROVE  Append(s, x) \in Seq(Nat) /\ Range(Append(s, x)) = Range(s) \cup {x}
<1>1. /\ Append(s, x) \in Seq(Nat) /\ DOMAIN Append(s, x) = 1..(Len(s) + 1) /\ DOMAIN s = 1..Len(s)
      /\ \A i \in 1..Len(s) : Append(s, x)[i] = s[i]
      /\ Append(s, x)[Len(s) + 1] = x /\ Len(s) \in Nat
  OBVIOUS
<1>2. \A i \in DOMAIN Append(s, x) : Append(s, x)[i] \in Range(s) \cup {x}
  BY <1>1 DEF Range
<1>3. \A i \in DOMAIN s : s[i] \in Range(Append(s, x))
  BY <1>1 DEF Range
<1>4. x \in Range(Append(s, x))
  BY <1>1 DEF Range
<1>5. Range(Append(s, x)) \subseteq Range(s) \cup {x}
  BY <1>2 DEF Range
<1>6. Range(s) \cup {x} \subseteq Range(Append(s, x))
  BY <1>3, <1>4 DEF Range
<1> QED
  BY <1>1, <1>5, <1>6

\* A line that is newer than all there are.
LEMMA AppendedInOrder ==
    ASSUME NEW old, NEW now \in Seq(Nat), NEW x \in Nat, Ordered(old, now),
           \A n \in 1..MaxFiles : \A a \in Lines(old[n]) : a < x,
           \A a \in Range(now) : a < x
    PROVE  Ordered(old, Append(now, x))
<1> USE RotatingLogAssumption
<1>1. now # NoLog /\ Append(now, x) # NoLog
  BY AppendedLines
<1>2. Lines(Append(now, x)) = Lines(now) \cup {x}
  BY <1>1, AppendedLines DEF Lines
<1>3. Increasing(Append(now, x))
  <2> SUFFICES ASSUME NEW i \in DOMAIN Append(now, x), NEW j \in DOMAIN Append(now, x), i < j
               PROVE  Append(now, x)[i] < Append(now, x)[j]
    BY DEF Increasing
  <2>1. i \in 1..Len(now) /\ Append(now, x)[i] = now[i]
    OBVIOUS
  <2>2. CASE j = Len(now) + 1
    <3>1. Append(now, x)[j] = x /\ now[i] \in Range(now)
      BY <2>1, <2>2 DEF Range
    <3>2. QED
      BY <2>1, <3>1
  <2>3. CASE j \in 1..Len(now)
    <3>1. Append(now, x)[j] = now[j] /\ Increasing(now)
      BY <2>3 DEF Ordered
    <3>2. now[i] < now[j]
      BY <1>1, <2>1, <2>3, <3>1 DEF Increasing
    <3>3. QED
      BY <2>1, <3>1, <3>2
  <2>4. QED
    BY <2>2, <2>3
<1>4. \A n \in 1..MaxFiles : Increasing(old[n])
  BY DEF Ordered
<1>5. \A m, n \in 1..MaxFiles : m < n => \A a \in Lines(old[n]), b \in Lines(old[m]) : a < b
  BY DEF Ordered
<1>6. \A n \in 1..MaxFiles : \A a \in Lines(old[n]), b \in Lines(Append(now, x)) : a < b
  BY <1>2 DEF Ordered
<1> QED
  BY <1>3, <1>4, <1>5, <1>6 DEF Ordered

\* What a rotation leaves, whatever fails: files in order, with lines there were.
Rotates(after) ==
    /\ after.old \in [1..MaxFiles -> Log] /\ after.now \in Log
    /\ after.file = "open" => after.now # NoLog
    /\ Ordered(after.old, after.now)
    /\ \A n \in 1..MaxFiles : \A a \in Lines(after.old[n]) : a <= lines
    /\ \A a \in Lines(after.now) : a <= lines

\* The empty file a rotation opens.
LEMMA EmptyFile == <<>> \in Seq(Nat) /\ <<>> # NoLog /\ Range(<<>>) = {} /\ Lines(<<>>) = {} /\ Increasing(<<>>)
<1>1. <<>> \in Seq(Nat) /\ DOMAIN <<>> = {}
  OBVIOUS
<1>2. <<>> # NoLog
  BY <1>1, RotatingLogAssumption
<1>3. Range(<<>>) = {}
  BY <1>1 DEF Range
<1>4. Increasing(<<>>)
  BY <1>1 DEF Increasing
<1> QED
  BY <1>1, <1>2, <1>3, <1>4 DEF Lines

LEMMA EmptyIsLast ==
    ASSUME NEW old, NEW now, Ordered(old, now), NEW empty \in {<<>>, NoLog}
    PROVE  Ordered(old, empty) /\ Lines(empty) = {} /\ empty \in Log
<1> USE RotatingLogAssumption
<1>1. Lines(empty) = {} /\ Increasing(empty)
  BY EmptyFile DEF Lines, Increasing
<1>2. <<>> \in Seq(Nat)
  BY EmptyFile
<1>3. \A n \in 1..MaxFiles : Increasing(old[n])
  BY DEF Ordered
<1>4. \A m, n \in 1..MaxFiles : m < n => \A a \in Lines(old[n]), b \in Lines(old[m]) : a < b
  BY DEF Ordered
<1>5. Ordered(old, empty)
  BY <1>1, <1>3, <1>4 DEF Ordered
<1> QED
  BY <1>1, <1>2, <1>5 DEF Log

\* The rotated files once the current one has become the first of them.
LEMMA MovedInOrder ==
    ASSUME LogTypeOK, Ordered(rotated, current), NEW fails
    PROVE  LET moved == [Shifted(fails) EXCEPT ![1] = IF current = NoLog THEN @ ELSE current]
           IN  /\ moved \in [1..MaxFiles -> Log] /\ Ordered(moved, <<>>)
               /\ \A n \in 1..MaxFiles : \A a \in Lines(moved[n]) : a <= lines
<1> USE RotatingLogAssumption
<1> DEFINE shifted == Shifted(fails)
           moved == [shifted EXCEPT ![1] = IF current = NoLog THEN @ ELSE current]
<1>1. shifted \in [1..MaxFiles -> Log] /\ Ordered(shifted, current)
  BY ShiftedFiles, ShiftedInOrder
<1>2. \A n \in 1..MaxFiles : \A a \in Lines(shifted[n]) : a <= lines
  <2>1. \A k \in 1..MaxFiles : \A a \in Lines(rotated[k]) : a <= lines
    BY DEF LogTypeOK, FileAt
  <2> QED
    BY <2>1, ShiftedInOrder
<1> HIDE DEF shifted
<1>3. moved \in [1..MaxFiles -> Log] /\ moved[1] = (IF current = NoLog THEN shifted[1] ELSE current)
      /\ \A n \in 2..MaxFiles : moved[n] = shifted[n]
  BY <1>1 DEF LogTypeOK
<1> HIDE DEF moved
<1>4. \A n \in 1..MaxFiles : Increasing(moved[n])
  BY <1>1, <1>3 DEF Ordered
<1>5. \A m, n \in 1..MaxFiles : m < n => \A a \in Lines(moved[n]), b \in Lines(moved[m]) : a < b
  BY <1>1, <1>3 DEF Ordered
<1>6. Lines(<<>>) = {} /\ Increasing(<<>>)
  BY EmptyFile
<1>7. Ordered(moved, <<>>)
  BY <1>4, <1>5, <1>6 DEF Ordered
<1>8. \A n \in 1..MaxFiles : \A a \in Lines(moved[n]) : a <= lines
  BY <1>2, <1>3 DEF LogTypeOK, FileAt
<1> QED
  BY <1>3, <1>7, <1>8 DEF moved, shifted

LEMMA RotationsInOrder ==
    ASSUME LogInv, NEW after \in Rotations \cup {Rotation(rotated, current, size, handle, written)}
    PROVE  Rotates(after)
<1> USE RotatingLogAssumption
<1>1. LogTypeOK /\ Ordered(rotated, current)
  BY OrderOfLog DEF LogInv
<1>2. \A n \in 1..MaxFiles : \A a \in Lines(rotated[n]) : a <= lines
  BY <1>1 DEF LogTypeOK, FileAt
<1>3. \A a \in Lines(current) : a <= lines
  BY <1>1 DEF LogTypeOK, FileAt
<1>4. CASE /\ after.old = rotated /\ after.now = current
           /\ after.file # "open" \/ after.file = handle
  BY <1>1, <1>2, <1>3, <1>4 DEF Rotates, LogTypeOK
<1>5. ASSUME NEW fails, after.old = Shifted(fails), after.now = current, after.file # "open"
      PROVE  Rotates(after)
  <2>1. \A n \in 1..MaxFiles : \A a \in Lines(Shifted(fails)[n]) : a <= lines
    BY <1>1, <1>2, ShiftedInOrder
  <2> QED
    BY <1>1, <1>3, <1>5, <2>1, ShiftedFiles, ShiftedInOrder DEF Rotates, LogTypeOK
<1>6. ASSUME NEW fails, after.old = [Shifted(fails) EXCEPT ![1] = IF current = NoLog THEN @ ELSE current],
             after.now \in {<<>>, NoLog}, after.file = "open" => after.now = <<>>
      PROVE  Rotates(after)
  <2>1. /\ after.old \in [1..MaxFiles -> Log] /\ Ordered(after.old, <<>>)
        /\ \A n \in 1..MaxFiles : \A a \in Lines(after.old[n]) : a <= lines
    BY <1>1, <1>6, MovedInOrder
  <2>2. Ordered(after.old, after.now) /\ Lines(after.now) = {} /\ after.now \in Log
    BY <1>6, <2>1, EmptyIsLast
  <2>3. <<>> # NoLog
    BY EmptyFile
  <2> QED
    BY <1>6, <2>1, <2>2, <2>3 DEF Rotates
<1>7. \/ after = Rotation(rotated, current, size, handle, written)
      \/ after = Unrotated("closed")
      \/ \E fails \in SUBSET (1..MaxFiles) :
            LET moved == [Shifted(fails) EXCEPT ![1] = IF current = NoLog THEN @ ELSE current]
            IN  \/ after = Rotation(moved, <<>>, 0, "open", 0)
                \/ after = Rotation(moved, NoLog, 0, "nil", 0)
                \/ after = [Unrotated("nil") EXCEPT !.old = Shifted(fails)]
  BY DEF Rotations, Rotated
<1> QED
  BY <1>4, <1>5, <1>6, <1>7 DEF Rotation, Unrotated

\* Where nothing fails.
LEMMA RotatesWhole ==
    ASSUME LogInv, ~faulty, NEW after \in Rotations \cup {Rotation(rotated, current, size, handle, written)}
    PROVE  /\ after.file = "open" /\ after.now # NoLog
           /\ NoneSkipped(after.old) /\ NewestKept(after.old, after.now, Range(accepted))
<1> USE RotatingLogAssumption
<1>1. /\ LogTypeOK /\ handle = "open" /\ current # NoLog /\ NoneSkipped(rotated)
      /\ NewestKept(rotated, current, Range(accepted)) /\ Ordered(rotated, current)
  BY OrderOfLog DEF LogInv, LogIsWhole, LogKeepsOrder, NewestKept, Kept, FileAt
<1>2. CASE after = Rotation(rotated, current, size, handle, written)
  BY <1>1, <1>2 DEF Rotation
<1>3. CASE after \in Rotations
  <2> DEFINE moved == [Shifted({}) EXCEPT ![1] = IF current = NoLog THEN @ ELSE current]
             held == UNION {Lines(IF n = 0 THEN current ELSE rotated[n]) : n \in 0..MaxFiles}
             left == UNION {Lines(IF n = 0 THEN <<>> ELSE moved[n]) : n \in 0..MaxFiles}
  <2>1. after = Rotation(moved, <<>>, 0, "open", 0)
    BY <1>1, <1>3 DEF Rotations, Rotated
  <2>2. \A n \in 1..MaxFiles : moved[n] = IF n = 1 THEN current ELSE rotated[n - 1]
    BY <1>1 DEF Shifted, LogTypeOK
  <2>3. <<>> # NoLog /\ Lines(<<>>) = {}
    BY EmptyFile
  <2>4. \A a \in left : \E n \in 0..(MaxFiles - 1) : a \in Lines(IF n = 0 THEN current ELSE rotated[n])
    <3> SUFFICES ASSUME NEW n \in 1..MaxFiles, NEW a \in Lines(moved[n])
                 PROVE  \E k \in 0..(MaxFiles - 1) : a \in Lines(IF k = 0 THEN current ELSE rotated[k])
      BY <2>3
    <3>1. a \in Lines(IF n - 1 = 0 THEN current ELSE rotated[n - 1]) /\ n - 1 \in 0..(MaxFiles - 1)
      BY <2>2
    <3> QED
      BY <3>1
  <2>5. \A n \in 0..(MaxFiles - 1) : Lines(IF n = 0 THEN current ELSE rotated[n]) \subseteq left
    <3> SUFFICES ASSUME NEW n \in 0..(MaxFiles - 1)
                 PROVE  Lines(IF n = 0 THEN current ELSE rotated[n]) \subseteq left
      OBVIOUS
    <3>1. n + 1 \in 1..MaxFiles /\ moved[n + 1] = IF n = 0 THEN current ELSE rotated[n]
      BY <2>2
    <3> QED
      BY <3>1
  <2> HIDE DEF moved
  <2>6. NoneSkipped(moved)
    <3> SUFFICES ASSUME NEW m \in 1..MaxFiles, NEW n \in 1..MaxFiles, m < n, moved[n] # NoLog
                 PROVE  moved[m] # NoLog
      BY DEF NoneSkipped
    <3>1. n - 1 \in 1..MaxFiles /\ rotated[n - 1] # NoLog
      BY <2>2
    <3>2. CASE m = 1
      BY <1>1, <2>2, <3>2
    <3>3. CASE m # 1
      <4>1. m - 1 \in 1..MaxFiles /\ m - 1 < n - 1
        BY <3>3
      <4>2. rotated[m - 1] # NoLog
        BY <1>1, <3>1, <4>1 DEF NoneSkipped
      <4> QED
        BY <2>2, <3>3, <4>2
    <3> QED
      BY <3>2, <3>3
  <2>7. \A a \in left : a \in held
    BY <2>4
  <2>8. ASSUME NEW a \in held, a \notin left  PROVE a \in Lines(rotated[MaxFiles])
    BY <2>5, <2>8
  <2> HIDE DEF left
  <2>9. held \subseteq Range(accepted)
    BY <1>1 DEF NewestKept
  <2>10. ASSUME NEW a \in Range(accepted), NEW b \in left, b <= a  PROVE a \in left
    <3>1. a \in held
      BY <1>1, <2>7, <2>10 DEF NewestKept
    <3>2. SUFFICES ASSUME a \in Lines(rotated[MaxFiles])  PROVE FALSE
      BY <2>8, <3>1
    <3>3. PICK n \in 0..(MaxFiles - 1) : b \in Lines(IF n = 0 THEN current ELSE rotated[n])
      BY <2>4
    <3>4. a < b
      BY <1>1, <3>2, <3>3 DEF Ordered
    <3>5. a \in Nat /\ b \in Nat
      <4>1. Range(accepted) \subseteq Nat
        BY <1>1 DEF LogTypeOK, Range
      <4> QED
        BY <2>7, <2>9, <4>1
    <3> QED
      BY <2>10, <3>4, <3>5
  <2>11. Range(accepted) \subseteq left \/ \A n \in 1..MaxFiles : moved[n] # NoLog
    <3>1. CASE rotated[MaxFiles] # NoLog
      BY <1>1, <2>2, <3>1 DEF NoneSkipped
    <3>2. CASE rotated[MaxFiles] = NoLog
      <4>1. Range(accepted) \subseteq held
        BY <1>1, <3>2 DEF NewestKept
      <4>2. Lines(rotated[MaxFiles]) = {}
        BY <3>2 DEF Lines
      <4> QED
        BY <2>8, <4>1, <4>2
    <3> QED
      BY <3>1, <3>2
  <2>12. NewestKept(moved, <<>>, Range(accepted))
    BY <2>7, <2>9, <2>10, <2>11 DEF NewestKept, left
  <2> QED
    BY <2>1, <2>3, <2>6, <2>12 DEF Rotation
<1> QED
  BY <1>2, <1>3

\* A line written after a rotation in which nothing failed.
LEMMA AppendedNewest ==
    ASSUME NEW old, NEW now \in Seq(Nat), NEW taken \in SUBSET Nat, NEW x \in Nat, NewestKept(old, now, taken),
           \A a \in taken : a < x
    PROVE  NewestKept(old, Append(now, x), taken \cup {x})
<1> USE RotatingLogAssumption
<1> DEFINE held == UNION {Lines(IF n = 0 THEN now ELSE old[n]) : n \in 0..MaxFiles}
           more == UNION {Lines(IF n = 0 THEN Append(now, x) ELSE old[n]) : n \in 0..MaxFiles}
<1>1. now # NoLog /\ Append(now, x) # NoLog
  BY AppendedLines
<1>2. Lines(Append(now, x)) = Lines(now) \cup {x}
  BY <1>1, AppendedLines DEF Lines
<1>3. more = held \cup {x}
  <2>1. \A a \in more : a \in held \cup {x}
    BY <1>2
  <2>2. x \in more /\ \A a \in held : a \in more
    BY <1>2
  <2> QED
    BY <2>1, <2>2
<1>4. /\ held \subseteq taken
      /\ \A a \in taken : (\E b \in held : b <= a) => a \in held
      /\ taken \subseteq held \/ \A n \in 1..MaxFiles : old[n] # NoLog
  BY DEF NewestKept
<1> HIDE DEF held, more
<1>5. \A a \in taken \cup {x} : (\E b \in more : b <= a) => a \in more
  BY <1>3, <1>4
<1> QED
  BY <1>3, <1>4, <1>5 DEF NewestKept, more

LEMMA LogStart == LogInit => LogInv
<1> SUFFICES ASSUME LogInit  PROVE LogInv
  OBVIOUS
<1> USE RotatingLogAssumption DEF LogInit
<1>1. <<>> \in Seq(Nat) /\ Range(<<>>) = {} /\ <<>> # NoLog /\ Lines(<<>>) = {} /\ Increasing(<<>>)
  BY EmptyFile
<1>2. \A n \in 0..MaxFiles : Lines(FileAt(n)) = {} /\ Increasing(FileAt(n))
  <2>1. Lines(NoLog) = {} /\ Increasing(NoLog)
    BY DEF Lines, Increasing
  <2>2. FileAt(0) = <<>> /\ \A n \in 1..MaxFiles : FileAt(n) = NoLog
    BY DEF FileAt
  <2> QED
    BY <1>1, <2>1, <2>2
<1>3. LogTypeOK
  BY <1>1, <1>2 DEF LogTypeOK, Log
<1>4. LogIsWhole
  BY <1>1 DEF LogIsWhole, NoneSkipped
<1>5. LogKeepsOrder
  BY <1>1, <1>2 DEF LogKeepsOrder, Kept
<1> QED
  BY <1>3, <1>4, <1>5 DEF LogInv

\* The files that a step leaves.
LEMMA LogFrom ==
    ASSUME Ordered(rotated', current'), ~faulty' => NewestKept(rotated', current', Range(accepted'))
    PROVE  LogKeepsOrder'
BY DEF LogKeepsOrder, Kept, FileAt, Ordered, NewestKept

LEMMA WriteKeepsLog == LogInv /\ Write => LogInv'
<1> SUFFICES ASSUME LogInv, Write  PROVE LogInv'
  OBVIOUS
<1> USE RotatingLogAssumption
<1> DEFINE x == lines + 1
           unrotated == Rotation(rotated, current, size, handle, written)
<1>1. PICK after \in Rotations \cup {unrotated} :
          /\ rotated' = after.old /\ handle' = after.file
          /\ current' = IF after.file = "open" THEN Append(after.now, x) ELSE after.now
          /\ accepted' = IF after.file = "open" THEN Append(accepted, x) ELSE accepted
  <2>1. PICK bytes \in Sizes :
           \E after \in IF written + bytes > MaxSize THEN Rotations ELSE {unrotated} :
              /\ rotated' = after.old /\ handle' = after.file
              /\ current' = IF after.file = "open" THEN Append(after.now, x) ELSE after.now
              /\ accepted' = IF after.file = "open" THEN Append(accepted, x) ELSE accepted
    BY Zenon DEF Write
  <2> QED
    BY <2>1
<1>2. Rotates(after)
  BY <1>1, RotationsInOrder
<1>3. /\ LogTypeOK /\ x \in Nat /\ lines' = x /\ faulty' = faulty
      /\ accepted \in Seq(Nat) /\ lines \in Nat /\ \A a \in Range(accepted) : a <= lines
  BY DEF LogInv, LogTypeOK, Write
<1>4. ~faulty => /\ after.file = "open" /\ after.now # NoLog
                 /\ NoneSkipped(after.old) /\ NewestKept(after.old, after.now, Range(accepted))
  BY <1>1, RotatesWhole
<1> HIDE DEF x
<1>5. /\ after.old \in [1..MaxFiles -> Log] /\ after.now \in Log /\ Ordered(after.old, after.now)
      /\ \A n \in 1..MaxFiles : Lines(after.old[n]) \subseteq Nat /\ \A a \in Lines(after.old[n]) : a <= lines
      /\ Lines(after.now) \subseteq Nat /\ \A a \in Lines(after.now) : a <= lines
  BY <1>2 DEF Rotates, Log, Lines, Range
<1>6. Range(accepted) \subseteq Nat
  BY <1>3 DEF Range
<1>7. \A a \in Nat : a <= lines => a < x /\ a <= x
  BY <1>3 DEF x
<1>8. CASE after.file = "open"
  <2>1. after.now \in Seq(Nat) /\ after.now # NoLog /\ Lines(after.now) = Range(after.now)
    BY <1>2, <1>5, <1>8 DEF Rotates, Log, Lines
  <2>2. /\ current' \in Seq(Nat) /\ Range(current') = Range(after.now) \cup {x} /\ current' # NoLog
        /\ accepted' \in Seq(Nat) /\ Range(accepted') = Range(accepted) \cup {x}
    <3>1. current' = Append(after.now, x) /\ accepted' = Append(accepted, x)
      BY <1>1, <1>8
    <3>2. current' \in Seq(Nat) /\ Range(current') = Range(after.now) \cup {x}
      BY <1>3, <2>1, <3>1, AppendedLines
    <3>3. accepted' \in Seq(Nat) /\ Range(accepted') = Range(accepted) \cup {x}
      BY <1>3, <3>1, AppendedLines
    <3> QED
      BY <3>2, <3>3
  <2>3. Lines(current') = Lines(after.now) \cup {x}
    BY <2>1, <2>2 DEF Lines
  <2>4. LogTypeOK'
    <3>1. \A n \in 1..MaxFiles : \A a \in Lines(rotated'[n]) : a <= x
      BY <1>1, <1>5, <1>7
    <3>2. \A a \in Lines(current') : a <= x
      BY <1>3, <1>5, <1>7, <2>3
    <3>3. \A n \in 0..MaxFiles : \A a \in Lines(FileAt(n)') : a <= x
      BY <3>1, <3>2 DEF FileAt
    <3>4. \A a \in Range(accepted') : a <= x
      <4>1. \A a \in Range(accepted) \cup {x} : a <= x
        BY <1>3, <1>6, <1>7
      <4> QED
        BY <2>2, <4>1
    <3> QED
      BY <1>1, <1>3, <1>5, <2>2, <3>3, <3>4 DEF LogTypeOK, Log, Lines
  <2>5. LogIsWhole'
    BY <1>1, <1>3, <1>4, <1>8, <2>2 DEF LogIsWhole
  <2>6. Ordered(rotated', current')
    <3>1. \A n \in 1..MaxFiles : \A a \in Lines(after.old[n]) : a < x
      BY <1>5, <1>7
    <3>2. \A a \in Range(after.now) : a < x
      BY <1>5, <1>7, <2>1
    <3>3. Ordered(after.old, Append(after.now, x))
      BY <1>3, <1>5, <2>1, <3>1, <3>2, AppendedInOrder
    <3> QED
      BY <1>1, <1>8, <3>3
  <2>7. ~faulty => NewestKept(rotated', current', Range(accepted'))
    <3> SUFFICES ASSUME ~faulty  PROVE NewestKept(rotated', current', Range(accepted'))
      OBVIOUS
    <3>1. \A a \in Range(accepted) : a < x
      BY <1>3, <1>6, <1>7
    <3>2. NewestKept(after.old, Append(after.now, x), Range(accepted) \cup {x})
      BY <1>3, <1>4, <1>6, <2>1, <3>1, AppendedNewest
    <3> QED
      BY <1>1, <1>8, <2>2, <3>2
  <2>8. LogKeepsOrder'
    BY <1>3, <2>6, <2>7, LogFrom
  <2> QED
    BY <2>4, <2>5, <2>8 DEF LogInv
<1>9. CASE after.file # "open"
  <2>1. current' = after.now /\ accepted' = accepted /\ faulty' = TRUE /\ handle' # "open"
    BY <1>1, <1>3, <1>4, <1>9 DEF LogInv
  <2>2. LogTypeOK'
    <3>1. \A n \in 1..MaxFiles : \A a \in Lines(rotated'[n]) : a <= x
      BY <1>1, <1>5, <1>7
    <3>2. \A a \in Lines(current') : a <= x
      BY <1>5, <1>7, <2>1
    <3>3. \A n \in 0..MaxFiles : \A a \in Lines(FileAt(n)') : a <= x
      BY <3>1, <3>2 DEF FileAt
    <3>4. \A a \in Range(accepted') : a <= x
      BY <1>3, <1>6, <1>7, <2>1
    <3> QED
      BY <1>1, <1>3, <1>5, <2>1, <3>3, <3>4 DEF LogTypeOK, Lines
  <2>3. LogIsWhole' /\ LogKeepsOrder'
    BY <1>1, <1>5, <2>1, LogFrom DEF LogIsWhole
  <2> QED
    BY <2>2, <2>3 DEF LogInv
<1> QED
  BY <1>8, <1>9

LEMMA ReopenKeepsLog == LogInv /\ Reopen => LogInv'
<1> SUFFICES ASSUME LogInv, Reopen  PROVE LogInv'
  OBVIOUS
<1> USE RotatingLogAssumption
<1>1. /\ LogTypeOK /\ LogIsWhole /\ LogKeepsOrder /\ Ordered(rotated, current)
      /\ UNCHANGED <<rotated, lines, accepted, faulty>> /\ handle' = "open"
  BY OrderOfLog DEF LogInv, Reopen
<1>2. CASE current # NoLog
  <2>1. current' = current
    BY <1>2 DEF Reopen
  <2>2. LogTypeOK' /\ LogIsWhole'
    BY <1>1, <1>2, <2>1 DEF LogTypeOK, LogIsWhole, FileAt, NoneSkipped
  <2>3. LogKeepsOrder'
    BY <1>1, <2>1 DEF LogKeepsOrder, Kept, FileAt
  <2> QED
    BY <2>2, <2>3 DEF LogInv
<1>3. CASE current = NoLog
  <2>1. current' = <<>> /\ <<>> \in Seq(Nat) /\ <<>> # NoLog /\ faulty
    BY <1>1, <1>3, EmptyFile DEF Reopen, LogIsWhole
  <2>2. Ordered(rotated, <<>>) /\ Lines(<<>>) = {} /\ <<>> \in Log
    BY <1>1, EmptyIsLast
  <2>3. LogTypeOK'
    BY <1>1, <2>1, <2>2 DEF LogTypeOK, FileAt
  <2>4. LogIsWhole' /\ LogKeepsOrder'
    BY <1>1, <2>1, <2>2, LogFrom DEF LogIsWhole
  <2> QED
    BY <2>3, <2>4 DEF LogInv
<1> QED
  BY <1>2, <1>3

LEMMA LogStep == LogInv /\ [LogNext]_logVars => LogInv'
<1> SUFFICES ASSUME LogInv, [LogNext]_logVars  PROVE LogInv'
  OBVIOUS
<1>1. CASE UNCHANGED logVars
  <2> USE <1>1 DEF logVars
  <2>1. LogTypeOK' /\ LogIsWhole'
    BY DEF LogInv, LogTypeOK, LogIsWhole, FileAt, NoneSkipped
  <2>2. LogKeepsOrder'
    BY DEF LogInv, LogKeepsOrder, Kept, FileAt
  <2> QED
    BY <2>1, <2>2 DEF LogInv
<1> QED
  BY <1>1, WriteKeepsLog, ReopenKeepsLog DEF LogNext

\* For any number of rotated files, any sizes and any run of failing renames,
\* closes and opens: read from the oldest file to the current one the log never
\* repeats or reorders a line, and where nothing fails it is exactly the newest
\* accepted lines (writer.go:87-194).
THEOREM LogStaysInOrder == LogSpec => []LogKeepsOrder
<1>1. LogInv => LogKeepsOrder
  BY DEF LogInv
<1> QED
  BY LogStart, LogStep, <1>1, PTL DEF LogSpec

-----------------------------------------------------------------------------
\* The query metrics.

Term   == UNION {Range(q.terms) : q \in Query}
Cache  == Seq(Term \X Nat)

LEMMA CountedTerm ==
    ASSUME NEW cached \in Cache, NEW term \in Term
    PROVE  /\ CountTerm(cached, term) \in Cache
           /\ \A e \in Range(CountTerm(cached, term)) :
                 \/ e \in Range(cached) \/ e = <<term, 1>>
                 \/ \E c \in Nat : <<term, c>> \in Range(cached) /\ e = <<term, c + 1>>
<1> DEFINE old == {i \in DOMAIN cached : cached[i][1] = term}
           i == CHOOSE i \in old : TRUE
           rest == IF old = {} THEN cached ELSE RemoveAt(cached, i)
           entry == IF old = {} THEN <<term, 1>> ELSE <<term, cached[i][2] + 1>>
           grown == Append(rest, entry)
           E == Term \X Nat
<1>1. CountTerm(cached, term) = IF Len(grown) > TermCapacity THEN Tail(grown) ELSE grown
  BY Zenon DEF CountTerm
<1>2. entry \in E /\ (entry = <<term, 1>> \/ \E c \in Nat : <<term, c>> \in Range(cached) /\ entry = <<term, c + 1>>)
  <2>1. CASE old = {}
    BY <2>1
  <2>2. CASE old # {}
    <3>1. i \in DOMAIN cached /\ cached[i][1] = term
      BY <2>2
    <3>2. cached[i] \in Term \X Nat
      BY <3>1 DEF Cache
    <3>3. cached[i] = <<term, cached[i][2]>> /\ cached[i][2] \in Nat
      BY <3>1, <3>2
    <3>4. <<term, cached[i][2]>> \in Range(cached)
      BY <3>1, <3>3 DEF Range
    <3>5. entry = <<term, cached[i][2] + 1>>
      BY <2>2
    <3> HIDE DEF entry, i
    <3> QED
      BY <3>3, <3>4, <3>5
  <2> QED
    BY <2>1, <2>2
<1>3. rest \in Seq(E) /\ Range(rest) \subseteq Range(cached)
  <2>1. CASE old = {}
    BY <2>1 DEF Cache
  <2>2. CASE old # {}
    <3>1. i \in 1..Len(cached) /\ cached \in Seq(E)
      BY <2>2 DEF Cache
    <3> HIDE DEF i, E
    <3> DEFINE before == SubSeq(cached, 1, i - 1)
               after  == SubSeq(cached, i + 1, Len(cached))
    <3>2. before \in Seq(E) /\ after \in Seq(E) /\ Len(before) = i - 1 /\ Len(after) = Len(cached) - i
      BY <3>1
    <3>3. /\ \A k \in 1..Len(before) : before[k] \in Range(cached)
          /\ \A k \in 1..Len(after) : after[k] \in Range(cached)
      BY <3>1 DEF Range
    <3> HIDE DEF before, after
    <3>4. before \o after \in Seq(E) /\ \A k \in 1..Len(before \o after) : (before \o after)[k] \in Range(cached)
      BY <3>2, <3>3
    <3>5. rest = before \o after
      BY <2>2 DEF RemoveAt, before, after
    <3> HIDE DEF rest
    <3>6. rest \in Seq(E) /\ \A k \in 1..Len(rest) : rest[k] \in Range(cached)
      BY <3>4, <3>5
    <3> QED
      BY <3>6 DEF Range
  <2> QED
    BY <2>1, <2>2
<1> HIDE DEF rest, entry, old, E
<1>4. /\ grown \in Seq(E) /\ Len(grown) >= 1
      /\ \A k \in 1..Len(grown) : grown[k] \in Range(rest) \cup {entry}
  BY <1>2, <1>3 DEF Range
<1> HIDE DEF grown
<1>5. /\ CountTerm(cached, term) \in Seq(E)
      /\ \A k \in 1..Len(CountTerm(cached, term)) : CountTerm(cached, term)[k] \in Range(rest) \cup {entry}
  BY <1>1, <1>4
<1>6. Range(CountTerm(cached, term)) \subseteq Range(rest) \cup {entry}
  BY <1>5 DEF Range
<1> QED
  BY <1>2, <1>3, <1>5, <1>6 DEF Cache, E

\* The terms of a query counted one after the other, as a function of how many.
LEMMA CountedSoFar ==
    ASSUME NEW cached \in Cache, NEW terms \in Seq(Term)
    PROVE  \E f \in [0..Len(terms) -> Cache] :
              f[0] = cached /\ \A k \in 1..Len(terms) : f[k] = CountTerm(f[k - 1], terms[k])
<1> DEFINE N == Len(terms)
           Good(n) == \E f \in [0..n -> Cache] : f[0] = cached /\ \A k \in 1..n : f[k] = CountTerm(f[k - 1], terms[k])
           bad == {n \in 0..N : ~Good(n)}
<1>0. N \in Nat /\ \A n \in 1..N : terms[n] \in Term
  OBVIOUS
<1> SUFFICES Good(N)
  OBVIOUS
<1> HIDE DEF N
<1>1. SUFFICES ASSUME bad # {}  PROVE FALSE
  <2> HIDE DEF Good
  <2> QED
    BY <1>0
<1>2. PICK m \in bad : \A k \in bad : m <= k
  <2>1. bad \in SUBSET Nat
    OBVIOUS
  <2> HIDE DEF bad
  <2> QED
    BY <1>1, <2>1, LeastIsThere
<1>3. m \in 0..N /\ ~Good(m)
  OBVIOUS
<1>4. CASE m = 0
  <2> DEFINE f == [n \in 0..0 |-> cached]
  <2>1. f \in [0..m -> Cache] /\ f[0] = cached /\ \A k \in 1..m : f[k] = CountTerm(f[k - 1], terms[k])
    BY <1>4
  <2> HIDE DEF f
  <2> QED
    BY <1>3, <2>1
<1>5. CASE m # 0
  <2>1. m - 1 \in 0..N /\ m \in 1..N
    BY <1>0, <1>3, <1>5
  <2>2. Good(m - 1)
    <3> HIDE DEF Good
    <3>1. ~(m <= m - 1)
      BY <2>1
    <3> QED
      BY <1>2, <2>1, <3>1
  <2>3. PICK f \in [0..(m - 1) -> Cache] : f[0] = cached /\ \A k \in 1..(m - 1) : f[k] = CountTerm(f[k - 1], terms[k])
    BY <2>2
  <2> DEFINE g == [n \in 0..m |-> IF n = m THEN CountTerm(f[m - 1], terms[m]) ELSE f[n]]
  <2>4. f[m - 1] \in Cache /\ CountTerm(f[m - 1], terms[m]) \in Cache
    BY <1>0, <2>1, <2>3, CountedTerm
  <2>5. g \in [0..m -> Cache]
    BY <2>1, <2>3, <2>4
  <2>6. g[0] = cached
    BY <2>1, <2>3
  <2>7. \A k \in 1..m : g[k] = CountTerm(g[k - 1], terms[k])
    <3> SUFFICES ASSUME NEW k \in 1..m  PROVE g[k] = CountTerm(g[k - 1], terms[k])
      OBVIOUS
    <3>1. CASE k = m
      BY <2>1, <3>1
    <3>2. CASE k # m
      BY <2>1, <2>3, <3>2
    <3> QED
      BY <3>1, <3>2
  <2> HIDE DEF g
  <2> QED
    BY <1>3, <2>5, <2>6, <2>7
<1> QED
  BY <1>4, <1>5

LEMMA CountedTerms ==
    ASSUME NEW cached \in Cache, NEW terms \in Seq(Term)
    PROVE  \E f \in [0..Len(terms) -> Cache] :
              /\ f[0] = cached /\ CountTerms(cached, terms) = f[Len(terms)]
              /\ \A n \in 1..Len(terms) : f[n] = CountTerm(f[n - 1], terms[n])
<1> DEFINE N == Len(terms)
           Counts(f) == f = [n \in 0..N |-> IF n = 0 THEN cached ELSE CountTerm(f[n - 1], terms[n])]
<1>1. N \in Nat /\ \A n \in 1..N : terms[n] \in Term
  OBVIOUS
<1>3. PICK f \in [0..N -> Cache] : f[0] = cached /\ \A k \in 1..N : f[k] = CountTerm(f[k - 1], terms[k])
  BY CountedSoFar
<1> HIDE DEF N
<1>4. \A n \in 1..N : f[n] = CountTerm(f[n - 1], terms[n])
  BY <1>3
<1>5. Counts(f)
  BY <1>1, <1>3, <1>4
<1> DEFINE g == CHOOSE g : Counts(g)
<1>6. Counts(g)
  BY <1>5, Zenon
<1>7. CountTerms(cached, terms) = g[N]
  BY Zenon DEF CountTerms, N
<1> HIDE DEF g
<1>8. DOMAIN g = 0..N /\ g[0] = cached /\ \A n \in 1..N : g[n] = CountTerm(g[n - 1], terms[n])
  BY <1>1, <1>6
<1>9. g = f
  <2> DEFINE bad == {n \in 0..N : g[n] # f[n]}
  <2>1. SUFFICES ASSUME bad # {}  PROVE FALSE
    BY <1>6, <1>3
  <2>2. PICK m \in bad : \A k \in bad : m <= k
    <3>1. bad \in SUBSET Nat
      OBVIOUS
    <3> HIDE DEF bad
    <3> QED
      BY <2>1, <3>1, LeastIsThere
  <2>3. m \in 1..N
    BY <1>1, <1>3, <1>8
  <2>4. m - 1 \in 0..N /\ m - 1 \notin bad
    BY <1>1, <2>2, <2>3
  <2> QED
    BY <1>4, <1>8, <2>3, <2>4
<1> QED
  BY <1>3, <1>4, <1>7, <1>9 DEF N

\* Occurrences once the first n terms of a query are counted that is recorded next.
Seen(term, terms, n) == Occurrences(term) \cup {<<Len(kept) + 1, j>> : j \in {k \in 1..n : terms[k] = term}}

TermsOK ==
    /\ kept \in Seq(Query) /\ top \in Cache
    /\ \A term \in Term : IsFiniteSet(Occurrences(term))

LEMMA SeenOneMore ==
    ASSUME TermsOK, NEW terms \in Seq(Term), NEW n \in 1..Len(terms), NEW term \in Term,
           IsFiniteSet(Seen(term, terms, n - 1))
    PROVE  /\ IsFiniteSet(Seen(term, terms, n))
           /\ Cardinality(Seen(term, terms, n)) =
                 Cardinality(Seen(term, terms, n - 1)) + IF terms[n] = term THEN 1 ELSE 0
<1> DEFINE new == <<Len(kept) + 1, n>>
<1>1. Len(kept) \in Nat /\ Len(terms) \in Nat
  BY DEF TermsOK
<1>2. CASE terms[n] = term
  <2>1. Seen(term, terms, n) = Seen(term, terms, n - 1) \cup {new}
    <3>1. {k \in 1..n : terms[k] = term} = {k \in 1..(n - 1) : terms[k] = term} \cup {n}
      BY <1>1, <1>2
    <3> QED
      BY <3>1 DEF Seen
  <2>2. new \notin Seen(term, terms, n - 1)
    <3>1. new \notin Occurrences(term)
      BY <1>1 DEF Occurrences
    <3>2. n \notin {k \in 1..(n - 1) : terms[k] = term}
      BY <1>1
    <3> QED
      BY <3>1, <3>2 DEF Seen
  <2> DEFINE S == Seen(term, terms, n - 1)
  <2> HIDE DEF S, new
  <2>3. IsFiniteSet(S \cup {new}) /\ Cardinality(S \cup {new}) = Cardinality(S) + 1
    BY <2>2, FS_AddElement DEF S
  <2> QED
    BY <1>2, <2>1, <2>3 DEF S
<1>3. CASE terms[n] # term
  <2>1. {k \in 1..n : terms[k] = term} = {k \in 1..(n - 1) : terms[k] = term}
    BY <1>1, <1>3
  <2>2. Seen(term, terms, n) = Seen(term, terms, n - 1)
    BY <2>1 DEF Seen
  <2>3. Cardinality(Seen(term, terms, n - 1)) \in Nat
    BY FS_CardinalityType
  <2> QED
    BY <1>3, <2>2, <2>3
<1> QED
  BY <1>2, <1>3

LEMMA TermsStayReal ==
    ASSUME TermsOK, TermsAreReal, NEW q \in Query, q.terms \in Seq(Term),
           kept' = Append(kept, q), top' = CountTerms(top, q.terms)
    PROVE  TermsOK' /\ TermsAreReal'
<1> DEFINE terms == q.terms
           N == Len(terms)
<1>1. N \in Nat /\ terms \in Seq(Term) /\ \A n \in 1..N : terms[n] \in Term
  OBVIOUS
<1>2. PICK f \in [0..N -> Cache] :
          /\ f[0] = top /\ CountTerms(top, terms) = f[N]
          /\ \A n \in 1..N : f[n] = CountTerm(f[n - 1], terms[n])
  BY CountedTerms DEF TermsOK
<1> HIDE DEF terms, N
<1> DEFINE Good(n) ==
              /\ \A term \in Term : IsFiniteSet(Seen(term, terms, n))
              /\ \A e \in Range(f[n]) : e[2] <= Cardinality(Seen(e[1], terms, n))
           bad == {n \in 0..N : ~Good(n)}
<1>3. \A n \in 0..N : \A e \in Range(f[n]) : e[1] \in Term /\ e[2] \in Nat /\ e = <<e[1], e[2]>>
  BY <1>2 DEF Cache, Range
<1>4. Good(0)
  <2>1. \A term : Seen(term, terms, 0) = Occurrences(term)
    BY DEF Seen
  <2> QED
    BY <1>2, <2>1 DEF TermsOK, TermsAreReal
<1>5. ASSUME NEW n \in 1..N, Good(n - 1)  PROVE Good(n)
  <2> n - 1 \in 0..N
    BY <1>1
  <2>1. \A term \in Term :
           /\ IsFiniteSet(Seen(term, terms, n)) /\ Cardinality(Seen(term, terms, n - 1)) \in Nat
           /\ Cardinality(Seen(term, terms, n)) = Cardinality(Seen(term, terms, n - 1)) + IF terms[n] = term THEN 1 ELSE 0
    BY <1>1, <1>5, SeenOneMore, FS_CardinalityType DEF N
  <2>2. f[n] = CountTerm(f[n - 1], terms[n]) /\ f[n - 1] \in Cache /\ terms[n] \in Term
    BY <1>1, <1>2
  <2>3. ASSUME NEW e \in Range(f[n])  PROVE e[2] <= Cardinality(Seen(e[1], terms, n))
    <3>1. \/ e \in Range(f[n - 1]) \/ e = <<terms[n], 1>>
          \/ \E c \in Nat : <<terms[n], c>> \in Range(f[n - 1]) /\ e = <<terms[n], c + 1>>
      BY <2>2, <2>3, CountedTerm
    <3>2. CASE e \in Range(f[n - 1])
      <4>1. e[1] \in Term /\ e[2] \in Nat /\ e[2] <= Cardinality(Seen(e[1], terms, n - 1))
        BY <1>3, <1>5, <3>2
      <4> QED
        BY <2>1, <4>1
    <3>3. CASE e = <<terms[n], 1>>
      <4>1. e[1] = terms[n] /\ e[2] = 1
        BY <3>3
      <4> QED
        BY <2>1, <2>2, <4>1
    <3>4. ASSUME NEW c \in Nat, <<terms[n], c>> \in Range(f[n - 1]), e = <<terms[n], c + 1>>
          PROVE  e[2] <= Cardinality(Seen(e[1], terms, n))
      <4>1. <<terms[n], c>>[2] <= Cardinality(Seen(<<terms[n], c>>[1], terms, n - 1))
        BY <1>5, <3>4
      <4>2. c <= Cardinality(Seen(terms[n], terms, n - 1)) /\ e[1] = terms[n] /\ e[2] = c + 1
        BY <3>4, <4>1
      <4> QED
        BY <2>1, <2>2, <4>2
    <3> QED
      BY <3>1, <3>2, <3>3, <3>4
  <2> QED
    BY <2>1, <2>3
<1>6. Good(N)
  <2> HIDE DEF Good
  <2>1. SUFFICES ASSUME bad # {}  PROVE FALSE
    BY <1>1
  <2>2. PICK m \in bad : \A k \in bad : m <= k
    <3>1. bad \in SUBSET Nat
      OBVIOUS
    <3> HIDE DEF bad
    <3> QED
      BY <2>1, <3>1, LeastIsThere
  <2>3. m \in 1..N
    BY <1>1, <1>4
  <2>4. m - 1 \in 0..N /\ m - 1 \notin bad
    BY <1>1, <2>2, <2>3
  <2> QED
    BY <1>5, <2>3, <2>4
<1>7. \A term : Occurrences(term)' = Seen(term, terms, N)
  <2>1. kept \in Seq(Query) /\ Len(kept) \in Nat /\ DOMAIN kept' = DOMAIN kept \cup {Len(kept) + 1} /\ DOMAIN q.terms = 1..N
        /\ kept'[Len(kept) + 1] = q /\ \A i \in DOMAIN kept : kept'[i] = kept[i]
    BY DEF TermsOK, N, terms
  <2> DEFINE TermAt(s, i, term) == {<<i, j>> : j \in {n \in DOMAIN s[i].terms : s[i].terms[n] = term}}
  <2>2. \A term : Occurrences(term)' = UNION {TermAt(kept', i, term) : i \in DOMAIN kept'}
    BY DEF Occurrences
  <2>3. \A term : Occurrences(term) = UNION {TermAt(kept, i, term) : i \in DOMAIN kept}
    BY DEF Occurrences
  <2>4. \A term : \A i \in DOMAIN kept : TermAt(kept', i, term) = TermAt(kept, i, term)
    BY <2>1
  <2>5. \A term : TermAt(kept', Len(kept) + 1, term) = {<<Len(kept) + 1, j>> : j \in {k \in 1..N : terms[k] = term}}
    BY <2>1 DEF terms
  <2> HIDE DEF TermAt
  <2> QED
    BY <2>1, <2>2, <2>3, <2>4, <2>5 DEF Seen
<1>8. top' \in Cache /\ kept' \in Seq(Query) /\ top' = f[N]
  BY <1>1, <1>2 DEF TermsOK, terms
<1>9. TermsOK'
  BY <1>6, <1>7, <1>8 DEF TermsOK
<1> QED
  BY <1>6, <1>7, <1>8, <1>9 DEF TermsAreReal

CountsOK ==
    /\ CountsAgree /\ totals.queries \in Nat
    /\ totals.types \in [Kinds -> Nat] /\ totals.latencies \in [Buckets -> Nat]

LEMMA PositionsAreFinite ==
    ASSUME NEW s \in Seq(Query), NEW P \in SUBSET (DOMAIN s)
    PROVE  IsFiniteSet(P) /\ Cardinality(P) \in Nat
<1>1. IsFiniteSet(DOMAIN s)
  BY FS_Interval
<1> QED
  BY <1>1, FS_Subset, FS_CardinalityType

LEMMA CountsStayRight ==
    ASSUME kept \in Seq(Query), CountsOK, NEW q \in Query, kept' = Append(kept, q),
           totals'.queries = totals.queries + 1,
           totals'.types = [totals.types EXCEPT ![q.type] = @ + 1],
           totals'.latencies = [totals.latencies EXCEPT ![q.bucket] = @ + 1]
    PROVE  CountsOK'
<1> DEFINE n == Len(kept) + 1
<1>1. /\ n \in Nat /\ DOMAIN kept' = DOMAIN kept \cup {n} /\ n \notin DOMAIN kept /\ kept'[n] = q
      /\ \A i \in DOMAIN kept : kept'[i] = kept[i]
      /\ Len(kept') = n
  OBVIOUS
<1>2. q.type \in Kinds /\ q.bucket \in Buckets
  BY DEF Kinds, Buckets
<1>3. ASSUME NEW k \in Kinds
      PROVE  totals'.types[k] = Cardinality({i \in DOMAIN kept' : kept'[i].type = k})
  <2> DEFINE P == {i \in DOMAIN kept : kept[i].type = k}
             Q == {i \in DOMAIN kept' : kept'[i].type = k}
  <2>1. totals.types[k] = Cardinality(P) /\ totals.types[k] \in Nat
    BY DEF CountsOK, CountsAgree
  <2>2. IsFiniteSet(P) /\ n \notin P
    BY <1>1, PositionsAreFinite
  <2>3. Q = IF q.type = k THEN P \cup {n} ELSE P
    BY <1>1
  <2> HIDE DEF P, Q, n
  <2>4. Cardinality(Q) = Cardinality(P) + IF q.type = k THEN 1 ELSE 0
    <3>1. Cardinality(P) \in Nat
      BY <2>1
    <3>2. CASE q.type = k
      BY <2>2, <2>3, <3>2, FS_AddElement
    <3>3. CASE q.type # k
      BY <2>3, <3>1, <3>3
    <3> QED
      BY <3>2, <3>3
  <2>5. totals'.types[k] = totals.types[k] + IF q.type = k THEN 1 ELSE 0
    BY <1>2, <2>1 DEF CountsOK
  <2> QED
    BY <2>1, <2>4, <2>5 DEF Q
<1>4. ASSUME NEW b \in Buckets
      PROVE  totals'.latencies[b] = Cardinality({i \in DOMAIN kept' : kept'[i].bucket = b})
  <2> DEFINE P == {i \in DOMAIN kept : kept[i].bucket = b}
             Q == {i \in DOMAIN kept' : kept'[i].bucket = b}
  <2>1. totals.latencies[b] = Cardinality(P) /\ totals.latencies[b] \in Nat
    BY DEF CountsOK, CountsAgree
  <2>2. IsFiniteSet(P) /\ n \notin P
    BY <1>1, PositionsAreFinite
  <2>3. Q = IF q.bucket = b THEN P \cup {n} ELSE P
    BY <1>1
  <2> HIDE DEF P, Q, n
  <2>4. Cardinality(Q) = Cardinality(P) + IF q.bucket = b THEN 1 ELSE 0
    <3>1. Cardinality(P) \in Nat
      BY <2>1
    <3>2. CASE q.bucket = b
      BY <2>2, <2>3, <3>2, FS_AddElement
    <3>3. CASE q.bucket # b
      BY <2>3, <3>1, <3>3
    <3> QED
      BY <3>2, <3>3
  <2>5. totals'.latencies[b] = totals.latencies[b] + IF q.bucket = b THEN 1 ELSE 0
    BY <1>2, <2>1 DEF CountsOK
  <2> QED
    BY <2>1, <2>4, <2>5 DEF Q
<1>5. totals'.queries = Len(kept') /\ totals'.queries \in Nat
  BY <1>1 DEF CountsOK, CountsAgree
<1>6. totals'.types \in [Kinds -> Nat] /\ totals'.latencies \in [Buckets -> Nat]
  BY <1>2 DEF CountsOK
<1> QED
  BY <1>3, <1>4, <1>5, <1>6 DEF CountsOK, CountsAgree

-----------------------------------------------------------------------------

RingOK ==
    /\ ring.items \in [0..(ZeroCapacity - 1) -> Query \cup {NoOne}]
    /\ ring.head \in 0..(ZeroCapacity - 1) /\ ring.size \in 0..ZeroCapacity
    /\ ring.size < ZeroCapacity => ring.head = ring.size
    /\ RingHoldsNewest

LEMMA Wrapped ==
    ASSUME NEW k \in Nat, k < 2 * ZeroCapacity
    PROVE  k % ZeroCapacity = IF k < ZeroCapacity THEN k ELSE k - ZeroCapacity
BY MetricsAssumption

\* An item added: it is the newest, and the others keep their order.
LEMMA AddedItem ==
    ASSUME RingOK, NEW q \in Query
    PROVE  LET new == Add(ring, q)
           IN  /\ new.items \in [0..(ZeroCapacity - 1) -> Query \cup {NoOne}]
               /\ new.head \in 0..(ZeroCapacity - 1) /\ new.size \in 0..ZeroCapacity
               /\ new.size < ZeroCapacity => new.head = new.size
               /\ new.size = IF ring.size < ZeroCapacity THEN ring.size + 1 ELSE ring.size
               /\ Items(new)[new.size] = q
               /\ \A k \in 1..(new.size - 1) :
                     Items(new)[k] = Items(ring)[IF ring.size < ZeroCapacity THEN k ELSE k + 1]
<1> DEFINE new == Add(ring, q)
           C == ZeroCapacity
<1>1. C \in Nat \ {0}
  BY MetricsAssumption
<1>2. /\ ring.items \in [0..(C - 1) -> Query \cup {NoOne}] /\ ring.head \in 0..(C - 1) /\ ring.size \in 0..C
      /\ ring.size < C => ring.head = ring.size
  BY DEF RingOK
<1>3. /\ new.items = [ring.items EXCEPT ![ring.head] = q] /\ new.head = (ring.head + 1) % C
      /\ new.size = IF ring.size < C THEN ring.size + 1 ELSE ring.size
  BY DEF Add
<1>4. \A r : \A i \in 1..r.size :
         Items(r)[i] = r.items[IF r.size < C THEN i - 1 ELSE (r.head + i - 1) % C]
  BY DEF Items
<1> HIDE DEF new, C
<1>6. new.head = IF ring.head + 1 < C THEN ring.head + 1 ELSE 0
  <2> DEFINE k == ring.head + 1
  <2>1. k \in Nat /\ k < 2 * C
    BY <1>1, <1>2
  <2>2. new.head = k % C
    BY <1>3
  <2> HIDE DEF k
  <2>3. k % C = IF k < C THEN k ELSE k - C
    BY <2>1, Wrapped DEF C
  <2> QED
    BY <1>1, <1>2, <2>2, <2>3 DEF k
<1>7. new.items \in [0..(C - 1) -> Query \cup {NoOne}] /\ new.head \in 0..(C - 1) /\ new.size \in 0..C
  BY <1>1, <1>2, <1>3, <1>6
<1>8. new.size < C => new.head = new.size
  BY <1>1, <1>2, <1>3, <1>6
<1>9. ASSUME NEW k \in 1..new.size
      PROVE  Items(new)[k] = IF k = new.size THEN q ELSE Items(ring)[IF ring.size < C THEN k ELSE k + 1]
  <2> DEFINE p == new.head + k - 1
  <2>1. Items(new)[k] = new.items[IF new.size < C THEN k - 1 ELSE p % C]
    BY <1>4
  <2>2. p \in Nat /\ p < 2 * C /\ p = new.head + k - 1
    BY <1>1, <1>7
  <2> HIDE DEF p
  <2>3. p % C = IF p < C THEN p ELSE p - C
    BY <2>2, Wrapped DEF C
  <2>4. CASE ring.size < C
    <3>1. new.size = ring.size + 1 /\ ring.head = ring.size
      BY <1>2, <1>3, <2>4
    <3>2. (new.size < C => new.head = new.size) /\ (new.size = C => new.head = 0)
      BY <1>1, <1>2, <1>6, <1>8, <3>1
    <3>3. Items(new)[k] = new.items[k - 1]
      BY <1>1, <1>7, <2>1, <2>2, <2>3, <3>2
    <3>4. CASE k = new.size
      BY <1>1, <1>2, <1>3, <3>1, <3>3, <3>4
    <3>5. CASE k # new.size
      <4>1. k \in 1..ring.size /\ k - 1 # ring.head /\ k - 1 \in 0..(C - 1)
        BY <1>1, <1>2, <3>1, <3>5
      <4>2. new.items[k - 1] = ring.items[k - 1] /\ Items(ring)[k] = ring.items[k - 1]
        BY <1>2, <1>3, <1>4, <2>4, <4>1
      <4> QED
        BY <2>4, <3>3, <3>5, <4>2
    <3> QED
      BY <3>4, <3>5
  <2>5. CASE ~(ring.size < C)
    <3>1. ring.size = C /\ new.size = C
      BY <1>1, <1>2, <1>3, <2>5
    <3>2. CASE k = C
      <4>1. p % C = ring.head
        <5>1. p = ring.head + C \/ (p = C - 1 /\ ring.head = C - 1)
          BY <1>1, <1>2, <1>6, <2>2, <3>2
        <5>2. CASE p = ring.head + C
          <6>1. ~(p < C) /\ p - C = ring.head
            BY <1>1, <1>2, <5>2
          <6> QED
            BY <2>3, <6>1
        <5>3. CASE p = C - 1 /\ ring.head = C - 1
          <6>1. p < C
            BY <1>1, <5>3
          <6> QED
            BY <2>3, <5>3, <6>1
        <5> QED
          BY <5>1, <5>2, <5>3
      <4> QED
        BY <1>1, <1>2, <1>3, <2>1, <3>1, <3>2, <4>1
    <3>3. CASE k # C
      <4> DEFINE o == ring.head + k
      <4>1. /\ k \in Nat /\ k + 1 \in 1..ring.size /\ o \in Nat /\ o < 2 * C /\ o = ring.head + k
            /\ ring.head + (k + 1) - 1 = o
        BY <1>1, <1>2, <3>1, <3>3
      <4>2. Items(ring)[k + 1] = ring.items[o % C]
        <5>1. Items(ring)[k + 1] = ring.items[IF ring.size < C THEN k + 1 - 1 ELSE (ring.head + (k + 1) - 1) % C]
          BY <1>4, <4>1
        <5> HIDE DEF o
        <5> QED
          BY <2>5, <4>1, <5>1
      <4> HIDE DEF o
      <4>3. o % C = IF o < C THEN o ELSE o - C
        BY <4>1, Wrapped DEF C
      <4>4. p % C = o % C /\ o % C \in 0..(C - 1) \ {ring.head}
        <5>1. CASE ring.head + 1 < C
          <6>1. p = o
            BY <1>1, <1>2, <1>6, <2>2, <4>1, <5>1
          <6>2. o # ring.head /\ o - C # ring.head /\ o \in Nat /\ o - C < C
            BY <1>1, <1>2, <3>1, <3>3, <4>1
          <6>3. o % C \in 0..(C - 1) /\ o % C # ring.head
            <7>1. CASE o < C
              BY <1>1, <4>3, <6>2, <7>1
            <7>2. CASE ~(o < C)
              <8>1. o % C = o - C /\ o - C \in 0..(C - 1)
                BY <1>1, <4>3, <6>2, <7>2
              <8> QED
                BY <6>2, <8>1
            <7> QED
              BY <7>1, <7>2
          <6> QED
            BY <6>1, <6>3
        <5>2. CASE ~(ring.head + 1 < C)
          <6>1. p = k - 1 /\ o = C - 1 + k /\ ring.head = C - 1
            BY <1>1, <1>2, <1>6, <2>2, <4>1, <5>2
          <6> QED
            BY <1>1, <2>3, <3>1, <3>3, <4>1, <4>3, <6>1
        <5> QED
          BY <5>1, <5>2
      <4> QED
        BY <1>1, <1>2, <1>3, <2>1, <2>5, <3>1, <3>3, <4>2, <4>4
    <3> QED
      BY <3>2, <3>3
  <2> QED
    BY <2>4, <2>5
<1>10. new.size \in 1..new.size /\ \A k \in 1..(new.size - 1) : k \in 1..new.size /\ k # new.size
  BY <1>1, <1>2, <1>3
<1> QED
  BY <1>3, <1>7, <1>8, <1>9, <1>10 DEF new, C

LEMMA LaterCounts ==
    ASSUME kept \in Seq(Query)
    PROVE  /\ IsFiniteSet(ZeroEvents) /\ Cardinality(ZeroEvents) \in Nat
           /\ \A i \in ZeroEvents : /\ Later(i) \in Nat /\ Later(i) < Cardinality(ZeroEvents)
                                    /\ IsFiniteSet({j \in ZeroEvents : j > i})
<1>1. ZeroEvents \in SUBSET (DOMAIN kept)
  BY DEF ZeroEvents
<1>2. IsFiniteSet(ZeroEvents) /\ Cardinality(ZeroEvents) \in Nat
  BY <1>1, PositionsAreFinite
<1>3. ASSUME NEW i \in ZeroEvents
      PROVE  /\ Later(i) \in Nat /\ Later(i) < Cardinality(ZeroEvents)
             /\ IsFiniteSet({j \in ZeroEvents : j > i})
  <2> DEFINE S == {j \in ZeroEvents : j > i}
  <2>1. i \in Nat /\ S \in SUBSET (DOMAIN kept) /\ i \notin S /\ S \cup {i} \subseteq ZeroEvents
    BY <1>1
  <2>2. IsFiniteSet(S) /\ Cardinality(S) \in Nat
    BY <2>1, PositionsAreFinite
  <2>3. Cardinality(S \cup {i}) = Cardinality(S) + 1
    BY <2>1, <2>2, FS_AddElement
  <2>4. Cardinality(S \cup {i}) <= Cardinality(ZeroEvents)
    BY <1>2, <2>1, FS_Subset
  <2>5. Later(i) = Cardinality(S)
    BY DEF Later
  <2> HIDE DEF S
  <2> QED
    BY <1>2, <2>2, <2>3, <2>4, <2>5 DEF S
<1> QED
  BY <1>2, <1>3

\* One more query without a result: one more is later than each of the others.
LEMMA OneMoreZero ==
    ASSUME kept \in Seq(Query), NEW q \in Query, kept' = Append(kept, q), q.zero,
           NEW n, n = Len(kept) + 1
    PROVE  /\ ZeroEvents' = ZeroEvents \cup {n}
           /\ Cardinality(ZeroEvents)' = Cardinality(ZeroEvents) + 1
           /\ Later(n)' = 0
           /\ \A i \in ZeroEvents : Later(i)' = Later(i) + 1 /\ kept'[i] = kept[i]
<1>1. /\ n \in Nat /\ DOMAIN kept' = DOMAIN kept \cup {n} /\ kept'[n] = q
      /\ \A i \in DOMAIN kept : kept'[i] = kept[i] /\ i < n /\ i \in Nat
  OBVIOUS
<1>2. ZeroEvents' = ZeroEvents \cup {n} /\ n \notin ZeroEvents
  BY <1>1 DEF ZeroEvents
<1>3. Cardinality(ZeroEvents)' = Cardinality(ZeroEvents) + 1
  BY <1>2, LaterCounts, FS_AddElement
<1>4. \A i \in ZeroEvents : i \in Nat /\ i < n /\ kept'[i] = kept[i]
  BY <1>1 DEF ZeroEvents
<1>5. Later(n)' = 0
  <2>1. {j \in ZeroEvents' : j > n} = {}
    BY <1>1, <1>2, <1>4
  <2> QED
    BY <2>1, FS_EmptySet DEF Later
<1>6. ASSUME NEW i \in ZeroEvents  PROVE Later(i)' = Later(i) + 1
  <2> DEFINE S == {j \in ZeroEvents : j > i}
             T == {j \in ZeroEvents' : j > i}
  <2>1. T = S \cup {n} /\ n \notin S
    BY <1>1, <1>2, <1>4
  <2>2. IsFiniteSet(S)
    BY LaterCounts
  <2>3. Later(i)' = Cardinality(T) /\ Later(i) = Cardinality(S)
    BY DEF Later
  <2> HIDE DEF S, T
  <2> QED
    BY <2>1, <2>2, <2>3, FS_AddElement
<1> QED
  BY <1>2, <1>3, <1>4, <1>5, <1>6

LEMMA RingStaysRight ==
    ASSUME kept \in Seq(Query), RingOK, NEW q \in Query, kept' = Append(kept, q),
           ring' = IF q.zero THEN Add(ring, q) ELSE ring
    PROVE  RingOK'
<1> PICK n : n = Len(kept) + 1
  OBVIOUS
<1> DEFINE C == ZeroCapacity
           Z == Cardinality(ZeroEvents)
<1>1. C \in Nat \ {0}
  BY MetricsAssumption
<1>2. CASE ~q.zero
  <2>1. ring' = ring
    BY <1>2
  <2>2. ZeroEvents' = ZeroEvents /\ \A i \in ZeroEvents : kept'[i] = kept[i]
    BY <1>2 DEF ZeroEvents
  <2>3. \A i : Later(i)' = Later(i)
    BY <2>2 DEF Later
  <2> QED
    BY <2>1, <2>2, <2>3 DEF RingOK, RingHoldsNewest
<1>3. CASE q.zero
  <2>1. /\ ZeroEvents' = ZeroEvents \cup {n} /\ Cardinality(ZeroEvents)' = Z + 1
        /\ Later(n)' = 0 /\ \A i \in ZeroEvents : Later(i)' = Later(i) + 1 /\ kept'[i] = kept[i]
    BY <1>3, OneMoreZero
  <2>2. /\ ring'.items \in [0..(C - 1) -> Query \cup {NoOne}]
        /\ ring'.head \in 0..(C - 1) /\ ring'.size \in 0..C
        /\ ring'.size < C => ring'.head = ring'.size
        /\ ring'.size = IF ring.size < C THEN ring.size + 1 ELSE ring.size
        /\ Items(ring')[ring'.size] = q
        /\ \A k \in 1..(ring'.size - 1) :
              Items(ring')[k] = Items(ring)[IF ring.size < C THEN k ELSE k + 1]
    BY <1>3, AddedItem
  <2>3. /\ ring.size = IF Z < C THEN Z ELSE C
        /\ \A i \in ZeroEvents : Later(i) < C => Items(ring)[ring.size - Later(i)] = kept[i]
    BY DEF RingOK, RingHoldsNewest
  <2>4. Z \in Nat /\ \A i \in ZeroEvents : Later(i) \in Nat /\ Later(i) < Z
    BY LaterCounts
  <2> HIDE DEF C, Z
  <2>5. ring'.size = IF Z + 1 < C THEN Z + 1 ELSE C
    BY <1>1, <2>2, <2>3, <2>4
  <2>6. Later(n)' < C => Items(ring')[ring'.size - Later(n)'] = kept'[n]
    <3>1. ring'.size - 0 = ring'.size /\ kept'[n] = q
      BY <1>1, <2>4, <2>5
    <3> QED
      BY <2>1, <2>2, <3>1
  <2>7. ASSUME NEW i \in ZeroEvents, Later(i)' < C
        PROVE  Items(ring')[ring'.size - Later(i)'] = kept'[i]
    <3> DEFINE L == Later(i)
               k == ring'.size - (L + 1)
    <3>1. L \in Nat /\ L < Z /\ L + 1 < C /\ Later(i)' = L + 1 /\ kept'[i] = kept[i]
      BY <2>1, <2>4, <2>7
    <3> HIDE DEF L
    <3>2. k \in 1..(ring'.size - 1)
      BY <1>1, <2>4, <2>5, <3>1
    <3>3. (IF ring.size < C THEN k ELSE k + 1) = ring.size - L
      <4>1. CASE Z < C
        <5>0. Z + 1 < C \/ Z + 1 = C
          BY <1>1, <2>4, <4>1
        <5>1. ring.size = Z /\ ring'.size = Z + 1
          BY <2>3, <2>5, <4>1, <5>0
        <5>2. k = Z - L
          BY <2>4, <3>1, <5>1
        <5> HIDE DEF k
        <5> QED
          BY <4>1, <5>1, <5>2
      <4>2. CASE ~(Z < C)
        <5>1. ring.size = C /\ ring'.size = C
          BY <1>1, <2>3, <2>4, <2>5, <4>2
        <5> QED
          BY <1>1, <3>1, <5>1
      <4> QED
        BY <4>1, <4>2
    <3> HIDE DEF k
    <3>4. Items(ring')[k] = Items(ring)[ring.size - L]
      BY <2>2, <3>2, <3>3
    <3>5. Items(ring)[ring.size - L] = kept[i]
      <4>1. L < C
        BY <1>1, <3>1
      <4> QED
        BY <2>3, <4>1 DEF L
    <3> QED
      BY <3>1, <3>4, <3>5 DEF k
  <2> QED
    <3>1. ring'.size = IF Cardinality(ZeroEvents)' < C THEN Cardinality(ZeroEvents)' ELSE C
      BY <2>1, <2>5
    <3>2. \A i \in ZeroEvents' : Later(i)' < C => Items(ring')[ring'.size - Later(i)'] = kept'[i]
      BY <2>1, <2>6, <2>7
    <3> QED
      BY <2>2, <3>1, <3>2 DEF RingOK, RingHoldsNewest, C
<1> QED
  BY <1>2, <1>3

-----------------------------------------------------------------------------

Stages == {"idle", "lock", "first", "second", "read", "types", "latencies", "done"}
Counts == [types : [Kinds -> Nat], latencies : [Buckets -> Nat], queries : Nat, zeros : Nat, repeats : Nat]
Saved  == [types : [Kinds -> Nat], latencies : [Buckets -> Nat]]

MetricsTypeOK ==
    /\ at \in [Recorder \cup Flusher -> Stages]
    /\ \A r \in Recorder : at[r] \in {"idle", "lock"}
    /\ blocked \subseteq Flusher /\ \A f \in blocked : at[f] \in {"first", "second"}
    /\ event \in [Recorder -> Query]
    /\ totals \in Counts /\ snapshot \in [Flusher -> Counts] /\ stored \in Saved
    /\ closed \in BOOLEAN /\ refused \in BOOLEAN

\* What is stored counts at least what was recorded.
TypesStored     == \A k \in Kinds : stored.types[k] >= totals.types[k]
LatenciesStored == \A b \in Buckets : stored.latencies[b] >= totals.latencies[b]

CloserKeeps ==
    /\ at["closer"] \notin {"idle", "lock"} => closed
    /\ at["closer"] = "idle" => ~closed
    /\ at["closer"] \in {"types", "latencies"} => snapshot["closer"] = totals
    /\ at["closer"] = "latencies" => TypesStored
    /\ at["closer"] \in {"lock", "done"} /\ closed /\ ~refused => TypesStored /\ LatenciesStored

DataRight == CountsOK /\ RingOK /\ TermsOK /\ TermsAreReal

MetricsInv == MetricsTypeOK /\ CloserKeeps /\ DataRight

LEMMA MetricsProcesses ==
    /\ "closer" \in Flusher /\ "ticker" \in Flusher
    /\ \A r \in Recorder : r # "closer" /\ r # "ticker"
BY MetricsAssumption DEF Flusher

LEMMA TermsOfQueries == \A q \in Query : q.terms \in Seq(Term)
<1> SUFFICES ASSUME NEW q \in Query  PROVE q.terms \in Seq(Term)
  OBVIOUS
<1> DEFINE s == q.terms
<1>1. s \in Seq(Range(s))
  BY MetricsAssumption
<1>2. Range(s) \subseteq Term
  BY DEF Term
<1> HIDE DEF s
<1> QED
  BY <1>1, <1>2 DEF s

LEMMA MetricsStart == MetricsInit => MetricsInv
<1> SUFFICES ASSUME MetricsInit  PROVE MetricsInv
  OBVIOUS
<1>1. Query # {} /\ ZeroCapacity \in Nat \ {0}
  BY MetricsAssumption
<1>2. DOMAIN kept = {} /\ kept \in Seq(Query) /\ Len(kept) = 0 /\ Cardinality({}) = 0 /\ IsFiniteSet({})
  BY FS_EmptySet DEF MetricsInit
<1>3. totals = [types |-> [k \in Kinds |-> 0], latencies |-> [b \in Buckets |-> 0], queries |-> 0, zeros |-> 0, repeats |-> 0]
  BY DEF MetricsInit, Zeros
<1>4. totals \in Counts
  BY <1>3 DEF Counts
<1>5. MetricsTypeOK
  <2>1. at \in [Recorder \cup Flusher -> Stages] /\ \A r \in Recorder : at[r] \in {"idle", "lock"}
    BY DEF MetricsInit, Stages
  <2>2. (CHOOSE q \in Query : TRUE) \in Query
    BY <1>1
  <2>3. event \in [Recorder -> Query]
    BY <2>2 DEF MetricsInit
  <2>4. snapshot \in [Flusher -> Counts]
    BY <1>4 DEF MetricsInit
  <2>5. stored \in Saved
    BY DEF MetricsInit, Zeros, Saved
  <2> QED
    BY <1>4, <2>1, <2>3, <2>4, <2>5 DEF MetricsTypeOK, MetricsInit
<1>6. CloserKeeps
  BY MetricsProcesses DEF MetricsInit, CloserKeeps
<1>7. CountsOK
  <2>1. \A k \in Kinds : {i \in DOMAIN kept : kept[i].type = k} = {}
    BY <1>2
  <2>2. \A b \in Buckets : {i \in DOMAIN kept : kept[i].bucket = b} = {}
    BY <1>2
  <2> QED
    BY <1>2, <1>3, <2>1, <2>2 DEF CountsOK, CountsAgree
<1>8. RingOK
  <2>1. ZeroEvents = {}
    BY <1>2 DEF ZeroEvents
  <2>2. RingHoldsNewest
    BY <1>1, <1>2, <2>1 DEF RingHoldsNewest, MetricsInit
  <2> QED
    BY <1>1, <2>2 DEF RingOK, MetricsInit
<1>9. TermsOK /\ TermsAreReal
  <2>1. \A term : Occurrences(term) = {}
    BY <1>2 DEF Occurrences
  <2>2. top \in Cache /\ Range(top) = {}
    BY DEF MetricsInit, Cache, Range
  <2> QED
    BY <1>2, <2>1, <2>2 DEF TermsOK, TermsAreReal
<1> QED
  BY <1>5, <1>6, <1>7, <1>8, <1>9 DEF MetricsInv, DataRight

\* The write lock given back: p goes on, and what queued behind it is let in.
LEMMA Unlocked ==
    ASSUME MetricsTypeOK, NEW p \in Recorder \cup Flusher, at[p] = "lock", NEW next \in Stages,
           WriteUnlock(p, next)
    PROVE  /\ at' \in [Recorder \cup Flusher -> Stages] /\ at'[p] = next /\ blocked' = {}
           /\ \A x \in Recorder \cup Flusher : x # p =>
                 at'[x] = at[x] \/ (x \in Flusher /\ at[x] \in {"first", "second"} /\ at'[x] \in {"second", "read"})
<1>1. \A f \in blocked : f \in Flusher /\ at[f] \in {"first", "second"} /\ NextRead(at[f]) \in {"second", "read"}
  BY DEF MetricsTypeOK, NextRead
<1>2. DOMAIN at = Recorder \cup Flusher /\ \A x \in Recorder \cup Flusher : at[x] \in Stages
  BY DEF MetricsTypeOK
<1>3. /\ blocked' = {}
      /\ at' = [x \in Recorder \cup Flusher |-> IF x = p THEN next
                                                ELSE IF x \in blocked THEN NextRead(at[x]) ELSE at[x]]
  BY <1>2 DEF WriteUnlock
<1>4. \A x \in Recorder \cup Flusher : at'[x] \in Stages
  BY <1>1, <1>2, <1>3 DEF Stages
<1> QED
  BY <1>1, <1>3, <1>4

LEMMA DataKept ==
    ASSUME DataRight, UNCHANGED dataVars
    PROVE  DataRight'
<1>1. totals' = totals /\ ring' = ring /\ top' = top /\ kept' = kept
  BY DEF dataVars
<1>2. CountsOK'
  BY <1>1 DEF DataRight, CountsOK, CountsAgree
<1>3. \A term : Occurrences(term)' = Occurrences(term)
  BY <1>1 DEF Occurrences
<1>4. TermsOK' /\ TermsAreReal'
  BY <1>1, <1>3 DEF DataRight, TermsOK, TermsAreReal
<1>5. ZeroEvents' = ZeroEvents /\ \A i : Later(i)' = Later(i)
  BY <1>1 DEF ZeroEvents, Later
<1>6. RingOK'
  BY <1>1, <1>5 DEF DataRight, RingOK, RingHoldsNewest
<1> QED
  BY <1>2, <1>4, <1>6 DEF DataRight

\* An event recorded moves every count with it.
LEMMA RecordedRight ==
    ASSUME MetricsInv, NEW r \in Recorder, RecordLocked(r)
    PROVE  DataRight' /\ totals' \in Counts /\ (closed => totals' = totals)
<1>1. CASE closed
  <2>1. UNCHANGED dataVars
    BY <1>1 DEF RecordLocked
  <2>2. totals' = totals
    BY <2>1 DEF dataVars
  <2> QED
    BY <2>1, <2>2, DataKept DEF MetricsInv, MetricsTypeOK
<1>2. CASE ~closed
  <2> DEFINE q == event[r]
  <2>1. q \in Query /\ q.type \in Kinds /\ q.bucket \in Buckets
    BY DEF MetricsInv, MetricsTypeOK, Kinds, Buckets
  <2>2. /\ totals' = [types     |-> [totals.types EXCEPT ![q.type] = @ + 1],
                      latencies |-> [totals.latencies EXCEPT ![q.bucket] = @ + 1],
                      queries   |-> totals.queries + 1,
                      zeros     |-> totals.zeros + IF q.zero THEN 1 ELSE 0,
                      repeats   |-> totals.repeats + IF q \in seen THEN 1 ELSE 0]
        /\ ring' = IF q.zero THEN Add(ring, q) ELSE ring
        /\ top' = CountTerms(top, q.terms)
        /\ kept' = Append(kept, q)
    BY <1>2 DEF RecordLocked
  <2> HIDE DEF q
  <2>3. PICK new : new = q
    OBVIOUS
  <2>4. kept \in Seq(Query) /\ CountsOK /\ RingOK /\ TermsOK /\ TermsAreReal /\ totals \in Counts
    BY DEF MetricsInv, MetricsTypeOK, DataRight, TermsOK
  <2>5. CountsOK'
    <3>1. /\ totals'.queries = totals.queries + 1
          /\ totals'.types = [totals.types EXCEPT ![new.type] = @ + 1]
          /\ totals'.latencies = [totals.latencies EXCEPT ![new.bucket] = @ + 1]
      BY <2>2, <2>3
    <3> QED
      BY <2>1, <2>2, <2>3, <2>4, <3>1, CountsStayRight
  <2>6. RingOK'
    BY <2>1, <2>2, <2>3, <2>4, RingStaysRight
  <2>7. TermsOK' /\ TermsAreReal'
    BY <2>1, <2>2, <2>3, <2>4, TermsOfQueries, TermsStayReal
  <2>8. totals' \in Counts
    <3>1. /\ totals.types \in [Kinds -> Nat] /\ totals.latencies \in [Buckets -> Nat]
          /\ totals.queries \in Nat /\ totals.zeros \in Nat /\ totals.repeats \in Nat
      BY <2>4 DEF Counts
    <3>2. /\ [totals.types EXCEPT ![q.type] = @ + 1] \in [Kinds -> Nat]
          /\ [totals.latencies EXCEPT ![q.bucket] = @ + 1] \in [Buckets -> Nat]
      BY <2>1, <3>1
    <3>3. totals.zeros + (IF q.zero THEN 1 ELSE 0) \in Nat /\ totals.repeats + (IF q \in seen THEN 1 ELSE 0) \in Nat
      BY <3>1
    <3> QED
      BY <2>2, <3>1, <3>2, <3>3 DEF Counts
  <2> QED
    BY <1>2, <2>5, <2>6, <2>7, <2>8 DEF DataRight
<1> QED
  BY <1>1, <1>2

LEMMA RecorderKeeps ==
    ASSUME MetricsInv, NEW r \in Recorder, Record(r) \/ RecordLocked(r)
    PROVE  MetricsInv'
<1>1. /\ MetricsTypeOK /\ CloserKeeps /\ DataRight /\ r # "closer" /\ r \in Recorder \cup Flusher
      /\ \A f \in Flusher : f # r /\ f \in Recorder \cup Flusher
  BY MetricsProcesses, MetricsAssumption DEF MetricsInv, Flusher
<1>2. CASE Record(r)
  <2>1. /\ at[r] = "idle" /\ at' = [at EXCEPT ![r] = "lock"] /\ blocked' = blocked
        /\ UNCHANGED <<dataVars, closed, snapshot, stored, refused>> /\ totals' = totals
    BY <1>2 DEF Record, lockVars, dataVars
  <2>2. event' \in [Recorder -> Query]
    BY <1>1, <1>2 DEF Record, MetricsTypeOK
  <2>3. at' \in [Recorder \cup Flusher -> Stages] /\ \A f \in Flusher : at'[f] = at[f]
    BY <1>1, <2>1 DEF MetricsTypeOK, Stages
  <2>4. MetricsTypeOK'
    BY <1>1, <2>1, <2>2, <2>3 DEF MetricsTypeOK
  <2>5. CloserKeeps'
    BY <1>1, <2>1, <2>3, MetricsProcesses DEF CloserKeeps, TypesStored, LatenciesStored
  <2> QED
    BY <1>1, <2>1, <2>4, <2>5, DataKept DEF MetricsInv
<1>3. CASE RecordLocked(r)
  <2>1. /\ at[r] = "lock" /\ WriteUnlock(r, "idle") /\ UNCHANGED <<event, closed, snapshot, stored, refused>>
    BY <1>3 DEF RecordLocked
  <2>2. /\ at' \in [Recorder \cup Flusher -> Stages] /\ at'[r] = "idle" /\ blocked' = {}
        /\ \A x \in Recorder \cup Flusher : x # r =>
              at'[x] = at[x] \/ (x \in Flusher /\ at[x] \in {"first", "second"} /\ at'[x] \in {"second", "read"})
    BY <1>1, <2>1, Unlocked DEF Stages
  <2>3. DataRight' /\ totals' \in Counts /\ (closed => totals' = totals)
    BY <1>3, RecordedRight
  <2>4. \A x \in Recorder : at'[x] \in {"idle", "lock"}
    BY <1>1, <2>2 DEF MetricsTypeOK
  <2>5. MetricsTypeOK'
    BY <1>1, <2>1, <2>2, <2>3, <2>4 DEF MetricsTypeOK
  <2>6. at'["closer"] = at["closer"] \/ (at["closer"] \in {"first", "second"} /\ at'["closer"] \in {"second", "read"})
    BY <1>1, <2>2, MetricsProcesses
  <2>7. CloserKeeps'
    <3>1. CASE closed
      BY <1>1, <2>1, <2>3, <2>6, <3>1 DEF CloserKeeps, TypesStored, LatenciesStored
    <3>2. CASE ~closed
      BY <1>1, <2>1, <2>6, <3>2 DEF CloserKeeps
    <3> QED
      BY <3>1, <3>2
  <2> QED
    BY <2>3, <2>5, <2>7 DEF MetricsInv
<1> QED
  BY <1>2, <1>3

LEMMA CloserStepKeeps ==
    ASSUME MetricsInv, Close \/ CloseLocked
    PROVE  MetricsInv'
<1>1. /\ MetricsTypeOK /\ CloserKeeps /\ DataRight /\ "closer" \in Flusher /\ "closer" \notin Recorder
      /\ \A x \in Recorder : x # "closer" /\ x \notin Flusher
  BY MetricsProcesses, MetricsAssumption DEF MetricsInv, Flusher
<1>2. CASE Close
  <2>1. /\ at["closer"] \in {"idle", "done"} /\ at' = [at EXCEPT !["closer"] = "lock"] /\ blocked' = blocked
        /\ UNCHANGED <<event, dataVars, closed, snapshot, stored, refused>> /\ totals' = totals
    BY <1>2 DEF Close, lockVars, dataVars
  <2>2. /\ at' \in [Recorder \cup Flusher -> Stages] /\ at'["closer"] = "lock"
        /\ \A x \in Recorder \cup Flusher : x # "closer" => at'[x] = at[x]
    BY <1>1, <2>1 DEF MetricsTypeOK, Stages
  <2>3. "closer" \notin blocked
    BY <1>1, <2>1 DEF MetricsTypeOK
  <2>4. MetricsTypeOK'
    BY <1>1, <2>1, <2>2, <2>3 DEF MetricsTypeOK
  <2>5. (TypesStored => TypesStored') /\ (LatenciesStored => LatenciesStored')
    BY <2>1 DEF TypesStored, LatenciesStored
  <2>6. CloserKeeps'
    BY <1>1, <2>1, <2>2, <2>5 DEF CloserKeeps
  <2> QED
    BY <1>1, <2>1, <2>4, <2>6, DataKept DEF MetricsInv
<1>3. CASE CloseLocked
  <2>1. /\ at["closer"] = "lock" /\ closed' = TRUE /\ UNCHANGED <<event, dataVars, snapshot, stored, refused>>
        /\ totals' = totals /\ WriteUnlock("closer", IF closed THEN "done" ELSE "first")
    BY <1>3 DEF CloseLocked, dataVars
  <2>2. PICK next \in {"first", "done"} : next = (IF closed THEN "done" ELSE "first") /\ WriteUnlock("closer", next)
    BY <2>1
  <2>3. /\ at' \in [Recorder \cup Flusher -> Stages] /\ at'["closer"] = next /\ blocked' = {}
        /\ \A x \in Recorder \cup Flusher : x # "closer" =>
              at'[x] = at[x] \/ (x \in Flusher /\ at[x] \in {"first", "second"} /\ at'[x] \in {"second", "read"})
    BY <1>1, <2>1, <2>2, Unlocked DEF Stages
  <2>4. \A x \in Recorder : at'[x] \in {"idle", "lock"}
    BY <1>1, <2>3 DEF MetricsTypeOK
  <2>5. MetricsTypeOK'
    BY <1>1, <2>1, <2>2, <2>3, <2>4 DEF MetricsTypeOK
  <2>6. CloserKeeps'
    BY <1>1, <2>1, <2>2, <2>3 DEF CloserKeeps, TypesStored, LatenciesStored
  <2> QED
    BY <1>1, <2>1, <2>5, <2>6, DataKept DEF MetricsInv
<1> QED
  BY <1>2, <1>3

LEMMA TickKeeps == MetricsInv /\ TickFlush => MetricsInv'
<1> SUFFICES ASSUME MetricsInv, TickFlush  PROVE MetricsInv'
  OBVIOUS
<1>1. /\ MetricsTypeOK /\ CloserKeeps /\ DataRight /\ "ticker" \in Flusher
      /\ \A x \in Recorder : x # "ticker"
  BY MetricsProcesses DEF MetricsInv
<1>2. /\ at["ticker"] = "idle" /\ at' = [at EXCEPT !["ticker"] = "first"] /\ blocked' = blocked
      /\ UNCHANGED <<event, dataVars, closed, snapshot, stored, refused>> /\ totals' = totals
  BY DEF TickFlush, lockVars, dataVars
<1>3. /\ at' \in [Recorder \cup Flusher -> Stages]
      /\ \A x \in Recorder \cup Flusher : x # "ticker" => at'[x] = at[x]
  BY <1>1, <1>2 DEF MetricsTypeOK, Stages
<1>4. "ticker" \notin blocked
  BY <1>1, <1>2 DEF MetricsTypeOK
<1>5. MetricsTypeOK'
  BY <1>1, <1>2, <1>3, <1>4 DEF MetricsTypeOK
<1>6. at'["closer"] = at["closer"]
  BY <1>3, MetricsProcesses
<1>7. CloserKeeps'
  BY <1>1, <1>2, <1>6 DEF CloserKeeps, TypesStored, LatenciesStored
<1> QED
  BY <1>1, <1>2, <1>5, <1>7, DataKept DEF MetricsInv

LEMMA ReadLockKeeps ==
    ASSUME MetricsInv, NEW f \in Flusher, RLock(f)
    PROVE  MetricsInv'
<1>1. /\ MetricsTypeOK /\ CloserKeeps /\ DataRight /\ \A x \in Recorder : x # f
      /\ "closer" \in Flusher
  BY MetricsProcesses DEF MetricsInv, Flusher
<1>2. /\ at[f] \in {"first", "second"} /\ f \notin blocked
      /\ UNCHANGED <<event, dataVars, closed, snapshot, stored, refused>> /\ totals' = totals
      /\ \/ at' = [at EXCEPT ![f] = NextRead(@)] /\ blocked' = blocked
         \/ at' = at /\ blocked' = blocked \cup {f}
  BY DEF RLock, dataVars
<1>3. NextRead(at[f]) \in {"second", "read"}
  BY <1>2 DEF NextRead
<1>4. /\ at' \in [Recorder \cup Flusher -> Stages]
      /\ \A x \in Recorder \cup Flusher : x # f => at'[x] = at[x]
      /\ at'[f] \in {"first", "second", "read"}
  BY <1>1, <1>2, <1>3 DEF MetricsTypeOK, Stages
<1>5. MetricsTypeOK'
  <2>1. \A r \in Recorder : at'[r] \in {"idle", "lock"}
    BY <1>1, <1>4 DEF MetricsTypeOK
  <2>2. blocked' \subseteq Flusher /\ \A x \in blocked' : at'[x] \in {"first", "second"}
    BY <1>1, <1>2, <1>4 DEF MetricsTypeOK
  <2> QED
    BY <1>1, <1>2, <1>4, <2>1, <2>2 DEF MetricsTypeOK
<1>6. CloserKeeps'
  <2>1. at'["closer"] = at["closer"] \/ (at["closer"] \in {"first", "second"} /\ at'["closer"] \in {"first", "second", "read"})
    BY <1>1, <1>2, <1>4
  <2> QED
    BY <1>1, <1>2, <2>1 DEF CloserKeeps, TypesStored, LatenciesStored
<1> QED
  BY <1>1, <1>2, <1>5, <1>6, DataKept DEF MetricsInv

LEMMA SnapshotKeeps ==
    ASSUME MetricsInv, NEW f \in Flusher, Snapshot(f)
    PROVE  MetricsInv'
<1>1. /\ MetricsTypeOK /\ CloserKeeps /\ DataRight /\ "closer" \in Flusher /\ \A x \in Recorder : x # f
  BY MetricsProcesses DEF MetricsInv, Flusher
<1>2. /\ at[f] = "read" /\ at' = [at EXCEPT ![f] = "types"] /\ snapshot' = [snapshot EXCEPT ![f] = totals]
      /\ UNCHANGED <<blocked, event, dataVars, closed, stored, refused>> /\ totals' = totals
  BY DEF Snapshot, dataVars
<1>3. /\ at' \in [Recorder \cup Flusher -> Stages] /\ at'[f] = "types" /\ f \notin blocked
      /\ \A x \in Recorder \cup Flusher : x # f => at'[x] = at[x]
  BY <1>1, <1>2 DEF MetricsTypeOK, Stages
<1>4. /\ snapshot' \in [Flusher -> Counts] /\ snapshot'[f] = totals'
      /\ \A g \in Flusher : g # f => snapshot'[g] = snapshot[g]
  BY <1>1, <1>2 DEF MetricsTypeOK
<1>5. MetricsTypeOK'
  BY <1>1, <1>2, <1>3, <1>4 DEF MetricsTypeOK
<1>6. CloserKeeps'
  <2>1. CASE f = "closer"
    BY <1>1, <1>2, <1>3, <1>4, <2>1 DEF CloserKeeps
  <2>2. CASE f # "closer"
    BY <1>1, <1>2, <1>3, <1>4, <2>2 DEF CloserKeeps, TypesStored, LatenciesStored
  <2> QED
    BY <2>1, <2>2
<1> QED
  BY <1>1, <1>2, <1>5, <1>6, DataKept DEF MetricsInv

LEMMA Added ==
    ASSUME NEW S, NEW a \in [S -> Nat], NEW b \in [S -> Nat]
    PROVE  Plus(a, b) \in [S -> Nat] /\ \A x \in S : Plus(a, b)[x] >= a[x] /\ Plus(a, b)[x] >= b[x]
BY DEF Plus

LEMMA SavesKeep ==
    ASSUME MetricsInv, NEW f \in Flusher, SaveTypes(f) \/ SaveLatencies(f) \/ SaveFails(f)
    PROVE  MetricsInv'
<1>1. /\ MetricsTypeOK /\ CloserKeeps /\ DataRight /\ "closer" \in Flusher /\ \A x \in Recorder : x # f
  BY MetricsProcesses DEF MetricsInv, Flusher
<1>2. /\ stored.types \in [Kinds -> Nat] /\ stored.latencies \in [Buckets -> Nat]
      /\ snapshot[f].types \in [Kinds -> Nat] /\ snapshot[f].latencies \in [Buckets -> Nat]
      /\ totals.types \in [Kinds -> Nat] /\ totals.latencies \in [Buckets -> Nat]
      /\ at \in [Recorder \cup Flusher -> Stages] /\ f \in Recorder \cup Flusher
  BY <1>1 DEF MetricsTypeOK, Counts, Saved
<1>3. /\ UNCHANGED <<blocked, event, dataVars, closed, snapshot>> /\ totals' = totals
      /\ at[f] \in {"types", "latencies"} /\ f \notin blocked
  BY <1>1 DEF SaveTypes, SaveLatencies, SaveFails, lockVars, dataVars, MetricsTypeOK
<1>4. /\ at' \in [Recorder \cup Flusher -> Stages] /\ at'[f] \in {"latencies", "done", "idle"}
      /\ (f = "closer" => at'[f] \in {"latencies", "done"})
      /\ \A x \in Recorder \cup Flusher : x # f => at'[x] = at[x]
  <2>1. CASE SaveTypes(f)
    BY <1>2, <2>1 DEF SaveTypes, Stages
  <2>2. CASE SaveLatencies(f)
    BY <1>2, <2>2 DEF SaveLatencies, Stages
  <2>3. CASE SaveFails(f)
    BY <1>2, <2>3 DEF SaveFails, Stages
  <2> QED
    BY <2>1, <2>2, <2>3
<1>5. /\ stored' \in Saved /\ refused' \in BOOLEAN
      /\ TypesStored => TypesStored'
      /\ LatenciesStored => LatenciesStored'
  <2>1. CASE SaveTypes(f)
    <3> DEFINE sum == Plus(stored.types, snapshot[f].types)
    <3>1. sum \in [Kinds -> Nat] /\ \A k \in Kinds : sum[k] >= stored.types[k]
      BY <1>2, Added
    <3>2. stored' = [stored EXCEPT !.types = sum] /\ refused' = refused
      BY <2>1 DEF SaveTypes
    <3> HIDE DEF sum
    <3>3. stored' \in Saved /\ stored'.types = sum /\ stored'.latencies = stored.latencies
      BY <1>1, <3>1, <3>2 DEF MetricsTypeOK, Saved
    <3>4. TypesStored => TypesStored'
      BY <1>2, <1>3, <3>1, <3>3 DEF TypesStored
    <3> QED
      BY <1>1, <1>3, <3>2, <3>3, <3>4 DEF MetricsTypeOK, LatenciesStored
  <2>2. CASE SaveLatencies(f)
    <3> DEFINE sum == Plus(stored.latencies, snapshot[f].latencies)
    <3>1. sum \in [Buckets -> Nat] /\ \A b \in Buckets : sum[b] >= stored.latencies[b]
      BY <1>2, Added
    <3>2. stored' = [stored EXCEPT !.latencies = sum] /\ refused' = refused
      BY <2>2 DEF SaveLatencies
    <3> HIDE DEF sum
    <3>3. stored' \in Saved /\ stored'.latencies = sum /\ stored'.types = stored.types
      BY <1>1, <3>1, <3>2 DEF MetricsTypeOK, Saved
    <3>4. LatenciesStored => LatenciesStored'
      BY <1>2, <1>3, <3>1, <3>3 DEF LatenciesStored
    <3> QED
      BY <1>1, <1>3, <3>2, <3>3, <3>4 DEF MetricsTypeOK, TypesStored
  <2>3. CASE SaveFails(f)
    BY <1>1, <1>3, <2>3 DEF SaveFails, MetricsTypeOK, TypesStored, LatenciesStored
  <2> QED
    BY <2>1, <2>2, <2>3
<1>6. MetricsTypeOK'
  BY <1>1, <1>3, <1>4, <1>5 DEF MetricsTypeOK
<1>7. CASE f = "closer"
  <2>1. snapshot[f] = totals /\ (at[f] = "latencies" => TypesStored) /\ closed
    BY <1>1, <1>3, <1>7 DEF CloserKeeps
  <2>2. CASE SaveTypes(f)
    <3>1. stored'.types = Plus(stored.types, totals.types) /\ at'[f] = "latencies"
      BY <1>1, <1>2, <2>1, <2>2 DEF SaveTypes, MetricsTypeOK, Saved
    <3>2. TypesStored'
      BY <1>2, <1>3, <3>1, Added DEF TypesStored
    <3> QED
      BY <1>3, <1>7, <2>1, <3>1, <3>2, <1>1, <1>6, DataKept DEF CloserKeeps, MetricsInv
  <2>3. CASE SaveLatencies(f)
    <3>1. stored'.latencies = Plus(stored.latencies, totals.latencies) /\ at'[f] = "done" /\ at[f] = "latencies"
      BY <1>1, <1>2, <1>7, <2>1, <2>3 DEF SaveLatencies, MetricsTypeOK, Saved
    <3>2. LatenciesStored'
      BY <1>2, <1>3, <3>1, Added DEF LatenciesStored
    <3> QED
      BY <1>3, <1>5, <1>7, <2>1, <3>1, <3>2, <1>1, <1>6, DataKept DEF CloserKeeps, MetricsInv
  <2>4. CASE SaveFails(f)
    <3>1. at'[f] = "done" /\ refused'
      BY <1>2, <1>7, <2>4 DEF SaveFails
    <3> QED
      BY <1>3, <1>7, <2>1, <3>1, <1>1, <1>6, DataKept DEF CloserKeeps, MetricsInv
  <2> QED
    BY <2>2, <2>3, <2>4
<1>8. CASE f # "closer"
  <2>1. at'["closer"] = at["closer"] /\ (refused' <=> refused)
    BY <1>1, <1>4, <1>8 DEF SaveTypes, SaveLatencies, SaveFails, MetricsTypeOK
  <2>2. CloserKeeps'
    BY <1>1, <1>3, <1>5, <2>1 DEF CloserKeeps
  <2> QED
    BY <1>1, <1>3, <1>6, <2>2, DataKept DEF MetricsInv
<1> QED
  BY <1>7, <1>8

LEMMA MetricsStep == MetricsInv /\ [MetricsNext]_metricsVars => MetricsInv'
<1> SUFFICES ASSUME MetricsInv, [MetricsNext]_metricsVars  PROVE MetricsInv'
  OBVIOUS
<1>1. CASE UNCHANGED <<at, blocked, event, dataVars, closed, snapshot, stored, refused>>
  <2>1. totals' = totals /\ MetricsTypeOK /\ CloserKeeps /\ DataRight
    BY <1>1 DEF dataVars, MetricsInv
  <2>2. MetricsTypeOK' /\ CloserKeeps'
    BY <1>1, <2>1 DEF MetricsTypeOK, CloserKeeps, TypesStored, LatenciesStored
  <2> QED
    BY <1>1, <2>1, <2>2, DataKept DEF MetricsInv
<1>2. ASSUME NEW p \in Writers, Announce(p)  PROVE MetricsInv'
  BY <1>1, <1>2 DEF Announce
<1>3. CASE UNCHANGED metricsVars
  BY <1>1, <1>3 DEF metricsVars, dataVars
<1> QED
  BY <1>2, <1>3, RecorderKeeps, CloserStepKeeps, TickKeeps, ReadLockKeeps, SnapshotKeeps, SavesKeep DEF MetricsNext

\* What the metrics count is what was recorded, and a close without an error has
\* stored all of it, for any number of searches, queries and flushes.
THEOREM MetricsStayRight == MetricsSpec => []MetricsAgree
<1>1. MetricsInv => MetricsAgree
  BY DEF MetricsInv, DataRight, CountsOK, RingOK, CloserKeeps, TypesStored, LatenciesStored,
         MetricsAgree, AggregatesAgree, CloseLosesNothing
<1> QED
  BY <1>1, MetricsStart, MetricsStep, PTL DEF MetricsSpec

-----------------------------------------------------------------------------
\* A text has its vector, the zero vector where it is blank, or none.
Vector == Text \cup {Zero, Nil}
Entry  == Text \X Vector

\* The vector of a text, or none where the server may leave some out.
IsOf(t, v) == v = VectorOf(t) \/ (~honest /\ v = Nil)

\* A cache whose vectors are those of their texts.
Entries(lru) == lru \in Seq(Entry) /\ \A i \in DOMAIN lru : IsOf(lru[i][1], lru[i][2])

EmbedAt == {"idle", "asking", "storing", "done", "failed", "panicked"}

Job == [at : EmbedAt, single : BOOLEAN, texts : Seq(Text), results : Seq(Vector), asked : Seq(Nat),
        inner : Seq(Vector), pending : Seq(Nat), attempt : Nat]

\* The k-th text asked for has its vector, or none yet and is pending, or will have none.
Half(j, k) ==
    \/ j.inner[k] = VectorOf(j.texts[j.asked[k]])
    \/ j.inner[k] = Nil /\ (~honest \/ k \in Range(j.pending))

\* Of a call that looked at the cache.
LookedUp(j) ==
    /\ Len(j.results) = Len(j.texts)
    /\ \A k \in 1..Len(j.asked) : j.asked[k] \in 1..Len(j.texts)
    /\ \A i \in 1..Len(j.texts) :
          (\E k \in 1..Len(j.asked) : j.asked[k] = i) \/ IsOf(j.texts[i], j.results[i])
    /\ Len(j.inner) <= Len(j.asked)
    /\ \A k \in 1..Len(j.inner) : Half(j, k)

\* Of a call that waits for an answer: what is still to be asked for.
Asks(j) ==
    /\ Len(j.inner) = Len(j.asked)
    /\ \A i \in 1..Len(j.pending) :
          /\ j.pending[i] \in 1..Len(j.asked)
          /\ VectorOf(j.texts[j.asked[j.pending[i]]]) = j.texts[j.asked[j.pending[i]]]
    /\ client = "mlx" => Len(j.pending) = Len(j.asked) /\ \A i \in 1..Len(j.asked) : j.pending[i] = i

\* What holds of a call wherever it is.
JobInv(j) ==
    /\ j.at \in {"asking", "storing"} => LookedUp(j)
    /\ j.at = "asking" => Asks(j)
    /\ j.at = "storing" => j.pending = <<>>
    /\ j.at = "done" => Len(j.results) = Len(j.texts) /\ \A i \in 1..Len(j.texts) : IsOf(j.texts[i], j.results[i])

\* The strengthening of EmbeddingOfItsText.
EmbedInv ==
    /\ client \in {"ollama", "mlx"} /\ honest \in BOOLEAN /\ shut \in BOOLEAN
    /\ Entries(cache)
    /\ job \in [Asker -> Job] /\ \A c \in Asker : JobInv(job[c])

\* A text has a vector of its own, or the zero vector.
LEMMA VectorsAreVectors == \A t \in Text : VectorOf(t) \in Vector /\ VectorOf(t) \in {Zero, t}
BY DEF VectorOf, Vector

-----------------------------------------------------------------------------
\* The cache.

\* An entry taken out leaves the others as they are.
LEMMA WithoutOne ==
    ASSUME NEW lru, Entries(lru), NEW t
    PROVE  Entries(Without(lru, t)) /\ (Held(lru, t) => Place(lru, t) \in DOMAIN lru /\ lru[Place(lru, t)][1] = t)
<1>1. lru \in Seq(Entry) /\ DOMAIN lru = 1..Len(lru) /\ Len(lru) \in Nat /\ \A i \in DOMAIN lru : IsOf(lru[i][1], lru[i][2])
  BY DEF Entries
<1>2. ASSUME Held(lru, t)  PROVE Place(lru, t) \in DOMAIN lru /\ lru[Place(lru, t)][1] = t
  BY <1>2 DEF Held, Place
<1>3. CASE ~Held(lru, t)
  BY <1>2, <1>3 DEF Without
<1>4. CASE Held(lru, t)
  <2>1. PICK p : p = Place(lru, t)
    OBVIOUS
  <2>2. p \in 1..Len(lru)
    BY <1>1, <1>2, <1>4, <2>1
  <2>3. PICK a : a = SubSeq(lru, 1, p - 1)
    OBVIOUS
  <2>4. PICK b : b = SubSeq(lru, p + 1, Len(lru))
    OBVIOUS
  <2>5. a \in Seq(Entry) /\ Len(a) = p - 1 /\ \A i \in 1..Len(a) : a[i] = lru[i]
    BY <1>1, <2>2, <2>3
  <2>6. b \in Seq(Entry) /\ Len(b) = Len(lru) - p /\ \A i \in 1..Len(b) : b[i] = lru[p + i]
    <3>1. PICK m : m = p + 1
      OBVIOUS
    <3>2. b = SubSeq(lru, m, Len(lru)) /\ m \in 1..(Len(lru) + 1)
      BY <1>1, <2>2, <2>4, <3>1
    <3>3. b \in Seq(Entry) /\ Len(b) = Len(lru) - m + 1 /\ \A i \in 1..Len(b) : b[i] = lru[m + i - 1]
      BY <1>1, <3>2
    <3>4. \A i \in 1..Len(b) : m + i - 1 = p + i
      BY <1>1, <2>2, <3>1, <3>3
    <3> QED
      BY <1>1, <2>2, <3>1, <3>3, <3>4
  <2>7. Without(lru, t) = a \o b
    BY <1>4, <2>1, <2>3, <2>4 DEF Without, RemoveAt
  <2>8. /\ a \o b \in Seq(Entry) /\ DOMAIN (a \o b) = 1..(Len(a) + Len(b))
        /\ \A i \in 1..(Len(a) + Len(b)) : (a \o b)[i] = IF i <= Len(a) THEN a[i] ELSE b[i - Len(a)]
    BY <2>5, <2>6
  <2>9. ASSUME NEW i \in 1..(Len(a) + Len(b))  PROVE \E k \in DOMAIN lru : (a \o b)[i] = lru[k]
    <3>1. CASE i <= Len(a)
      <4>1. i \in 1..Len(a) /\ i \in DOMAIN lru
        BY <1>1, <2>2, <2>5, <2>6, <3>1
      <4>2. (a \o b)[i] = a[i]
        BY <2>8, <3>1
      <4> QED
        BY <2>5, <4>1, <4>2
    <3>2. CASE ~(i <= Len(a))
      <4>1. i - Len(a) \in 1..Len(b) /\ p + (i - Len(a)) \in DOMAIN lru
        BY <1>1, <2>2, <2>5, <2>6, <3>2
      <4> QED
        BY <2>6, <2>8, <3>2, <4>1
    <3> QED
      BY <3>1, <3>2
  <2>10. \A i \in DOMAIN (a \o b) : IsOf((a \o b)[i][1], (a \o b)[i][2])
    BY <1>1, <2>8, <2>9
  <2> QED
    BY <1>2, <2>7, <2>8, <2>10 DEF Entries
<1> QED
  BY <1>3, <1>4

\* An entry with the vector of its text may be appended.
LEMMA EntryAdded ==
    ASSUME NEW lru, Entries(lru), NEW e \in Entry, IsOf(e[1], e[2])
    PROVE  Entries(Append(lru, e))
<1>1. lru \in Seq(Entry) /\ DOMAIN lru = 1..Len(lru) /\ Len(lru) \in Nat /\ \A i \in DOMAIN lru : IsOf(lru[i][1], lru[i][2])
  BY DEF Entries
<1>2. /\ Append(lru, e) \in Seq(Entry) /\ DOMAIN Append(lru, e) = 1..(Len(lru) + 1)
      /\ \A i \in 1..Len(lru) : Append(lru, e)[i] = lru[i]
      /\ Append(lru, e)[Len(lru) + 1] = e
  BY <1>1
<1>3. \A i \in 1..(Len(lru) + 1) : i \in 1..Len(lru) \/ i = Len(lru) + 1
  BY <1>1
<1>4. \A i \in DOMAIN Append(lru, e) : IsOf(Append(lru, e)[i][1], Append(lru, e)[i][2])
  BY <1>1, <1>2, <1>3
<1> QED
  BY <1>2, <1>4 DEF Entries

\* Looking a text up and adding an entry leave every vector with its text.
LEMMA TouchKeeps == ASSUME NEW lru, Entries(lru), NEW t  PROVE Entries(Touch(lru, t))
<1>1. CASE ~Held(lru, t)
  BY <1>1 DEF Touch
<1>2. CASE Held(lru, t)
  <2>1. Entries(Without(lru, t)) /\ Place(lru, t) \in DOMAIN lru
    BY <1>2, WithoutOne
  <2>2. lru[Place(lru, t)] \in Entry /\ IsOf(lru[Place(lru, t)][1], lru[Place(lru, t)][2])
    BY <2>1 DEF Entries
  <2> QED
    BY <1>2, <2>1, <2>2, EntryAdded DEF Touch
<1> QED
  BY <1>1, <1>2

LEMMA StoreKeeps == ASSUME NEW lru, Entries(lru), NEW e \in Entry, IsOf(e[1], e[2])  PROVE Entries(Store(lru, e))
<1> DEFINE grown == Append(Without(lru, e[1]), e)
<1>1. Entries(grown)
  BY WithoutOne, EntryAdded
<1>2. Store(lru, e) = IF Len(grown) > CacheSize THEN Tail(grown) ELSE grown
  BY DEF Store
<1> HIDE DEF grown
<1>3. ASSUME Len(grown) > CacheSize  PROVE Entries(Tail(grown))
  <2>1. grown \in Seq(Entry) /\ Len(grown) > 0 /\ DOMAIN grown = 1..Len(grown)
    BY <1>1, <1>3, EmbeddingAssumption DEF Entries
  <2>2. /\ Tail(grown) \in Seq(Entry) /\ DOMAIN Tail(grown) = 1..(Len(grown) - 1)
        /\ \A i \in 1..(Len(grown) - 1) : Tail(grown)[i] = grown[i + 1] /\ i + 1 \in DOMAIN grown
    BY <2>1
  <2> QED
    BY <1>1, <2>2 DEF Entries
<1> QED
  BY <1>1, <1>2, <1>3

Repeats(f, n, base, onto) == f[0] = base /\ \A i \in 1..n : f[i] = onto[i][f[i - 1]]

\* What is repeated N times, each time from what it made before.
LEMMA Repeated ==
    ASSUME NEW N \in Nat, NEW S, NEW base \in S, NEW onto \in [1..N -> [S -> S]]
    PROVE  \E f \in [0..N -> S] : Repeats(f, N, base, onto)
<1> DEFINE Good(m) == \E f \in [0..m -> S] : f[0] = base /\ \A n \in 1..m : f[n] = onto[n][f[n - 1]]
           bad == {m \in 0..N : ~Good(m)}
<1>0. SUFFICES Good(N)
  BY DEF Repeats
<1>1. SUFFICES ASSUME bad # {}  PROVE FALSE
  <2> HIDE DEF Good
  <2> QED
    OBVIOUS
<1>2. PICK m \in bad : \A k \in bad : m <= k
  <2>1. bad \in SUBSET Nat
    OBVIOUS
  <2> HIDE DEF bad
  <2> QED
    BY <1>1, <2>1, LeastIsThere
<1>3. m \in 0..N /\ ~Good(m)
  OBVIOUS
<1>4. CASE m = 0
  <2> DEFINE f == [n \in 0..0 |-> base]
  <2>1. f \in [0..m -> S] /\ f[0] = base /\ \A n \in 1..m : f[n] = onto[n][f[n - 1]]
    BY <1>4
  <2> HIDE DEF f
  <2> QED
    BY <1>3, <2>1
<1>5. CASE m # 0
  <2>1. m - 1 \in 0..N /\ m \in 1..N
    BY <1>3, <1>5
  <2>2. Good(m - 1)
    <3> HIDE DEF Good
    <3>1. ~(m <= m - 1)
      BY <2>1
    <3> QED
      BY <1>2, <2>1, <3>1
  <2>3. PICK f \in [0..(m - 1) -> S] : f[0] = base /\ \A n \in 1..(m - 1) : f[n] = onto[n][f[n - 1]]
    BY <2>2
  <2> DEFINE g == [n \in 0..m |-> IF n = m THEN onto[m][f[m - 1]] ELSE f[n]]
  <2>4. onto[m][f[m - 1]] \in S
    BY <2>1, <2>3
  <2>5. g \in [0..m -> S]
    BY <2>1, <2>3, <2>4
  <2>6. g[0] = base
    BY <2>1, <2>3
  <2>7. \A n \in 1..m : g[n] = onto[n][g[n - 1]]
    <3> SUFFICES ASSUME NEW n \in 1..m  PROVE g[n] = onto[n][g[n - 1]]
      OBVIOUS
    <3>1. CASE n = m
      BY <2>1, <3>1
    <3>2. CASE n # m
      BY <2>1, <2>3, <3>2
    <3> QED
      BY <3>1, <3>2
  <2> HIDE DEF g
  <2> QED
    BY <1>3, <2>5, <2>6, <2>7
<1> QED
  BY <1>4, <1>5

\* What every step keeps is there in the end.
LEMMA RepeatedKeeps ==
    ASSUME NEW N \in Nat, NEW S, NEW g, g[0] \in S,
           \A n \in 1..N : g[n - 1] \in S => g[n] \in S
    PROVE  \A n \in 0..N : g[n] \in S
<1> DEFINE bad == {n \in 0..N : g[n] \notin S}
<1>1. SUFFICES ASSUME bad # {}  PROVE FALSE
  OBVIOUS
<1>2. PICK m \in bad : \A k \in bad : m <= k
  <2>1. bad \in SUBSET Nat
    OBVIOUS
  <2> HIDE DEF bad
  <2> QED
    BY <1>1, <2>1, LeastIsThere
<1>3. m \in 1..N /\ g[m] \notin S
  OBVIOUS
<1>4. m - 1 \in 0..N /\ m - 1 \notin bad
  BY <1>2, <1>3
<1> QED
  BY <1>3, <1>4

\* So do looking all the texts up and storing all the entries.
LEMMA TouchedKeeps == ASSUME NEW lru, Entries(lru), NEW texts, Len(texts) \in Nat  PROVE Entries(Touched(lru, texts))
<1>1. PICK N \in Nat : N = Len(texts)
  OBVIOUS
<1> DEFINE S == {l \in Seq(Entry) : Entries(l)}
           Value(f, n) == IF n = 0 THEN lru ELSE Touch(f[n - 1], texts[n])
           Follows(f) == f = [n \in 0..N |-> Value(f, n)]
           g == CHOOSE g : Follows(g)
           onto == [n \in 1..N |-> [l \in S |-> Touch(l, texts[n])]]
<1>2. Touched(lru, texts) = g[N]
  BY <1>1, Zenon DEF Touched
<1>3. lru \in S /\ \A l : l \in S <=> Entries(l)
  BY DEF Entries
<1>4. onto \in [1..N -> [S -> S]]
  BY <1>3, TouchKeeps
<1>40. \A n \in 1..N, l \in S : onto[n][l] = Touch(l, texts[n])
  OBVIOUS
<1> HIDE DEF S, onto
<1>41. \E f \in [0..N -> S] : Repeats(f, N, lru, onto)
  BY <1>3, <1>4, Repeated
<1>5. PICK f \in [0..N -> S] : f[0] = lru /\ \A n \in 1..N : f[n] = onto[n][f[n - 1]]
  BY <1>41 DEF Repeats
<1>6. \A n \in 1..N : f[n - 1] \in S /\ f[n] = Touch(f[n - 1], texts[n])
  BY <1>40, <1>5
<1>7. Follows(f)
  <2>1. ASSUME NEW n \in 0..N  PROVE f[n] = Value(f, n)
    <3>1. n = 0 \/ n \in 1..N
      OBVIOUS
    <3> QED
      BY <1>5, <1>6, <3>1
  <2> HIDE DEF Value
  <2> QED
    BY <2>1
<1> HIDE DEF g
<1>8. Follows(g)
  BY <1>7, Zenon DEF g
<1>9. g[0] = lru /\ \A n \in 1..N : g[n] = Touch(g[n - 1], texts[n])
  BY <1>8
<1>10. \A n \in 1..N : g[n - 1] \in S => g[n] \in S
  BY <1>3, <1>9, TouchKeeps
<1>11. g[0] \in S
  BY <1>3, <1>9
<1>12. \A n \in 0..N : g[n] \in S
  BY <1>10, <1>11, RepeatedKeeps
<1> QED
  BY <1>2, <1>3, <1>12

LEMMA StoredKeeps ==
    ASSUME NEW lru, Entries(lru), NEW entries, Len(entries) \in Nat,
           \A n \in 1..Len(entries) : entries[n] \in Entry /\ IsOf(entries[n][1], entries[n][2])
    PROVE  Entries(Stored(lru, entries))
<1>1. PICK N \in Nat : N = Len(entries)
  OBVIOUS
<1> DEFINE S == {l \in Seq(Entry) : Entries(l)}
           Value(f, n) == IF n = 0 THEN lru ELSE Store(f[n - 1], entries[n])
           Follows(f) == f = [n \in 0..N |-> Value(f, n)]
           g == CHOOSE g : Follows(g)
           onto == [n \in 1..N |-> [l \in S |-> Store(l, entries[n])]]
<1>2. Stored(lru, entries) = g[N]
  BY <1>1, Zenon DEF Stored
<1>3. lru \in S /\ \A l : l \in S <=> Entries(l)
  BY DEF Entries
<1>30. ASSUME NEW n \in 1..N, NEW l \in S  PROVE Store(l, entries[n]) \in S
  BY <1>1, <1>3, <1>30, StoreKeeps
<1>4. onto \in [1..N -> [S -> S]]
  BY <1>30
<1>40. \A n \in 1..N, l \in S : onto[n][l] = Store(l, entries[n])
  OBVIOUS
<1> HIDE DEF S, onto
<1>41. \E f \in [0..N -> S] : Repeats(f, N, lru, onto)
  BY <1>3, <1>4, Repeated
<1>5. PICK f \in [0..N -> S] : f[0] = lru /\ \A n \in 1..N : f[n] = onto[n][f[n - 1]]
  BY <1>41 DEF Repeats
<1>6. \A n \in 1..N : f[n - 1] \in S /\ f[n] = Store(f[n - 1], entries[n])
  BY <1>40, <1>5
<1>7. Follows(f)
  <2>1. ASSUME NEW n \in 0..N  PROVE f[n] = Value(f, n)
    <3>1. n = 0 \/ n \in 1..N
      OBVIOUS
    <3> QED
      BY <1>5, <1>6, <3>1
  <2> HIDE DEF Value
  <2> QED
    BY <2>1
<1> HIDE DEF g
<1>8. Follows(g)
  BY <1>7, Zenon DEF g
<1>9. g[0] = lru /\ \A n \in 1..N : g[n] = Store(g[n - 1], entries[n])
  BY <1>8
<1>10. \A n \in 1..N : g[n - 1] \in S => g[n] \in S
  BY <1>9, <1>30
<1>11. g[0] \in S
  BY <1>3, <1>9
<1>12. \A n \in 0..N : g[n] \in S
  BY <1>10, <1>11, RepeatedKeeps
<1> QED
  BY <1>2, <1>3, <1>12

\* The positions are those wanted; where all are, each is at its own place.
LEMMA PositionsAreWanted ==
    ASSUME NEW n \in Nat, NEW wanted \in SUBSET (1..n)
    PROVE  /\ Positions(n, wanted) \in Seq(Nat)
           /\ Range(Positions(n, wanted)) = wanted
           /\ wanted = 1..n => Len(Positions(n, wanted)) = n /\ \A i \in 1..n : Positions(n, wanted)[i] = i
<1> DEFINE Next(s, i) == IF i \in wanted THEN Append(s, i) ELSE s
           Value(f, i) == IF i = 0 THEN <<>> ELSE IF i \in wanted THEN Append(f[i - 1], i) ELSE f[i - 1]
           Follows(f) == f = [i \in 0..n |-> Value(f, i)]
           g == CHOOSE g : Follows(g)
           onto == [i \in 1..n |-> [s \in Seq(Nat) |-> Next(s, i)]]
<1>1. Positions(n, wanted) = g[n]
  BY Zenon DEF Positions
<1>2. onto \in [1..n -> [Seq(Nat) -> Seq(Nat)]]
  <2>1. \A i \in 1..n, s \in Seq(Nat) : Next(s, i) \in Seq(Nat)
    OBVIOUS
  <2> HIDE DEF Next
  <2> QED
    BY <2>1
<1>20. \A i \in 1..n, s \in Seq(Nat) : onto[i][s] = Next(s, i)
  <2> HIDE DEF Next
  <2> QED
    OBVIOUS
<1>21. ASSUME NEW h  PROVE Value(h, 0) = <<>> /\ \A i \in 1..n : Value(h, i) = Next(h[i - 1], i)
  OBVIOUS
<1>22. <<>> \in Seq(Nat) /\ \A i \in 0..n : i = 0 \/ i \in 1..n
  OBVIOUS
<1> HIDE DEF Next, Value, onto
<1>3. PICK f \in [0..n -> Seq(Nat)] : f[0] = <<>> /\ \A i \in 1..n : f[i] = onto[i][f[i - 1]]
  <2>1. PICK S : S = Seq(Nat)
    OBVIOUS
  <2>2. \E f \in [0..n -> S] : Repeats(f, n, <<>>, onto)
    BY <1>2, <1>22, <2>1, Repeated
  <2> QED
    BY <2>1, <2>2 DEF Repeats
<1>4. \A i \in 1..n : f[i] = Next(f[i - 1], i)
  <2>1. \A i \in 1..n : f[i - 1] \in Seq(Nat)
    BY <1>3
  <2> QED
    BY <1>3, <1>20, <2>1
<1>5. Follows(f)
  <2>1. \A i \in 0..n : f[i] = Value(f, i)
    BY <1>3, <1>4, <1>21, <1>22
  <2> QED
    BY <2>1
<1> HIDE DEF g
<1>6. Follows(g)
  BY <1>5, Zenon DEF g
<1>60. \A i \in 0..n : g[i] = Value(g, i)
  BY <1>6
<1>7. g[0] = <<>> /\ \A i \in 1..n : g[i] = Next(g[i - 1], i)
  <2>1. 0 \in 0..n /\ \A i \in 1..n : i \in 0..n
    OBVIOUS
  <2> QED
    BY <1>21, <1>60, <2>1
<1> USE DEF Next
<1> DEFINE Good(i) ==
             /\ g[i] \in Seq(Nat) /\ Range(g[i]) = wanted \cap (1..i)
             /\ wanted = 1..n => Len(g[i]) = i /\ \A k \in 1..i : g[i][k] = k
           bad == {i \in 0..n : ~Good(i)}
<1>8. Good(0)
  <2>1. Range(<<>>) = {} /\ Len(<<>>) = 0 /\ <<>> \in Seq(Nat) /\ 1..0 = {}
    BY DEF Range
  <2> QED
    BY <1>7, <2>1
<1>9. ASSUME NEW i \in 1..n, Good(i - 1)  PROVE Good(i)
  <2>1. PICK s : s = g[i - 1]
    OBVIOUS
  <2>2. s \in Seq(Nat) /\ Range(s) = wanted \cap (1..(i - 1)) /\ (wanted = 1..n => Len(s) = i - 1 /\ \A k \in 1..(i - 1) : s[k] = k)
    BY <1>9, <2>1
  <2>3. CASE i \in wanted
    <3>1. g[i] = Append(s, i)
      BY <1>7, <2>1, <2>3
    <3>2. /\ DOMAIN Append(s, i) = 1..(Len(s) + 1) /\ DOMAIN s = 1..Len(s) /\ Len(s) \in Nat
          /\ \A k \in 1..Len(s) : Append(s, i)[k] = s[k]
          /\ Append(s, i)[Len(s) + 1] = i /\ Append(s, i) \in Seq(Nat)
      BY <2>2
    <3>3. Range(Append(s, i)) = Range(s) \cup {i}
      <4>1. \A k \in 1..(Len(s) + 1) : k \in 1..Len(s) \/ k = Len(s) + 1
        BY <3>2
      <4>2. \A x : x \in Range(Append(s, i)) <=> \E k \in 1..(Len(s) + 1) : Append(s, i)[k] = x
        BY <3>2 DEF Range
      <4>3. \A x : x \in Range(s) <=> \E k \in 1..Len(s) : s[k] = x
        BY <3>2 DEF Range
      <4> QED
        BY <3>2, <4>1, <4>2, <4>3
    <3>4. Range(g[i]) = wanted \cap (1..i)
      BY <2>2, <2>3, <3>1, <3>3
    <3>5. ASSUME wanted = 1..n  PROVE Len(g[i]) = i /\ \A k \in 1..i : g[i][k] = k
      <4>1. \A k \in 1..(i - 1) : s[k] = k
        BY <2>2, <3>5
      <4>2. Len(s) = i - 1
        BY <2>2, <3>5
      <4>3. DOMAIN Append(s, i) = 1..i /\ \A k \in 1..i : Append(s, i)[k] = k
        BY <3>2, <4>1, <4>2
      <4> QED
        BY <3>1, <3>2, <4>1, <4>2, <4>3
    <3> QED
      BY <3>1, <3>2, <3>4, <3>5
  <2>4. CASE i \notin wanted
    <3>1. g[i] = s
      BY <1>7, <2>1, <2>4
    <3>2. wanted \cap (1..i) = wanted \cap (1..(i - 1)) /\ wanted # 1..n
      BY <2>4
    <3> QED
      BY <2>2, <3>1, <3>2
  <2> QED
    BY <2>3, <2>4
<1>10. Good(n)
  <2> HIDE DEF Good
  <2>0. n \in 0..n
    OBVIOUS
  <2>1. SUFFICES ASSUME bad # {}  PROVE FALSE
    BY <2>0
  <2>2. PICK m \in bad : \A k \in bad : m <= k
    <3>1. bad \in SUBSET Nat
      OBVIOUS
    <3> HIDE DEF bad
    <3> QED
      BY <2>1, <3>1, LeastIsThere
  <2>3. m \in 1..n
    BY <1>8
  <2>4. m - 1 \in 0..n /\ m - 1 \notin bad
    BY <2>2, <2>3
  <2> QED
    BY <1>9, <2>3, <2>4
<1> QED
  BY <1>1, <1>10

-----------------------------------------------------------------------------

\* Nothing is cached and nobody asks at first.
LEMMA EmbedStart == EmbedInit => EmbedInv
<1> SUFFICES ASSUME EmbedInit  PROVE EmbedInv
  OBVIOUS
<1>1. Entries(<<>>)
  BY DEF Entries
<1>2. NoJob \in Job /\ NoJob.at = "idle"
  BY DEF NoJob, Job, EmbedAt
<1>3. JobInv(NoJob)
  BY <1>2 DEF JobInv
<1> QED
  BY <1>1, <1>2, <1>3 DEF EmbedInit, EmbedInv

\* A step of one caller that leaves the others alone.
LEMMA OneJob ==
    ASSUME EmbedInv, NEW c \in Asker, NEW j \in Job, job' = [job EXCEPT ![c] = j], UNCHANGED <<client, honest>>,
           shut' \in BOOLEAN, Entries(cache'), JobInv(j)
    PROVE  EmbedInv'
<1>1. \A t : VectorOf(t)' = VectorOf(t)
  BY DEF VectorOf
<1>2. \A t, v : IsOf(t, v)' = IsOf(t, v)
  BY <1>1 DEF IsOf
<1>3. Entries(cache)' = Entries(cache')
  BY <1>2 DEF Entries
<1>4. job' \in [Asker -> Job] /\ \A d \in Asker : job'[d] = IF d = c THEN j ELSE job[d]
  BY DEF EmbedInv
<1>5. \A d \in Asker : JobInv(job'[d])
  BY <1>4 DEF EmbedInv
<1>6. \A d \in Asker : JobInv(job[d])' = JobInv(job'[d])
  BY <1>1, <1>2 DEF JobInv, LookedUp, Half, Asks
<1> QED
  BY <1>3, <1>4, <1>5, <1>6 DEF EmbedInv

\* A failed attempt takes nothing back: what was placed stays, the rest is still pending.
LEMMA EmbedFails == ASSUME EmbedInv, NEW c \in Asker, RequestFails(c) \/ Cancel(c)  PROVE EmbedInv'
<1>1. job[c] \in Job /\ job \in [Asker -> Job] /\ JobInv(job[c]) /\ job[c].at = "asking" /\ Entries(cache)
      /\ shut \in BOOLEAN
  BY DEF EmbedInv, RequestFails, Cancel
<1>2. UNCHANGED <<client, honest, cache, shut>>
  BY DEF RequestFails, Cancel
<1>3. ASSUME job' = [job EXCEPT ![c].at = "failed"]  PROVE EmbedInv'
  <2>1. PICK j : j = [job[c] EXCEPT !.at = "failed"]
    OBVIOUS
  <2>2. job' = [job EXCEPT ![c] = j] /\ j \in Job /\ j.at = "failed"
    BY <1>1, <1>3, <2>1 DEF Job, EmbedAt
  <2>3. JobInv(j)
    BY <2>2 DEF JobInv
  <2> QED
    BY <1>1, <1>2, <2>2, <2>3, OneJob
<1>4. ASSUME AttemptFails(c)  PROVE EmbedInv'
  <2>0. PICK stage \in {"failed", "asking"} :
          job' = [job EXCEPT ![c].attempt = @ + 1, ![c].at = stage]
    <3>1. CASE job[c].attempt + 1 >= MaxAttempts
      BY <1>1, <1>4, <3>1 DEF AttemptFails
    <3>2. CASE ~(job[c].attempt + 1 >= MaxAttempts)
      BY <1>1, <1>4, <3>2 DEF AttemptFails, Job
    <3> QED
      BY <3>1, <3>2
  <2>10. PICK J \in Job : J = job[c]
    BY <1>1
  <2>1. PICK j : j = [J EXCEPT !.attempt = J.attempt + 1, !.at = stage]
    OBVIOUS
  <2>2. job' = [job EXCEPT ![c] = j]
    BY <1>1, <2>0, <2>1, <2>10 DEF Job
  <2>3. /\ j \in Job /\ j.at \in {"failed", "asking"} /\ j.texts = job[c].texts /\ j.results = job[c].results
        /\ j.asked = job[c].asked /\ j.inner = job[c].inner /\ j.pending = job[c].pending
    <3>1. PICK n \in Nat : n = J.attempt + 1
      BY <2>10 DEF Job
    <3>2. PICK K : K = [J EXCEPT !.attempt = n]
      OBVIOUS
    <3>3. /\ K \in Job /\ K.texts = J.texts /\ K.results = J.results
          /\ K.asked = J.asked /\ K.inner = J.inner /\ K.pending = J.pending
      BY <2>10, <3>1, <3>2 DEF Job
    <3>4. j = [K EXCEPT !.at = stage]
      BY <2>1, <3>1, <3>2
    <3>5. /\ j \in Job /\ j.at = stage /\ j.texts = K.texts /\ j.results = K.results
          /\ j.asked = K.asked /\ j.inner = K.inner /\ j.pending = K.pending
      BY <3>3, <3>4 DEF Job, EmbedAt
    <3> QED
      BY <2>10, <3>3, <3>5
  <2>4. JobInv(j)
    <3>1. CASE j.at = "failed"
      BY <3>1 DEF JobInv
    <3>2. CASE j.at = "asking"
      BY <1>1, <2>3, <3>2 DEF JobInv, LookedUp, Half, Asks
    <3> QED
      BY <2>3, <3>1, <3>2
  <2> QED
    BY <1>1, <1>2, <2>2, <2>3, <2>4, OneJob
<1> QED
  BY <1>3, <1>4 DEF RequestFails, Cancel, MLXSingleFails

\* The batch and the rest are what is pending.
LEMMA BatchAndRest ==
    ASSUME NEW j \in Job
    PROVE  /\ Batch(j) \in Seq(Nat) /\ Rest(j) \in Seq(Nat) /\ Len(Batch(j)) <= Len(j.pending)
           /\ Len(Rest(j)) = Len(j.pending) - Len(Batch(j))
           /\ \A i \in 1..Len(Batch(j)) : Batch(j)[i] = j.pending[i]
           /\ \A i \in 1..Len(Rest(j)) : Rest(j)[i] = j.pending[Len(Batch(j)) + i]
           /\ client # "ollama" => Batch(j) = j.pending
           /\ Range(j.pending) = Range(Batch(j)) \cup Range(Rest(j))
<1>1. PICK p \in Seq(Nat) : p = j.pending
  BY DEF Job
<1>2. PICK b : b = Batch(j)
  OBVIOUS
<1>3. PICK q : q = Rest(j)
  OBVIOUS
<1>4. Len(p) \in Nat /\ DOMAIN p = 1..Len(p)
  OBVIOUS
<1>5. /\ b \in Seq(Nat) /\ Len(b) <= Len(p) /\ \A i \in 1..Len(b) : b[i] = p[i]
      /\ client # "ollama" => b = p
  <2>1. CASE client = "ollama" /\ Len(p) > BatchSize
    <3>1. b = SubSeq(p, 1, BatchSize)
      BY <1>1, <1>2, <2>1 DEF Batch
    <3> QED
      BY <1>4, <2>1, <3>1, EmbeddingAssumption
  <2>2. CASE ~(client = "ollama" /\ Len(p) > BatchSize)
    <3>1. b = p
      BY <1>1, <1>2, <2>2 DEF Batch
    <3> QED
      BY <1>4, <3>1
  <2> QED
    BY <2>1, <2>2
<1>6. Len(b) \in Nat /\ DOMAIN b = 1..Len(b)
  BY <1>5
<1>7. q \in Seq(Nat) /\ Len(q) = Len(p) - Len(b) /\ \A i \in 1..Len(q) : q[i] = p[Len(b) + i]
  <2>1. PICK m : m = Len(b) + 1
    OBVIOUS
  <2>2. q = SubSeq(p, m, Len(p)) /\ m \in 1..(Len(p) + 1)
    BY <1>1, <1>2, <1>3, <1>4, <1>5, <1>6, <2>1 DEF Rest
  <2>3. q \in Seq(Nat) /\ Len(q) = Len(p) - m + 1 /\ \A i \in 1..Len(q) : q[i] = p[m + i - 1]
    BY <1>4, <2>2
  <2>4. Len(q) = Len(p) - Len(b)
    <3>1. Len(q) = Len(p) - m + 1
      BY <2>3
    <3> QED
      BY <1>4, <1>6, <2>1, <3>1
  <2>5. ASSUME NEW i \in 1..Len(q)  PROVE q[i] = p[Len(b) + i]
    <3>1. q[i] = p[m + i - 1] /\ i \in Int
      BY <2>3, <2>5
    <3>2. m + i - 1 = Len(b) + i
      BY <1>6, <2>1, <3>1
    <3> QED
      BY <3>1, <3>2
  <2> QED
    BY <2>3, <2>4, <2>5
<1>8. Range(p) = Range(b) \cup Range(q)
  <2>1. DOMAIN q = 1..Len(q) /\ Len(q) \in Nat
    BY <1>7
  <2>2. \A i \in 1..Len(p) : i \in 1..Len(b) \/ i - Len(b) \in 1..Len(q)
    BY <1>4, <1>6, <1>7
  <2>3. \A i \in 1..Len(p) : (i \in 1..Len(b) /\ p[i] = b[i]) \/ (i - Len(b) \in 1..Len(q) /\ p[i] = q[i - Len(b)])
    BY <1>4, <1>5, <1>6, <1>7, <2>2
  <2>4. \A i \in 1..Len(b) : i \in 1..Len(p) /\ p[i] = b[i]
    BY <1>4, <1>5, <1>6
  <2>5. \A i \in 1..Len(q) : Len(b) + i \in 1..Len(p) /\ p[Len(b) + i] = q[i]
    BY <1>4, <1>6, <1>7
  <2>6. /\ \A x : x \in Range(p) <=> \E i \in 1..Len(p) : p[i] = x
        /\ \A x : x \in Range(b) <=> \E i \in 1..Len(b) : b[i] = x
        /\ \A x : x \in Range(q) <=> \E i \in 1..Len(q) : q[i] = x
    BY <1>4, <1>6, <2>1 DEF Range
  <2> QED
    BY <2>3, <2>4, <2>5, <2>6
<1> QED
  BY <1>1, <1>2, <1>3, <1>5, <1>7, <1>8

\* What an answer is: the vectors of the first texts of the batch, of all if it is honest.
LEMMA AnswersAreVectors ==
    ASSUME NEW j \in Job, LookedUp(j), Asks(j), NEW vectors \in Answers(j)
    PROVE  /\ vectors \in Seq(Vector) /\ Len(vectors) <= Len(Batch(j)) /\ (honest => Len(vectors) = Len(Batch(j)))
           /\ \A i \in 1..Len(vectors) :
                 /\ Batch(j)[i] \in 1..Len(j.asked)
                 /\ vectors[i] = VectorOf(j.texts[j.asked[Batch(j)[i]]])
<1>1. PICK k \in 0..Len(Batch(j)) :
        vectors = [i \in 1..k |-> j.texts[j.asked[Batch(j)[i]]]] /\ (honest => k = Len(Batch(j)))
  <2>1. Len(Batch(j)) \in Nat
    BY BatchAndRest
  <2> QED
    BY <2>1 DEF Answers
<1>2. /\ Len(Batch(j)) \in Nat /\ Len(j.pending) \in Nat /\ Len(Batch(j)) <= Len(j.pending)
      /\ \A i \in 1..Len(Batch(j)) : Batch(j)[i] = j.pending[i]
  <2>1. j.pending \in Seq(Nat)
    BY DEF Job
  <2> QED
    BY <2>1, BatchAndRest
<1>3. ASSUME NEW i \in 1..k
      PROVE  /\ Batch(j)[i] \in 1..Len(j.asked) /\ j.texts[j.asked[Batch(j)[i]]] \in Text
             /\ VectorOf(j.texts[j.asked[Batch(j)[i]]]) = j.texts[j.asked[Batch(j)[i]]]
  <2>1. i \in 1..Len(j.pending) /\ Batch(j)[i] = j.pending[i]
    BY <1>1, <1>2, <1>3
  <2>2. /\ j.pending[i] \in 1..Len(j.asked)
        /\ VectorOf(j.texts[j.asked[j.pending[i]]]) = j.texts[j.asked[j.pending[i]]]
    BY <2>1 DEF Asks
  <2>3. j.asked[j.pending[i]] \in 1..Len(j.texts)
    BY <2>2 DEF LookedUp
  <2>4. j.texts \in Seq(Text)
    BY DEF Job
  <2>5. j.texts[j.asked[j.pending[i]]] \in Text
    BY <2>3, <2>4
  <2> QED
    BY <2>1, <2>2, <2>5
<1>4. vectors \in [1..k -> Vector] /\ k \in Nat
  BY <1>1, <1>3, <1>2 DEF Vector
<1>5. vectors \in Seq(Vector) /\ Len(vectors) = k
  BY <1>4
<1> QED
  BY <1>1, <1>2, <1>3, <1>5

\* What is placed is the vector of the text at its place, or what was there.
LEMMA PlacedIsHalf ==
    ASSUME NEW j \in Job, LookedUp(j), Asks(j), NEW vectors \in Answers(j), NEW k \in 1..Len(j.inner)
    PROVE  /\ DOMAIN Placed(j, vectors) = 1..Len(j.inner) /\ Placed(j, vectors)[k] \in Vector
           /\ \/ Placed(j, vectors)[k] = VectorOf(j.texts[j.asked[k]])
              \/ Placed(j, vectors)[k] = Nil /\ (~honest \/ k \in Range(Rest(j)))
<1>1. j.inner \in Seq(Vector) /\ DOMAIN j.inner = 1..Len(j.inner)
  BY DEF Job
<1>2. DOMAIN Placed(j, vectors) = 1..Len(j.inner)
  BY <1>1 DEF Placed
<1>3. /\ vectors \in Seq(Vector) /\ DOMAIN vectors = 1..Len(vectors) /\ Len(vectors) \in Nat
      /\ Len(vectors) <= Len(Batch(j)) /\ (honest => Len(vectors) = Len(Batch(j)))
      /\ \A i \in 1..Len(vectors) :
            /\ Batch(j)[i] \in 1..Len(j.asked)
            /\ vectors[i] = VectorOf(j.texts[j.asked[Batch(j)[i]]])
  BY AnswersAreVectors
<1>4. CASE \E i \in DOMAIN vectors : Batch(j)[i] = k
  <2>1. PICK i \in DOMAIN vectors : Batch(j)[i] = k /\ Placed(j, vectors)[k] = vectors[i]
    <3>1. Placed(j, vectors)[k] = vectors[CHOOSE i \in DOMAIN vectors : Batch(j)[i] = k]
      BY <1>1, <1>4 DEF Placed
    <3> QED
      BY <1>4, <3>1
  <2>2. vectors[i] = VectorOf(j.texts[j.asked[k]]) /\ vectors[i] \in Vector
    BY <1>3, <2>1
  <2> QED
    BY <1>2, <2>1, <2>2
<1>5. CASE ~\E i \in DOMAIN vectors : Batch(j)[i] = k
  <2>1. Placed(j, vectors)[k] = j.inner[k] /\ j.inner[k] \in Vector
    BY <1>1, <1>5 DEF Placed
  <2>2. Half(j, k)
    BY DEF LookedUp
  <2>3. Range(j.pending) = Range(Batch(j)) \cup Range(Rest(j)) /\ Batch(j) \in Seq(Nat)
    BY BatchAndRest
  <2>4. honest => k \notin Range(Batch(j))
    <3>1. ASSUME honest, NEW i \in DOMAIN Batch(j), Batch(j)[i] = k  PROVE FALSE
      <4>1. i \in DOMAIN vectors
        BY <1>3, <2>3, <3>1
      <4> QED
        BY <1>5, <3>1, <4>1
    <3> QED
      BY <3>1 DEF Range
  <2> QED
    BY <1>2, <2>1, <2>2, <2>3, <2>4 DEF Half
<1> QED
  BY <1>4, <1>5

\* What came is at the positions of its texts, and those left out are pending or
\* have no vector any more.
LEMMA EmbedOllama == ASSUME EmbedInv, NEW c \in Asker, OllamaAnswer(c)  PROVE EmbedInv'
<1>1. PICK j : j = job[c]
  OBVIOUS
<1>2. /\ j \in Job /\ job \in [Asker -> Job] /\ j.at = "asking" /\ LookedUp(j) /\ Asks(j) /\ Entries(cache)
      /\ shut \in BOOLEAN
  BY <1>1 DEF EmbedInv, OllamaAnswer, JobInv
<1>3. client = "ollama" /\ UNCHANGED <<client, honest, cache, shut>>
  BY DEF OllamaAnswer
<1>4. PICK vectors \in Answers(j) :
        job' = [job EXCEPT ![c] =
                IF j.single /\ vectors = <<>> THEN [j EXCEPT !.at = "failed"]
                ELSE [j EXCEPT !.inner = Placed(j, vectors), !.pending = Rest(j), !.attempt = 0,
                               !.at = IF Rest(j) /= <<>> THEN "asking" ELSE "storing"]]
  BY <1>1 DEF OllamaAnswer
<1>5. CASE j.single /\ vectors = <<>>
  <2>1. PICK i : i = [j EXCEPT !.at = "failed"]
    OBVIOUS
  <2>2. job' = [job EXCEPT ![c] = i] /\ i \in Job /\ i.at = "failed"
    BY <1>2, <1>4, <1>5, <2>1 DEF Job, EmbedAt
  <2>3. JobInv(i)
    BY <2>2 DEF JobInv
  <2> QED
    BY <1>2, <1>3, <2>2, <2>3, OneJob
<1>6. CASE ~(j.single /\ vectors = <<>>)
  <2>1. PICK new : new = Placed(j, vectors)
    OBVIOUS
  <2>2. PICK rest : rest = Rest(j)
    OBVIOUS
  <2>3. PICK stage : stage = IF rest /= <<>> THEN "asking" ELSE "storing"
    OBVIOUS
  <2>4. PICK i : i = [j EXCEPT !.inner = new, !.pending = rest, !.attempt = 0, !.at = stage]
    OBVIOUS
  <2>5. job' = [job EXCEPT ![c] = i]
    BY <1>4, <1>6, <2>1, <2>2, <2>3, <2>4
  <2>6. j.inner \in Seq(Vector) /\ Len(j.inner) \in Nat /\ Len(j.inner) = Len(j.asked)
    BY <1>2 DEF Job, Asks
  <2>7. /\ DOMAIN new = 1..Len(j.inner) /\ new = [k \in DOMAIN new |-> new[k]]
        /\ \A k \in 1..Len(j.inner) :
              /\ new[k] \in Vector
              /\ \/ new[k] = VectorOf(j.texts[j.asked[k]])
                 \/ new[k] = Nil /\ (~honest \/ k \in Range(rest))
    <3>1. DOMAIN new = 1..Len(j.inner) /\ new = [k \in DOMAIN new |-> new[k]]
      BY <2>1, <2>6 DEF Placed
    <3> QED
      BY <1>2, <2>1, <2>2, <3>1, PlacedIsHalf
  <2>8. new \in Seq(Vector) /\ Len(new) = Len(j.inner)
    <3>1. new \in [1..Len(j.inner) -> Vector]
      BY <2>7
    <3> QED
      BY <2>6, <3>1
  <2>9. /\ rest \in Seq(Nat) /\ Len(rest) = Len(j.pending) - Len(Batch(j)) /\ Len(Batch(j)) \in Nat
        /\ Len(j.pending) \in Nat
        /\ \A n \in 1..Len(rest) : rest[n] = j.pending[Len(Batch(j)) + n]
    <3>1. j.pending \in Seq(Nat)
      BY <1>2 DEF Job
    <3>2. /\ Batch(j) \in Seq(Nat) /\ Rest(j) \in Seq(Nat)
          /\ Len(Rest(j)) = Len(j.pending) - Len(Batch(j))
          /\ \A n \in 1..Len(Rest(j)) : Rest(j)[n] = j.pending[Len(Batch(j)) + n]
      BY <1>2, BatchAndRest
    <3> QED
      BY <2>2, <3>1, <3>2
  <2>10. stage \in {"asking", "storing"} /\ (stage = "storing" => rest = <<>>)
    BY <2>3
  <2>11. /\ i \in Job /\ i.at = stage /\ i.texts = j.texts /\ i.results = j.results /\ i.asked = j.asked
         /\ i.inner = new /\ i.pending = rest
    BY <1>2, <2>4, <2>8, <2>9, <2>10 DEF Job, EmbedAt
  <2>12. LookedUp(i)
    BY <1>2, <2>7, <2>8, <2>11 DEF LookedUp, Half
  <2>13. Asks(i)
    <3>1. ASSUME NEW n \in 1..Len(rest)
          PROVE  /\ rest[n] \in 1..Len(j.asked)
                 /\ VectorOf(j.texts[j.asked[rest[n]]]) = j.texts[j.asked[rest[n]]]
      <4>1. Len(Batch(j)) + n \in 1..Len(j.pending) /\ rest[n] = j.pending[Len(Batch(j)) + n]
        <5>1. PICK b \in Nat : b = Len(Batch(j))
          BY <2>9
        <5>2. PICK p \in Nat : p = Len(j.pending)
          BY <2>9
        <5>3. n \in 1..(p - b) /\ rest[n] = j.pending[b + n]
          BY <2>9, <3>1, <5>1, <5>2
        <5>4. b + n \in 1..p
          BY <5>3
        <5> QED
          BY <5>1, <5>2, <5>3, <5>4
      <4>2. \A l \in 1..Len(j.pending) :
              /\ j.pending[l] \in 1..Len(j.asked)
              /\ VectorOf(j.texts[j.asked[j.pending[l]]]) = j.texts[j.asked[j.pending[l]]]
        BY <1>2 DEF Asks
      <4> QED
        BY <4>1, <4>2
    <3> QED
      BY <1>3, <2>6, <2>8, <2>11, <3>1 DEF Asks
  <2>14. JobInv(i)
    BY <2>10, <2>11, <2>12, <2>13 DEF JobInv
  <2> QED
    BY <1>2, <1>3, <2>5, <2>11, <2>14, OneJob
<1> QED
  BY <1>5, <1>6

\* All texts are pending, each at its own place, so that what came is in order.
LEMMA EmbedMLX == ASSUME EmbedInv, NEW c \in Asker, MLXAnswer(c)  PROVE EmbedInv'
<1>1. PICK j : j = job[c]
  OBVIOUS
<1>2. /\ j \in Job /\ job \in [Asker -> Job] /\ j.at = "asking" /\ LookedUp(j) /\ Asks(j) /\ Entries(cache)
      /\ shut \in BOOLEAN
  BY <1>1 DEF EmbedInv, MLXAnswer, JobInv
<1>3. client = "mlx" /\ UNCHANGED <<client, honest, cache, shut>>
  BY DEF MLXAnswer
<1>4. PICK vectors \in Answers(j) :
        job' = [job EXCEPT ![c] = [j EXCEPT !.inner = IF j.single THEN Placed(j, vectors) ELSE vectors,
                                            !.pending = <<>>, !.at = "storing"]]
  BY <1>1 DEF MLXAnswer
<1>5. /\ vectors \in Seq(Vector) /\ Len(vectors) \in Nat /\ Len(vectors) <= Len(Batch(j)) /\ (honest => Len(vectors) = Len(Batch(j)))
      /\ \A i \in 1..Len(vectors) :
            /\ Batch(j)[i] \in 1..Len(j.asked)
            /\ vectors[i] = VectorOf(j.texts[j.asked[Batch(j)[i]]])
  BY <1>2, AnswersAreVectors
<1>6. /\ Len(j.asked) \in Nat /\ Len(Batch(j)) = Len(j.asked) /\ \A i \in 1..Len(j.asked) : Batch(j)[i] = i
      /\ Rest(j) \in Seq(Nat) /\ Len(Rest(j)) = 0
  <2>1. j.asked \in Seq(Nat) /\ j.pending \in Seq(Nat)
    BY <1>2 DEF Job
  <2>2. Batch(j) = j.pending /\ Rest(j) \in Seq(Nat) /\ Len(Rest(j)) = Len(j.pending) - Len(Batch(j))
    BY <1>2, <1>3, BatchAndRest
  <2>3. Len(j.pending) = Len(j.asked) /\ \A i \in 1..Len(j.asked) : j.pending[i] = i
    BY <1>2, <1>3 DEF Asks
  <2> QED
    BY <2>1, <2>2, <2>3
<1>7. Range(Rest(j)) = {} /\ Len(Batch(j)) = Len(j.asked)
  <2>1. Rest(j) = <<>>
    BY <1>6
  <2> QED
    BY <1>6, <2>1 DEF Range
<1>8. PICK new : new = IF j.single THEN Placed(j, vectors) ELSE vectors
  OBVIOUS
<1>9. /\ new \in Seq(Vector) /\ Len(new) <= Len(j.asked)
      /\ \A k \in 1..Len(new) : new[k] = VectorOf(j.texts[j.asked[k]]) \/ (new[k] = Nil /\ ~honest)
  <2>1. CASE j.single
    <3>1. new = Placed(j, vectors)
      BY <1>8, <2>1
    <3>2. j.inner \in Seq(Vector) /\ Len(j.inner) \in Nat /\ Len(j.inner) = Len(j.asked)
      BY <1>2 DEF Job, Asks
    <3>3. DOMAIN new = 1..Len(j.inner) /\ new = [k \in DOMAIN new |-> new[k]]
      BY <3>1, <3>2 DEF Placed
    <3>4. \A k \in 1..Len(j.inner) :
              /\ new[k] \in Vector
              /\ new[k] = VectorOf(j.texts[j.asked[k]]) \/ (new[k] = Nil /\ ~honest)
      BY <1>2, <1>7, <3>1, PlacedIsHalf
    <3>5. new \in [1..Len(j.inner) -> Vector]
      BY <3>3, <3>4
    <3>6. new \in Seq(Vector) /\ Len(new) = Len(j.inner)
      BY <3>2, <3>5
    <3> QED
      BY <3>2, <3>4, <3>6
  <2>2. CASE ~j.single
    <3>1. new = vectors
      BY <1>8, <2>2
    <3>2. \A k \in 1..Len(vectors) : k \in 1..Len(j.asked) /\ Batch(j)[k] = k
      BY <1>5, <1>6, <1>7
    <3> QED
      BY <1>5, <1>7, <3>1, <3>2
  <2> QED
    BY <2>1, <2>2
<1>10. PICK i : i = [j EXCEPT !.inner = new, !.pending = <<>>, !.at = "storing"]
  OBVIOUS
<1>11. job' = [job EXCEPT ![c] = i]
  BY <1>4, <1>8, <1>10
<1>12. /\ i \in Job /\ i.at = "storing" /\ i.texts = j.texts /\ i.results = j.results /\ i.asked = j.asked
       /\ i.inner = new /\ i.pending = <<>>
  <2>1. <<>> \in Seq(Nat)
    OBVIOUS
  <2> QED
    BY <1>2, <1>9, <1>10, <2>1 DEF Job, EmbedAt
<1>13. LookedUp(i)
  BY <1>2, <1>9, <1>12 DEF LookedUp, Half
<1>14. JobInv(i)
  BY <1>12, <1>13 DEF JobInv
<1> QED
  BY <1>2, <1>3, <1>11, <1>12, <1>14, OneJob

\* What the cache does not hold is asked for; what is blank has its vector.
LEMMA EmbedCall == ASSUME EmbedInv, NEW c \in Asker, Call(c)  PROVE EmbedInv'
<1>1. PICK single \in BOOLEAN, n \in 1..MaxTexts : \E texts \in [1..n -> Text] :
         LET asked   == Positions(n, {i \in 1..n : ~Cached(texts[i])})
             blank   == {j \in 1..Len(asked) : VectorOf(texts[asked[j]]) = Zero}
             inner   == [j \in 1..Len(asked) |-> IF j \in blank THEN Zero ELSE Nil]
             pending == Positions(Len(asked), (1..Len(asked)) \ blank)
         IN  /\ single => n = 1
             /\ job' = [job EXCEPT ![c] =
                    [at      |-> IF asked = <<>> THEN "done" ELSE IF shut THEN "failed"
                                 ELSE IF pending = <<>> THEN "storing" ELSE "asking",
                     single  |-> single, texts |-> texts,
                     results |-> [i \in 1..n |-> IF Cached(texts[i]) THEN Hit(texts[i]) ELSE Nil],
                     asked   |-> asked, inner |-> inner, pending |-> pending, attempt |-> 0]]
             /\ cache' = Touched(cache, texts)
  BY Zenon DEF Call
<1>2. PICK texts \in [1..n -> Text] :
         LET asked   == Positions(n, {i \in 1..n : ~Cached(texts[i])})
             blank   == {j \in 1..Len(asked) : VectorOf(texts[asked[j]]) = Zero}
             inner   == [j \in 1..Len(asked) |-> IF j \in blank THEN Zero ELSE Nil]
             pending == Positions(Len(asked), (1..Len(asked)) \ blank)
         IN  /\ single => n = 1
             /\ job' = [job EXCEPT ![c] =
                    [at      |-> IF asked = <<>> THEN "done" ELSE IF shut THEN "failed"
                                 ELSE IF pending = <<>> THEN "storing" ELSE "asking",
                     single  |-> single, texts |-> texts,
                     results |-> [i \in 1..n |-> IF Cached(texts[i]) THEN Hit(texts[i]) ELSE Nil],
                     asked   |-> asked, inner |-> inner, pending |-> pending, attempt |-> 0]]
             /\ cache' = Touched(cache, texts)
  BY <1>1, Zenon
<1> DEFINE missed  == {i \in 1..n : ~Cached(texts[i])}
           asked   == Positions(n, missed)
           blank   == {j \in 1..Len(asked) : VectorOf(texts[asked[j]]) = Zero}
           inner   == [j \in 1..Len(asked) |-> IF j \in blank THEN Zero ELSE Nil]
           pending == Positions(Len(asked), (1..Len(asked)) \ blank)
           results == [i \in 1..n |-> IF Cached(texts[i]) THEN Hit(texts[i]) ELSE Nil]
           stage == IF asked = <<>> THEN "done" ELSE IF shut THEN "failed"
                 ELSE IF pending = <<>> THEN "storing" ELSE "asking"
           j == [at |-> stage, single |-> single, texts |-> texts, results |-> results, asked |-> asked,
                 inner |-> inner, pending |-> pending, attempt |-> 0]
<1>3. job' = [job EXCEPT ![c] = j] /\ cache' = Touched(cache, texts)
  BY <1>2, Zenon
<1>4. n \in Nat /\ n > 0 /\ texts \in Seq(Text) /\ Len(texts) = n
  BY EmbeddingAssumption
<1>5. Entries(cache) /\ client \in {"ollama", "mlx"} /\ shut \in BOOLEAN /\ UNCHANGED <<client, honest, shut>>
  BY DEF EmbedInv, Call
<1>6. Entries(cache')
  BY <1>3, <1>4, <1>5, TouchedKeeps
<1>7. missed \in SUBSET (1..n) /\ \A i \in 1..n : i \in missed <=> ~Cached(texts[i])
  OBVIOUS
<1> HIDE DEF missed
<1>8. asked \in Seq(Nat) /\ Range(asked) = missed
  BY <1>4, <1>7, PositionsAreWanted
<1> HIDE DEF asked
<1>9. /\ Len(asked) \in Nat /\ (\A k \in 1..Len(asked) : asked[k] \in missed)
      /\ \A i \in missed : \E k \in 1..Len(asked) : asked[k] = i
  BY <1>8 DEF Range
<1>10. /\ inner \in Seq(Vector) /\ Len(inner) = Len(asked)
       /\ \A k \in 1..Len(asked) : inner[k] = IF k \in blank THEN Zero ELSE Nil
  <2> HIDE DEF blank
  <2>1. inner \in [1..Len(asked) -> Vector]
    BY DEF Vector
  <2>2. Len(inner) = Len(asked) /\ inner \in Seq(Vector)
    BY <1>9, <2>1
  <2> QED
    BY <2>2
<1>11. (1..Len(asked)) \ blank \in SUBSET (1..Len(asked)) /\ \A k \in 1..Len(asked) : k \in blank <=> VectorOf(texts[asked[k]]) = Zero
  OBVIOUS
<1> HIDE DEF blank, inner
<1>12. /\ pending \in Seq(Nat) /\ Range(pending) = (1..Len(asked)) \ blank
       /\ (1..Len(asked)) \ blank = 1..Len(asked) =>
             Len(pending) = Len(asked) /\ \A i \in 1..Len(asked) : pending[i] = i
  <2>1. PICK N \in Nat : N = Len(asked)
    BY <1>9
  <2>2. PICK W : W = (1..Len(asked)) \ blank
    OBVIOUS
  <2>3. W \in SUBSET (1..N)
    BY <1>11, <2>1, <2>2
  <2>4. pending = Positions(N, W)
    BY <2>1, <2>2
  <2> HIDE DEF pending
  <2>5. /\ Positions(N, W) \in Seq(Nat) /\ Range(Positions(N, W)) = W
        /\ W = 1..N => Len(Positions(N, W)) = N /\ \A i \in 1..N : Positions(N, W)[i] = i
    BY <2>1, <2>3, PositionsAreWanted
  <2> QED
    BY <2>1, <2>2, <2>4, <2>5
<1> HIDE DEF pending
<1>13. ASSUME NEW t, Cached(t)  PROVE Hit(t) \in Vector /\ IsOf(t, Hit(t))
  <2>1. \E e \in Range(cache) : e[1] = t
    BY <1>13 DEF Cached
  <2>2. PICK e \in Range(cache) : e[1] = t /\ Hit(t) = e[2]
    BY <2>1 DEF Hit
  <2>3. PICK i \in DOMAIN cache : cache[i] = e
    BY <2>2 DEF Range
  <2>4. cache[i] \in Entry /\ IsOf(cache[i][1], cache[i][2])
    BY <1>5, <2>3 DEF Entries
  <2> QED
    BY <2>2, <2>3, <2>4 DEF Entry
<1>14. /\ results \in Seq(Vector) /\ Len(results) = n
       /\ \A i \in 1..n : Cached(texts[i]) => IsOf(texts[i], results[i])
  <2>1. results \in [1..n -> Vector]
    BY <1>13 DEF Vector
  <2>2. \A i \in 1..n : Cached(texts[i]) => IsOf(texts[i], results[i])
    BY <1>13
  <2> HIDE DEF results
  <2> QED
    BY <1>4, <2>1, <2>2
<1> HIDE DEF results
<1>15. stage \in EmbedAt /\ (stage = "storing" => pending = <<>>) /\ (stage = "done" => asked = <<>>)
       /\ stage \in {"done", "failed", "storing", "asking"}
  BY DEF EmbedAt
<1> HIDE DEF stage
<1>16. /\ j \in Job /\ j.at = stage /\ j.texts = texts /\ j.results = results /\ j.asked = asked
       /\ j.inner = inner /\ j.pending = pending
  BY <1>4, <1>8, <1>10, <1>12, <1>14, <1>15 DEF Job
<1> HIDE DEF j
<1>17. ASSUME NEW i \in 1..n
       PROVE  (\E k \in 1..Len(asked) : asked[k] = i) \/ IsOf(texts[i], results[i])
  BY <1>7, <1>9, <1>14
<1>18. ASSUME NEW k \in 1..Len(asked)
       PROVE  inner[k] = VectorOf(texts[asked[k]]) \/ (inner[k] = Nil /\ k \in Range(pending))
  BY <1>10, <1>11, <1>12
<1>19. LookedUp(j)
  <2>1. \A k \in 1..Len(inner) : Half(j, k)
    BY <1>10, <1>16, <1>18 DEF Half
  <2>2. \A k \in 1..Len(asked) : asked[k] \in 1..n
    BY <1>7, <1>9
  <2>3. Len(j.results) = Len(j.texts) /\ Len(j.inner) <= Len(j.asked)
    BY <1>4, <1>9, <1>10, <1>14, <1>16
  <2>4. \A k \in 1..Len(j.asked) : j.asked[k] \in 1..Len(j.texts)
    BY <1>4, <1>16, <2>2
  <2>5. \A i \in 1..Len(j.texts) :
          (\E k \in 1..Len(j.asked) : j.asked[k] = i) \/ IsOf(j.texts[i], j.results[i])
    BY <1>4, <1>16, <1>17
  <2>6. \A k \in 1..Len(j.inner) : Half(j, k)
    BY <1>16, <2>1
  <2> QED
    BY <2>3, <2>4, <2>5, <2>6 DEF LookedUp
<1>20. Asks(j)
  <2>1. ASSUME NEW i \in 1..Len(pending)
        PROVE  /\ pending[i] \in 1..Len(asked)
               /\ VectorOf(texts[asked[pending[i]]]) = texts[asked[pending[i]]]
    <3>1. pending[i] \in (1..Len(asked)) \ blank
      BY <1>12, <2>1 DEF Range
    <3>2. VectorOf(texts[asked[pending[i]]]) # Zero
      BY <1>11, <3>1
    <3>3. \A t : VectorOf(t) \in {Zero, t}
      BY DEF VectorOf
    <3> QED
      BY <3>1, <3>2, <3>3
  <2>2. client = "mlx" => blank = {}
    <3>1. ASSUME client = "mlx", NEW k \in 1..Len(asked)  PROVE VectorOf(texts[asked[k]]) # Zero
      <4>1. texts[asked[k]] \in Text
        BY <1>7, <1>9
      <4> QED
        BY <3>1, <4>1, EmbeddingAssumption DEF VectorOf
    <3> QED
      BY <3>1 DEF blank
  <2>3. client = "mlx" => Len(pending) = Len(asked) /\ \A i \in 1..Len(asked) : pending[i] = i
    BY <1>12, <2>2
  <2> QED
    BY <1>10, <1>16, <2>1, <2>3 DEF Asks
<1>21. JobInv(j)
  <2>1. asked = <<>> => \A i \in 1..n : IsOf(texts[i], results[i])
    BY <1>17
  <2> QED
    BY <1>4, <1>14, <1>15, <1>16, <1>19, <1>20, <2>1 DEF JobInv
<1> QED
  BY <1>3, <1>5, <1>6, <1>16, <1>21, OneJob

\* The places of the texts asked for are filled, the others were cached.
LEMMA EmbedStores == ASSUME EmbedInv, NEW c \in Asker, StoreAnswers(c)  PROVE EmbedInv'
<1>1. PICK j : j = job[c]
  OBVIOUS
<1>2. /\ j \in Job /\ job \in [Asker -> Job] /\ j.at = "storing" /\ LookedUp(j) /\ j.pending = <<>>
      /\ Entries(cache) /\ shut \in BOOLEAN
  BY <1>1 DEF EmbedInv, StoreAnswers, JobInv
<1>3. UNCHANGED <<client, honest, shut>>
  BY DEF StoreAnswers
<1> DEFINE short   == Len(j.inner) < Len(j.asked)
           results == [i \in DOMAIN j.results |->
                          IF \E k \in DOMAIN j.inner : j.asked[k] = i
                          THEN j.inner[CHOOSE k \in DOMAIN j.inner : j.asked[k] = i] ELSE j.results[i]]
           entries == [k \in DOMAIN j.inner |-> <<j.texts[j.asked[k]], j.inner[k]>>]
           stage == IF short THEN "panicked" ELSE "done"
           i == [j EXCEPT !.at = stage, !.results = results]
<1>4. job' = [job EXCEPT ![c] = i] /\ cache' = Stored(cache, entries)
  BY <1>1 DEF StoreAnswers
<1>5. /\ j.inner \in Seq(Vector) /\ DOMAIN j.inner = 1..Len(j.inner) /\ Len(j.inner) \in Nat
      /\ j.results \in Seq(Vector) /\ DOMAIN j.results = 1..Len(j.texts) /\ Len(j.results) = Len(j.texts)
      /\ j.texts \in Seq(Text) /\ Len(j.texts) \in Nat
      /\ Len(j.inner) <= Len(j.asked) /\ Len(j.asked) \in Nat
  BY <1>2 DEF Job, LookedUp
<1>6. ASSUME NEW k \in 1..Len(j.inner)
      PROVE  j.asked[k] \in 1..Len(j.texts) /\ IsOf(j.texts[j.asked[k]], j.inner[k])
  <2>1. j.asked[k] \in 1..Len(j.texts) /\ Half(j, k)
    BY <1>2, <1>5 DEF LookedUp
  <2>2. k \notin Range(j.pending)
    BY <1>2 DEF Range
  <2> QED
    BY <2>1, <2>2 DEF Half, IsOf
<1>7. /\ Len(entries) \in Nat /\ Len(entries) = Len(j.inner)
      /\ \A k \in 1..Len(entries) : entries[k] \in Entry /\ IsOf(entries[k][1], entries[k][2])
  <2>1. DOMAIN entries = 1..Len(j.inner)
    BY <1>5
  <2>2. Len(entries) = Len(j.inner)
    BY <1>5, <2>1
  <2>3. ASSUME NEW k \in 1..Len(j.inner)
        PROVE  entries[k] \in Entry /\ IsOf(entries[k][1], entries[k][2])
    <3>1. entries[k] = <<j.texts[j.asked[k]], j.inner[k]>>
      BY <1>5
    <3>2. j.texts[j.asked[k]] \in Text /\ j.inner[k] \in Vector
      BY <1>5, <1>6
    <3> QED
      BY <1>6, <3>1, <3>2 DEF Entry
  <2> QED
    BY <1>5, <2>2, <2>3
<1> HIDE DEF entries
<1>8. Entries(cache')
  BY <1>2, <1>4, <1>7, StoredKeeps
<1>9. ASSUME NEW m \in 1..Len(j.texts)
      PROVE  /\ results[m] \in Vector
             /\ ~short => IsOf(j.texts[m], results[m])
  <2>1. CASE \E k \in DOMAIN j.inner : j.asked[k] = m
    <3>1. PICK k \in DOMAIN j.inner : j.asked[k] = m /\ results[m] = j.inner[k]
      <4>1. results[m] = j.inner[CHOOSE k \in DOMAIN j.inner : j.asked[k] = m]
        BY <1>5, <2>1
      <4> QED
        BY <2>1, <4>1
    <3>2. IsOf(j.texts[m], j.inner[k]) /\ j.inner[k] \in Vector
      <4>1. k \in 1..Len(j.inner)
        BY <1>5
      <4>2. IsOf(j.texts[j.asked[k]], j.inner[k])
        BY <1>6, <4>1
      <4>3. j.inner[k] \in Vector
        BY <1>5, <4>1
      <4> QED
        BY <3>1, <4>2, <4>3
    <3> QED
      BY <3>1, <3>2
  <2>2. CASE ~\E k \in DOMAIN j.inner : j.asked[k] = m
    <3>1. results[m] = j.results[m] /\ j.results[m] \in Vector
      BY <1>5, <2>2
    <3>2. (\E k \in 1..Len(j.asked) : j.asked[k] = m) \/ IsOf(j.texts[m], j.results[m])
      BY <1>2 DEF LookedUp
    <3>3. ~short => DOMAIN j.inner = 1..Len(j.asked)
      BY <1>5
    <3> QED
      BY <2>2, <3>1, <3>2, <3>3
  <2> QED
    BY <2>1, <2>2
<1>10. results \in Seq(Vector) /\ Len(results) = Len(j.texts)
  <2>1. results \in [1..Len(j.texts) -> Vector]
    <3>1. DOMAIN results = 1..Len(j.texts) /\ results = [m \in DOMAIN results |-> results[m]]
      BY <1>5
    <3> HIDE DEF results
    <3> QED
      BY <1>9, <3>1
  <2> HIDE DEF results
  <2> QED
    BY <1>5, <2>1
<1> HIDE DEF results
<1>11. stage \in EmbedAt /\ stage \in {"done", "panicked"} /\ (stage = "done" => ~short)
  BY DEF EmbedAt
<1> HIDE DEF stage, short
<1>12. i \in Job /\ i.at = stage /\ i.texts = j.texts /\ i.results = results
  BY <1>2, <1>10, <1>11 DEF Job
<1> HIDE DEF i
<1>13. JobInv(i)
  BY <1>9, <1>10, <1>11, <1>12 DEF JobInv
<1> QED
  BY <1>2, <1>3, <1>4, <1>8, <1>12, <1>13, OneJob

\* What else happens changes neither the cache nor what the callers do.
LEMMA EmbedSame ==
    ASSUME EmbedInv, UNCHANGED <<client, honest, cache, job>>, shut' \in BOOLEAN
    PROVE  EmbedInv'
BY DEF EmbedInv, Entries, IsOf, VectorOf, JobInv, LookedUp, Half, Asks

\* Every step keeps the invariant.
LEMMA EmbedStep == EmbedInv /\ [EmbedNext]_embedVars => EmbedInv'
<1> SUFFICES ASSUME EmbedInv, [EmbedNext]_embedVars  PROVE EmbedInv'
  OBVIOUS
<1>1. CASE CloseEmbedder
  BY <1>1, EmbedSame DEF CloseEmbedder
<1>2. CASE UNCHANGED embedVars
  <2>1. shut \in BOOLEAN
    BY DEF EmbedInv
  <2> QED
    BY <1>2, <2>1, EmbedSame DEF embedVars
<1>3. ASSUME NEW c \in Asker,
             Call(c) \/ RequestFails(c) \/ Cancel(c) \/ OllamaAnswer(c) \/ MLXAnswer(c) \/ StoreAnswers(c)
      PROVE  EmbedInv'
  BY <1>3, EmbedCall, EmbedFails, EmbedOllama, EmbedMLX, EmbedStores
<1> QED
  BY <1>1, <1>2, <1>3 DEF EmbedNext

\* For any callers, texts and sizes of cache and batch, whatever fails, is cancelled or
\* cut short: a call that ends has for each text its vector, and the cache holds no
\* other, except none where the server sent too few (cached.go:79-117, ollama.go:260-325).
THEOREM VectorsReachTheirTexts == EmbedSpec => []EmbeddingOfItsText
<1>1. EmbedInit => EmbedInv
  BY EmbedStart
<1>2. EmbedInv /\ [EmbedNext]_embedVars => EmbedInv'
  BY EmbedStep
<1>3. EmbedInv => EmbeddingOfItsText
  <2> SUFFICES ASSUME EmbedInv  PROVE EmbeddingOfItsText
    OBVIOUS
  <2>1. \A t, v : IsOf(t, v) => v \in {VectorOf(t)} \cup IF honest THEN {} ELSE {Nil}
    BY DEF IsOf
  <2>2. ASSUME NEW c \in Asker, job[c].at = "done", NEW i \in DOMAIN job[c].texts
        PROVE  IsOf(job[c].texts[i], job[c].results[i])
    <3>1. job[c].texts \in Seq(Text) /\ JobInv(job[c])
      BY DEF EmbedInv, Job
    <3> QED
      BY <2>2, <3>1 DEF JobInv
  <2>3. ASSUME NEW e \in Range(cache)  PROVE IsOf(e[1], e[2])
    BY <2>3 DEF EmbedInv, Entries, Range
  <2> QED
    BY <2>1, <2>2, <2>3 DEF EmbeddingOfItsText
<1> QED
  BY <1>1, <1>2, <1>3, PTL DEF EmbedSpec
=============================================================================
