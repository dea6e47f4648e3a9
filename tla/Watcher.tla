------------------------------ MODULE Watcher ------------------------------
(***************************************************************************)
(* From a change of a file to the index: HybridWatcher takes events from   *)
(* fsnotify, or compares snapshots when fsnotify is not available, the     *)
(* Debouncer merges the events of a path within a window, and batches go   *)
(* through two bounded channels to the coordinator.  A full channel drops  *)
(* what is sent.  The user, the watcher's loop, the debounce timer, the    *)
(* forwarding goroutine and the coordinator's goroutine run concurrently.  *)
(***************************************************************************)
EXTENDS Naturals, Sequences

CONSTANTS
    WatchedFile, SubDir,   \* files, and directories below the root
    Root,           \* the project directory
    In,             \* In[p]: the directory file p is in
    MaxChanges,     \* bound: how often the user changes something
    KernelCap,      \* bound: events the kernel holds for fsnotify
    PollCap, OutputCap, EventsCap  \* capacities of the three channels

Path == WatchedFile \cup SubDir
Dir  == SubDir \cup {Root}

ASSUME WatcherAssumption ==
    /\ WatchedFile \cap SubDir = {}
    /\ Root \notin Path
    /\ In \in [WatchedFile -> Dir]
    /\ {MaxChanges, KernelCap, PollCap, OutputCap, EventsCap} \subseteq Nat \ {0}

Operation == {"CREATE", "MODIFY", "DELETE", "RENAME"}
Event     == [path : Path, op : Operation]

VARIABLES
    backend,    \* "fsnotify" or "polling", chosen by NewHybridWatcher
    disk,       \* [Path -> Nat]: 0, or the number of the change that made it what it is
    changes,    \* number of changes so far
    watched,    \* directories fsnotify has been told to watch
    kernel,     \* events fsnotify has not delivered
    baseline,   \* the polling watcher's fileState
    polled,     \* the polling watcher's events channel
    pending,    \* the debouncer's event per path, "none" when there is none
    firstOp,    \* the first operation of each pending event
    output,     \* the debouncer's channel of batches
    events,     \* the hybrid watcher's channel of batches
    batch,      \* what the coordinator has still to do of its batch
    known,      \* [WatchedFile -> Nat]: the change the index knows of, 0 for not indexed
    lost        \* paths of events that met a full channel

userVars    == <<disk, changes>>
sourceVars  == <<watched, kernel, baseline, polled>>
debounceVars == <<pending, firstOp, output>>
clientVars  == <<batch, known>>
watchVars == <<backend, disk, changes, watched, kernel, baseline, polled, pending, firstOp,
          output, events, batch, known, lost>>

Change == 0..MaxChanges

Nothing == [p \in Path |-> "none"]

\* A running watcher over an index that is in step, some paths not there yet.
WatchInit ==
    /\ backend \in {"fsnotify", "polling"}
    /\ changes = 1
    /\ \E there \in SUBSET Path :
          /\ \A p \in there \cap WatchedFile : In[p] \in there \cup {Root}
          /\ disk = [p \in Path |-> IF p \in there THEN 1 ELSE 0]
          /\ watched = IF backend = "fsnotify" THEN (there \cap SubDir) \cup {Root} ELSE {}
    /\ baseline = IF backend = "polling" THEN disk ELSE [p \in Path |-> 0]
    /\ kernel = <<>> /\ polled = <<>> /\ output = <<>> /\ events = <<>>
    /\ pending = Nothing /\ firstOp = Nothing
    /\ batch = {}
    /\ known = [p \in WatchedFile |-> disk[p]]
    /\ lost = {}

Exists(d) == d \in {Root} \cup {q \in SubDir : disk[q] # 0}
Parent(p) == IF p \in WatchedFile THEN In[p] ELSE Root

-----------------------------------------------------------------------------
(* The user.  fsnotify hears of p when the directory of p is watched.      *)

Happens(p, op, now) ==
    /\ changes < MaxChanges
    /\ changes' = changes + 1
    /\ disk' = [disk EXCEPT ![p] = now]
    /\ IF Parent(p) \in watched
       THEN Len(kernel) < KernelCap /\ kernel' = Append(kernel, [path |-> p, op |-> op])
       ELSE UNCHANGED kernel
    /\ UNCHANGED <<backend, watched, baseline, polled, debounceVars, events, clientVars, lost>>

\* A new file, or a new directory.
MakeNew(p) == disk[p] = 0 /\ Exists(Parent(p)) /\ Happens(p, "CREATE", changes + 1)
Write(p)  == disk[p] # 0 /\ Happens(p, "MODIFY", changes + 1)
Unlink(p) == disk[p] # 0 /\ Happens(p, "DELETE", 0)
\* p is renamed to a name outside the project.
MoveAway(p) == disk[p] # 0 /\ Happens(p, "RENAME", 0)
\* Another file is renamed over p: fsnotify reports a CREATE.
Replace(p)  == disk[p] # 0 /\ Happens(p, "CREATE", changes + 1)

User == \/ \E p \in Path : MakeNew(p)
        \/ \E p \in WatchedFile : Write(p) \/ Unlink(p) \/ MoveAway(p) \/ Replace(p)

-----------------------------------------------------------------------------
(* The debouncer.                                                          *)

\* Mutation of Coalesce: a replaced file stays a deletion.
CoalesceKeepsDelete(first, old, new) ==
    CASE first = "CREATE" /\ new = "MODIFY" -> old
      [] first = "CREATE" /\ new = "DELETE" -> "none"
      [] first = "DELETE" /\ new = "CREATE" -> old
      [] OTHER                              -> new

\* coalesce: "none" when the two cancel each other out.
Coalesce(first, old, new) ==
    CASE first = "CREATE" /\ new = "MODIFY" -> old
      [] first = "CREATE" /\ new = "DELETE" -> "none"
      [] first = "DELETE" /\ new = "CREATE" -> "MODIFY"
      [] OTHER                              -> new

\* Add: the first operation stays the first one, whatever was merged since.
Add(e) ==
    LET merged == IF pending[e.path] = "none" THEN e.op
                  ELSE Coalesce(firstOp[e.path], pending[e.path], e.op)
    IN  /\ pending' = [pending EXCEPT ![e.path] = merged]
        /\ firstOp' = [firstOp EXCEPT ![e.path] =
                          IF merged = "none" THEN "none" ELSE IF @ = "none" THEN e.op ELSE @]

Pending == {[path |-> p, op |-> pending[p]] : p \in {q \in Path : pending[q] # "none"}}
Paths(es) == {e.path : e \in es}

\* flush: the timer is set whenever something is pending.
Flush ==
    /\ Pending # {}
    /\ pending' = Nothing
    /\ firstOp' = Nothing
    /\ IF Len(output) < OutputCap
       THEN output' = Append(output, Pending) /\ UNCHANGED lost
       ELSE lost' = lost \cup Paths(Pending) /\ UNCHANGED output
    /\ UNCHANGED <<backend, userVars, sourceVars, events, clientVars>>

-----------------------------------------------------------------------------
(* The two sources of events.                                              *)

\* handleFsnotifyEvent: a new directory is watched from now on.
HandleFsnotifyEvent ==
    /\ kernel # <<>>
    /\ LET e == Head(kernel)
       IN  /\ Add(e)
           /\ watched' = IF e.op = "CREATE" /\ e.path \in SubDir /\ Exists(e.path)
                         THEN watched \cup {e.path} ELSE watched
    /\ kernel' = Tail(kernel)
    /\ UNCHANGED <<backend, userVars, baseline, polled, output, events, clientVars, lost>>

\* detectChanges, for one path: the baseline moves on even if the event is dropped.
Poll(p) ==
    LET op == CASE baseline[p] = 0 -> "CREATE"
                [] baseline[p] # 0 /\ disk[p] # 0 -> "MODIFY"
                [] disk[p] = 0     -> "DELETE"
    IN  /\ backend = "polling"
        /\ baseline[p] # disk[p]
        /\ baseline' = [baseline EXCEPT ![p] = disk[p]]
        /\ IF Len(polled) < PollCap
           THEN polled' = Append(polled, [path |-> p, op |-> op]) /\ UNCHANGED lost
           ELSE lost' = lost \cup {p} /\ UNCHANGED polled
        /\ UNCHANGED <<backend, userVars, watched, kernel, debounceVars, events, clientVars>>

\* startPolling's goroutine.
TakePolled ==
    /\ polled # <<>>
    /\ Add(Head(polled))
    /\ polled' = Tail(polled)
    /\ UNCHANGED <<backend, userVars, watched, kernel, baseline, output, events, clientVars, lost>>

-----------------------------------------------------------------------------
(* forwardDebouncedEvents and emitEvents.                                  *)

Forward ==
    /\ output # <<>>
    /\ output' = Tail(output)
    /\ IF Len(events) < EventsCap
       THEN events' = Append(events, Head(output)) /\ UNCHANGED lost
       ELSE lost' = lost \cup Paths(Head(output)) /\ UNCHANGED events
    /\ UNCHANGED <<backend, userVars, sourceVars, pending, firstOp, clientVars>>

-----------------------------------------------------------------------------
(* HandleEvents in the coordinator's goroutine: the events of a batch come *)
(* in no order, since the debouncer ranges over a map.                     *)

TakeBatch ==
    /\ batch = {}
    /\ events # <<>>
    /\ batch' = Head(events)
    /\ events' = Tail(events)
    /\ UNCHANGED <<backend, userVars, sourceVars, debounceVars, known, lost>>

\* handleEvent: directories are skipped, a file that is not there is not indexed,
\* and a renamed file is removed unless there is one again.
Known(e) ==
    CASE e.op \in {"CREATE", "MODIFY"} -> IF disk[e.path] # 0 THEN disk[e.path] ELSE known[e.path]
      [] e.op = "DELETE"               -> 0
      [] e.op = "RENAME"               -> disk[e.path]

\* Mutation of HandleEvent: the rest of the batch goes with its first event.
HandleEventDropsBatch(e) ==
    /\ batch' = {}
    /\ known' = IF e.path \in WatchedFile THEN [known EXCEPT ![e.path] = Known(e)] ELSE known
    /\ UNCHANGED <<backend, userVars, sourceVars, debounceVars, events, lost>>

HandleEvent(e) ==
    /\ batch' = batch \ {e}
    /\ known' = IF e.path \in WatchedFile THEN [known EXCEPT ![e.path] = Known(e)] ELSE known
    /\ UNCHANGED <<backend, userVars, sourceVars, debounceVars, events, lost>>

-----------------------------------------------------------------------------
Goroutines ==
    \/ HandleFsnotifyEvent
    \/ \E p \in Path : Poll(p)
    \/ TakePolled
    \/ Flush
    \/ Forward
    \/ TakeBatch
    \/ \E e \in batch : HandleEvent(e)

WatchNext == User \/ Goroutines

WatchSpec == WatchInit /\ [][WatchNext]_watchVars

\* Each goroutine that can take a step takes one; the timer fires; the ticker
\* ticks.  Nothing is assumed of the user.
WatchFairness ==
    /\ WF_watchVars(HandleFsnotifyEvent) /\ WF_watchVars(TakePolled)
    /\ WF_watchVars(\E p \in Path : Poll(p))
    /\ WF_watchVars(Flush) /\ WF_watchVars(Forward) /\ WF_watchVars(TakeBatch)
    /\ WF_watchVars(\E e \in batch : HandleEvent(e))

-----------------------------------------------------------------------------
(* Habits of the user.                                                     *)

\* Events the index has not seen yet.
UnderWay == UNION ({{kernel[i]} : i \in DOMAIN kernel} \cup {Pending, batch}
                   \cup {output[i] : i \in DOMAIN output} \cup {events[i] : i \in DOMAIN events})

\* What fsnotify, but not polling, turns into events the watcher misreads: a file
\* renamed over another, a file made again before its renaming away was handled,
\* a file made in a directory that is not watched yet.
Misread(p) ==
    \/ Replace(p)
    \/ MakeNew(p) /\ [path |-> p, op |-> "RENAME"] \in UnderWay
    \/ MakeNew(p) /\ In[p] \notin watched

Habits == backend = "fsnotify" => \A p \in WatchedFile : ~Misread(p)

HabitsSpec == WatchInit /\ [][WatchNext /\ Habits]_watchVars /\ WatchFairness

-----------------------------------------------------------------------------
(* Properties.                                                             *)

InStep(p) == known[p] = disk[p]

\* An event of p is somewhere between the source and the index, or the next
\* poll will make one.
InFlight(p) ==
    \/ \E i \in DOMAIN kernel : kernel[i].path = p
    \/ backend = "polling" /\ baseline[p] # disk[p]
    \/ \E i \in DOMAIN polled : polled[i].path = p
    \/ pending[p] # "none"
    \/ \E i \in DOMAIN output : p \in Paths(output[i])
    \/ \E i \in DOMAIN events : p \in Paths(events[i])
    \/ p \in Paths(batch)

\* Merging, batching and reordering never lose a change: a file the index is
\* out of step with has an event under way, unless one met a full channel.
NoChangeForgotten == \A p \in WatchedFile : InStep(p) \/ InFlight(p) \/ p \in lost

\* And when the user stops, the index gets there.
Settles == <>[](\A p \in WatchedFile : InStep(p) \/ p \in lost)

=============================================================================
