------------------------------ MODULE IgnoreSync ------------------------------
\* What the coordinator does when a .gitignore file or the configuration changes,
\* and when the server starts: the index is brought to what a scan returns. Files
\* themselves stay as they are here, and the index is the set of files it holds. A
\* user edits .gitignore files while the coordinator works; it holds its lock
\* throughout, so it is the only other actor.
EXTENDS Scanning

CONSTANTS IgnoreDir,   \* directories that may have a .gitignore, with <<>>
          Contents,    \* what each of them may hold: sets of sequences of lines
          Excludes,    \* the exclude patterns of the configuration
          OtherLines,        \* further lines of .gitignore files,
          OtherExcludes,     \* and further sets of exclude patterns, that the rules are asked about
          Submodules,        \* the entries of every .gitmodules: [directory -> entries]
          SubmodulePatterns, \* of the submodules to include or to exclude
          MaxSubmoduleDepth,
          MaxEdits,    \* bound on the edits
          MaxStarts    \* bound on the starts of the server

ConfigFile == <<".amanmcp.yaml">>

ASSUME IgnoreAssumption ==
    /\ <<>> \in IgnoreDir /\ ConfigFile \notin IgnoreDir /\ IgnoreDir \cap File = {}
    /\ \A d \in IgnoreDir : d \in Seq(Range(d)) /\ \A lines \in Contents[d] : lines \in Seq(Range(lines))
    /\ MaxEdits \in Nat /\ MaxStarts \in Nat

\* A pattern has segments, a directory is a path, an entry of .gitmodules has both a
\* name and a path.
ASSUME RulesAssumption ==
    /\ \A l \in OtherLines \cup UNION {Range(lines) : lines \in UNION {Contents[d] : d \in IgnoreDir}} :
          /\ l.segments \in Seq(Range(l.segments)) /\ l.git \in Seq(Range(l.git))
          /\ \A s \in Range(l.git) : AnyDirs \subseteq s => s = AnyDirs
    /\ \A e \in Excludes \cup UNION OtherExcludes : e.dir \in Seq(Range(e.dir))
    /\ \A d \in DOMAIN Submodules : d \in Seq(Range(d))
    /\ \A m \in UNION Range(Submodules) : m = [name |-> m.name, path |-> m.path] /\ m.path \in Seq(Range(m.path))
    /\ <<>> \in DOMAIN Submodules /\ MaxSubmoduleDepth \in Nat

VARIABLES ignores,   \* the .gitignore files: <<lines>>, or <<>> where there is none
          index,     \* the files in the index
          hash,      \* the state gitignore_hash: the files it was computed from, or <<>>
          cache,     \* the scanner's matchers
          watch,     \* what the watcher does not report, since its start and by its rules
          queue,     \* events under way to the coordinator, oldest first
          phase,     \* of the server
          task,      \* what the coordinator is doing
          edits, starts,
          unsure     \* reasons for which the index may differ from a scan

ignoreVars == <<ignores, index, hash, cache, watch, queue, phase, task, edits, starts, unsure>>

Idle  == [at |-> "idle", want |-> {}, event |-> <<>>, found |-> <<>>]
Empty == [d \in IgnoreDir |-> <<>>]
LinesOf(file) == IF file = <<>> THEN <<>> ELSE file[1]

Wanted(files) == Scan(Excludes, files, Empty)

\* HybridWatcher.loadGitignore: the root's rules, and those of the files below it.
WatcherRules(files) ==
    LET dirs == SetToSortSeq(IgnoreDir, LAMBDA d, e : Len(d) < Len(e))
    IN  FlattenSeq([i \in DOMAIN dirs |-> Matcher(LinesOf(files[dirs[i]]), dirs[i])])

\* shouldIgnore: the files whose edits these rules hide, and shouldIgnoreDir: those
\* in directories that a watcher that starts under these rules does not watch.
EditedPath(d) == IF d = ConfigFile THEN d ELSE Append(d, ".gitignore")
HiddenEdits(files)  == {d \in IgnoreDir \cup {ConfigFile} : Match(WatcherRules(files), EditedPath(d), FALSE)}
Unwatched(files)    == {d \in IgnoreDir : \E n \in 1..Len(d) : Match(WatcherRules(files), SubSeq(d, 1, n), TRUE)}
StartedUnder(files) == [off |-> Unwatched(files), hidden |-> HiddenEdits(files)]
AllSeen == [off |-> {}, hidden |-> {}]

IgnoreInit ==
    /\ ignores \in [IgnoreDir -> {<<>>}] /\ index = Wanted(ignores)
    /\ hash \in {<<>>, <<ignores>>}
    /\ cache = Empty /\ watch = AllSeen /\ queue = <<>> /\ phase = "down" /\ task = Idle
    /\ edits = 0 /\ starts = 0 /\ unsure = {}

\* The user writes or removes a .gitignore file. The watcher reports it while it
\* runs and looks there, and reads the rules again; an edit between the scans of a
\* start and the watcher's goes unreported.
EditIgnore(d) ==
    /\ edits < MaxEdits /\ edits' = edits + 1
    /\ \E new \in {<<>>} \cup {<<c>> : c \in Contents[d]} :
         /\ new /= ignores[d]
         /\ ignores' = [ignores EXCEPT ![d] = new]
    /\ IF phase = "watching" /\ d \notin watch.off \cup watch.hidden
       THEN /\ queue' = IF Contains(queue, d) THEN queue ELSE Append(queue, d)
            /\ watch' = [watch EXCEPT !.hidden = HiddenEdits(ignores')]
            /\ UNCHANGED unsure
       ELSE /\ unsure' = unsure \cup (IF phase = "down" THEN {} ELSE {"unreported"})
            /\ UNCHANGED <<queue, watch>>
    /\ UNCHANGED <<index, hash, cache, phase, task, starts>>

\* The configuration file is written, and the watcher reports it.
EditConfig ==
    /\ edits < MaxEdits /\ edits' = edits + 1
    /\ phase = "watching" /\ ConfigFile \notin watch.hidden
    /\ queue' = Append(queue, ConfigFile)
    /\ UNCHANGED <<ignores, index, hash, cache, watch, phase, task, starts, unsure>>

-----------------------------------------------------------------------------

Rescan(event) == [Idle EXCEPT !.at = "scan", !.event = event]

\* A slip: the scanner's cache is left as it is.
HandleGitignoreChangeCached ==
    /\ phase = "watching" /\ task.at = "idle" /\ queue /= <<>> /\ Head(queue) \in IgnoreDir
    /\ queue' = Tail(queue)
    /\ task' = Rescan(<<Head(queue)>>)
    /\ UNCHANGED <<ignores, index, hash, cache, watch, phase, edits, starts, unsure>>

\* handleGitignoreChange begins: the scanner's cache is cleared, and everything will
\* be scanned. determineReconciliationStrategy has cheaper ways for a nested file and
\* for patterns added, which it never comes to: filepath.Rel has no answer for the
\* absolute root and the relative path the watcher reports.
HandleGitignoreChange ==
    /\ phase = "watching" /\ task.at = "idle" /\ queue /= <<>> /\ Head(queue) \in IgnoreDir
    /\ queue' = Tail(queue)
    /\ cache' = Empty
    /\ task' = Rescan(<<Head(queue)>>)
    /\ UNCHANGED <<ignores, index, hash, watch, phase, edits, starts, unsure>>

\* handleConfigChange: the same, but that the hash is not kept.
HandleConfigChange ==
    /\ phase = "watching" /\ task.at = "idle" /\ queue /= <<>> /\ Head(queue) = ConfigFile
    /\ queue' = Tail(queue)
    /\ cache' = Empty
    /\ task' = Rescan(<<>>)
    /\ UNCHANGED <<ignores, index, hash, watch, phase, edits, starts, unsure>>

\* The scan of reconcileGitignoreInternal and of scanCurrentFiles: what the index
\* should hold. What was unsure is sure again once that is done, in a start unless an
\* edit went unreported: its scans keep what they read.
ScanAgain ==
    /\ task.at = "scan"
    /\ task' = [task EXCEPT !.at = "apply", !.found = <<ignores>>, !.want = Scan(Excludes, ignores, cache)]
    /\ cache' = CachedBy(<<>>, Excludes, ignores, cache)
    /\ unsure' = IF phase = "watching" THEN {} ELSE unsure \ {"failed"}
    /\ UNCHANGED <<ignores, index, hash, watch, queue, phase, edits, starts>>

\* The task is over: a start goes on to its next step.
Over == IF phase = "watching" THEN Idle ELSE [task EXCEPT !.at = "next"]

\* The files in the index cannot be listed, or the scan not begun: the handler
\* returns, and nothing is tried again.
ScanFails ==
    /\ task.at = "scan"
    /\ task' = Over
    /\ unsure' = unsure \cup {"failed"}
    /\ UNCHANGED <<ignores, index, hash, cache, watch, queue, phase, edits, starts>>

\* The index once the task is done but for these files.
IndexBut(left) == (task.want \ left) \cup (index \cap left)
ToDo == (index \ task.want) \cup (task.want \ index)

\* Files are removed and indexed; one that fails stays as it was.
Apply ==
    /\ task.at = "apply"
    /\ \E failed \in SUBSET ToDo :
         /\ Cardinality(failed) <= 1
         /\ index' = IndexBut(failed)
         /\ unsure' = IF failed = {} THEN unsure ELSE unsure \cup {"failed"}
    /\ task' = IF task.event = <<>> THEN Over ELSE [task EXCEPT !.at = "hash"]
    /\ UNCHANGED <<ignores, hash, cache, watch, queue, phase, edits, starts>>

\* The end of handleGitignoreChange: the hash is of the files as they are now, if it
\* can be kept.
SaveHash ==
    /\ task.at = "hash"
    /\ hash' \in {hash, <<ignores>>}
    /\ task' = Idle
    /\ UNCHANGED <<ignores, index, cache, watch, queue, phase, edits, starts, unsure>>

-----------------------------------------------------------------------------

\* ReconcileOnStartup: the hash is computed; where it is the one kept, and that can be
\* read, nothing is done.
StartUp ==
    /\ phase = "down" /\ starts < MaxStarts
    /\ starts' = starts + 1 /\ phase' = "gitignore"
    /\ \/ hash = <<ignores>> /\ task' = [Idle EXCEPT !.at = "next"]
       \/ task' = Rescan(<<ignores>>)
    /\ UNCHANGED <<ignores, index, hash, cache, watch, queue, edits, unsure>>

\* startFileWatcher with another embedder than the index was built with: the watcher
\* starts and nothing is reconciled.
StartUpSkipping ==
    /\ phase = "down" /\ starts < MaxStarts
    /\ starts' = starts + 1 /\ phase' = "watching"
    /\ watch' = StartedUnder(ignores)
    /\ unsure' = {"skipped"}
    /\ UNCHANGED <<ignores, index, hash, cache, queue, task, edits>>

\* ... and the hash computed before the scan is kept, if it can be.
SaveHashOfStart ==
    /\ phase = "gitignore" /\ task.at = "hash"
    /\ hash' \in {hash, task.event}
    /\ task' = [task EXCEPT !.at = "next"]
    /\ UNCHANGED <<ignores, index, cache, watch, queue, phase, edits, starts, unsure>>

\* ReconcileFilesOnStartup scans again, with the same scanner, unless the index is
\* empty: then only a scan for the .gitignore files can have shown that it should be.
NextPhase ==
    /\ task.at = "next"
    /\ IF phase = "gitignore" /\ index /= {}
       THEN /\ phase' = "files" /\ task' = Rescan(<<>>)
            /\ UNCHANGED <<watch, unsure>>
       ELSE /\ phase' = "watching" /\ task' = Idle /\ watch' = StartedUnder(ignores)
            /\ unsure' = unsure \cup (IF task.found = <<>> THEN {"empty"} ELSE {})
    /\ UNCHANGED <<ignores, index, hash, cache, queue, edits, starts>>

\* The server stops or is killed, at any point; events are lost with it, and what it
\* had still to do is left. What is unsure is for the next start to find.
StopServer ==
    /\ phase /= "down"
    /\ phase' = "down" /\ queue' = <<>> /\ task' = Idle /\ cache' = Empty /\ watch' = AllSeen
    /\ \/ task.at /= "apply" /\ UNCHANGED index
       \/ task.at = "apply" /\ \E left \in SUBSET ToDo : index' = IndexBut(left)
    /\ unsure' = {}
    /\ UNCHANGED <<ignores, hash, edits, starts>>

IgnoreNext ==
    \/ \E d \in IgnoreDir : EditIgnore(d)
    \/ EditConfig \/ HandleGitignoreChange \/ HandleConfigChange \/ ScanAgain \/ ScanFails \/ Apply
    \/ (phase = "watching" /\ SaveHash) \/ StartUp \/ StartUpSkipping \/ SaveHashOfStart \/ NextPhase
    \/ StopServer

IgnoreSpec == IgnoreInit /\ [][IgnoreNext]_ignoreVars

-----------------------------------------------------------------------------

Settled == phase = "watching" /\ task.at = "idle" /\ queue = <<>>

\* Once every change is handled the index holds what a scan would return
\* (coordinator.go:717-768, 1066-1290), whatever was edited meanwhile and however
\* often the server was killed halfway: unless, since this start, a file or a scan
\* failed or an edit went unreported and no later one was handled, the start skipped
\* reconciliation, or it found the index empty and the hash unchanged.
SettledIndexIsScan == Settled /\ unsure = {} => index = Wanted(ignores)

-----------------------------------------------------------------------------

\* The lines a file is asked about: those of every .gitignore file, and others by
\* themselves.
LinesAskedAbout(d) == {LinesOf(ignores[d])} \cup {<<l>> : l \in OtherLines}

\* Without a negation nothing is ignored that git would not ignore (gitignore.go:
\* 143-239), of lines that git's "**" and character classes are written in.
IgnoresNoMoreThanGit ==
    \A p \in File, d \in IgnoreDir : \A lines \in LinesAskedAbout(d) :
        LET rules == Matcher(lines, d)
        IN  (\A i \in DOMAIN lines : ~lines[i].negation /\ Plain(lines[i])) /\ Match(rules, p, FALSE)
                => GitIgnores(rules, p)

\* The same of any lines, as the package says of itself ("implements the gitignore
\* pattern syntax", gitignore.go:1-3): false of "src/**b", which ignores what ends in
\* b at any depth below src, and of "[!a]", whose "!" is a name to match.
IgnoresAsGitDoes ==
    \A p \in File, d \in IgnoreDir : \A lines \in LinesAskedAbout(d) :
        LET rules == Matcher(lines, d)
        IN  (\A i \in DOMAIN lines : ~lines[i].negation) /\ Match(rules, p, FALSE) => GitIgnores(rules, p)

\* A subtree scanned by itself gives what the scan of the project finds there
\* (scanner.go:130-187), whatever is excluded around it and in it, and a submodule
\* scanned as a project of its own lacks none of it (scanner.go:318-460).
SubtreeIsPartOfScan ==
    /\ \A top \in UNION {Directories(p) : p \in File}, excludes \in {{}, Excludes} \cup OtherExcludes :
          ScanSubtree(top, excludes, ignores, Empty) = {p \in Scan(excludes, ignores, Empty) : Under(p, top)}
    /\ \A d \in DOMAIN Submodules : \A m \in Gitmodules(Submodules[d], d) :
          {p \in Scan({}, ignores, Empty) : Under(p, m.path)} \subseteq ScanSubmodule(m, {}, ignores, Empty)

\* Submodules are found where they are included: all of the project's own, and
\* others only in one that was found itself (submodule.go:111-215).
SubmodulesAreChosen ==
    \A include, exclude \in SUBSET SubmodulePatterns, depth \in 0..MaxSubmoduleDepth :
        LET found == Discovered(Submodules, include, exclude, depth)
            own   == Gitmodules(Submodules[<<>>], <<>>)
        IN  /\ {m \in own : IncludesSubmodule(m, include, exclude)} \subseteq found
            /\ \A m \in found :
                  /\ IncludesSubmodule(m, include, exclude)
                  /\ \/ m \in own
                     \/ /\ depth > 0
                        /\ \E x \in found : /\ x.path \in DOMAIN Submodules /\ Initialized(x.path)
                                           /\ m \in Gitmodules(Submodules[x.path], x.path)

\* The rules for what is scanned mean the same to git, to a scan and to the scan of
\* a part (gitignore.go, scanner.go, submodule.go). It is asked while the server is
\* down: the .gitignore files are then any they can be.
RulesMeanTheSame == phase = "down" => IgnoresNoMoreThanGit /\ SubtreeIsPartOfScan /\ SubmodulesAreChosen
=============================================================================
