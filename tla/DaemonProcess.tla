--------------------------- MODULE DaemonProcess ---------------------------
(***************************************************************************)
(* Starting and stopping the daemon from several command lines: what keeps *)
(* it single and reachable is a PID file and a socket, both removed and    *)
(* made again by whoever starts.                                           *)
(***************************************************************************)
EXTENDS Naturals, FiniteSets

CONSTANTS
    Proc,     \* processes that run "daemon start --foreground", one PID each
    NoProc

ASSUME ProcessAssumption == NoProc \notin Proc

VARIABLES
    stage,    \* [Proc -> ...]: what the process does next
    pidFile,  \* the process named in daemon.pid, or NoProc
    socket,   \* the process that bound what is at the socket path, or NoProc
    stopper,  \* "daemon stop": "none", "waiting"
    solo      \* whether no start has begun while another was under way

processVars == <<stage, pidFile, socket, stopper, solo>>

Starting == {"check", "clean", "write", "unlink", "bind"}
Stages   == Starting \cup {"unborn", "serve", "drain", "cleanup", "forget", "gone"}

ProcessInit ==
    /\ stage = [p \in Proc |-> "unborn"]
    /\ pidFile = NoProc
    /\ socket = NoProc
    /\ stopper = "none"
    /\ solo = TRUE

Moves(p, from, to) ==
    /\ stage[p] = from
    /\ stage' = [stage EXCEPT ![p] = to]

\* processExists: signal 0 reaches the process.
Exists(p) == p # NoProc /\ stage[p] \notin {"unborn", "gone"}

\* Client.IsRunning: somebody listens at the socket path.
IsRunning == socket # NoProc /\ stage[socket] = "serve"

\* runDaemonStart: a client that connects makes the start needless.
AskIsRunning(p) ==
    /\ ~IsRunning
    /\ Moves(p, "unborn", "check")
    /\ solo' = (solo /\ \A q \in Proc : stage[q] \notin Starting)
    /\ UNCHANGED <<pidFile, socket, stopper>>

\* Start, the stale PID: the file names another process that exists.
CheckPID(p) ==
    /\ Moves(p, "check", IF Exists(pidFile) /\ pidFile # p THEN "gone" ELSE "clean")
    /\ UNCHANGED <<pidFile, socket, stopper, solo>>

\* Both files are taken for stale.
Clean(p) ==
    /\ Moves(p, "clean", "write")
    /\ pidFile' = NoProc
    /\ socket' = NoProc
    /\ UNCHANGED <<stopper, solo>>

\* PIDFile.Write, over whatever is there.
WritePID(p) ==
    /\ Moves(p, "write", "unlink")
    /\ pidFile' = p
    /\ UNCHANGED <<socket, stopper, solo>>

\* ListenAndServe removes the socket once more, after the embedder was made,
Unlink(p) ==
    /\ Moves(p, "unlink", "bind")
    /\ socket' = NoProc
    /\ UNCHANGED <<pidFile, stopper, solo>>

\* and binds, which fails when the path has been taken since.
Bind(p) ==
    /\ \/ socket = NoProc /\ Moves(p, "bind", "serve") /\ socket' = p
       \/ socket # NoProc /\ Moves(p, "bind", "forget") /\ UNCHANGED socket
    /\ UNCHANGED <<pidFile, stopper, solo>>

\* SIGTERM or an interrupt: listener.Close unlinks the path, whoever bound it.
CloseListener(p) ==
    /\ Moves(p, "serve", "drain")
    /\ socket' = NoProc
    /\ UNCHANGED <<pidFile, stopper, solo>>

\* Mutation of EndServing: the PID file goes before the connections are done.
EndServingForgets(p) ==
    /\ Moves(p, "drain", "cleanup")
    /\ socket' = NoProc
    /\ pidFile' = NoProc
    /\ UNCHANGED <<stopper, solo>>

\* The connections are done; the path is removed again, then cleanup runs.
EndServing(p) ==
    /\ Moves(p, "drain", "cleanup")
    /\ socket' = NoProc
    /\ UNCHANGED <<pidFile, stopper, solo>>

EndCleanup(p) ==
    /\ Moves(p, "cleanup", "forget")
    /\ UNCHANGED <<pidFile, socket, stopper, solo>>

\* The deferred removal of the PID file, the last thing Start does.
Forget(p) ==
    /\ Moves(p, "forget", "gone")
    /\ pidFile' = NoProc
    /\ UNCHANGED <<socket, stopper, solo>>

\* A crash or SIGKILL leaves both files; so does a signal before the server
\* listens for it.
Crash(p) ==
    /\ Exists(p)
    /\ stage' = [stage EXCEPT ![p] = "gone"]
    /\ UNCHANGED <<pidFile, socket, stopper, solo>>

\* runDaemonStop: SIGTERM to whoever the PID file names.
StopCommand ==
    /\ stopper = "none"
    /\ Exists(pidFile)
    /\ stopper' = "waiting"
    /\ UNCHANGED <<stage, pidFile, socket, solo>>

\* It waits five seconds for the file or the process to go,
SeeStopped ==
    /\ stopper = "waiting"
    /\ ~Exists(pidFile)
    /\ stopper' = "none"
    /\ UNCHANGED <<stage, pidFile, socket, solo>>

\* and then kills whoever the file names by now.
KillCommand ==
    /\ stopper = "waiting"
    /\ Exists(pidFile)
    /\ stage' = [stage EXCEPT ![pidFile] = "gone"]
    /\ stopper' = "none"
    /\ UNCHANGED <<pidFile, socket, solo>>

StartDaemon(p)  == AskIsRunning(p) \/ CheckPID(p) \/ Clean(p) \/ WritePID(p) \/ Unlink(p) \/ Bind(p)
LeaveDaemon(p)  == CloseListener(p) \/ EndServing(p) \/ EndCleanup(p) \/ Forget(p)

ProcessNext ==
    \/ \E p \in Proc : StartDaemon(p) \/ LeaveDaemon(p) \/ Crash(p)
    \/ StopCommand \/ SeeStopped \/ KillCommand

ProcessSpec == ProcessInit /\ [][ProcessNext]_processVars

-----------------------------------------------------------------------------
ProcessTypeOK ==
    /\ stage \in [Proc -> Stages]
    /\ pidFile \in Proc \cup {NoProc}
    /\ socket \in Proc \cup {NoProc}
    /\ stopper \in {"none", "waiting"}
    /\ solo \in BOOLEAN

\* A daemon that serves is the one clients reach and "daemon stop" stops,
\* whatever was left behind by those that crashed and whoever is still leaving,
\* unless two starts have overlapped: nothing in the code prevents that, and
\* each then takes the other's files for stale.
ServingIsReachable ==
    solo => \A p \in Proc : stage[p] = "serve" => socket = p /\ pidFile = p

=============================================================================
