------------------------------ MODULE MCDaemon ------------------------------
\* The daemon at work, its processes coming and going, and the vector file it
\* compacts: three machines that share no state, one of which runs in each
\* behaviour.
EXTENDS Daemon, DaemonProcess, VectorFile

VARIABLE machine

Machines == {"daemon", "process", "vectors"}

Init ==
    /\ machine \in Machines
    /\ DaemonInit /\ ProcessInit /\ VectorFileInit

Next ==
    /\ UNCHANGED machine
    /\ \/ machine = "daemon"  /\ DaemonNext     /\ UNCHANGED <<processVars, vectorFileVars>>
       \/ machine = "process" /\ ProcessNext    /\ UNCHANGED <<daemonVars, vectorFileVars>>
       \/ machine = "vectors" /\ VectorFileNext /\ UNCHANGED <<daemonVars, processVars>>

Spec == Init /\ [][Next]_<<machine, daemonVars, processVars, vectorFileVars>> /\ DaemonFairness
=============================================================================
