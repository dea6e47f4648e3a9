------------------------------ MODULE MCServices ------------------------------
\* The services around the index, which share no state: one of them runs in each
\* behaviour.
EXTENDS CircuitBreaker, BackgroundIndexer, RotatingLog, QueryMetrics, Sessions, Embedding

CONSTANT Machines   \* the services of this run

VARIABLE machine

MCQuery == {[type |-> "lexical", zero |-> TRUE, bucket |-> "p10", terms |-> <<"a">>],
            [type |-> "semantic", zero |-> FALSE, bucket |-> "p10", terms |-> <<"b", "a", "b">>],
            [type |-> "semantic", zero |-> TRUE, bucket |-> "p50", terms |-> <<>>]}

Init ==
    /\ machine \in Machines
    /\ CircuitInit /\ IndexerInit /\ LogInit /\ MetricsInit /\ SessionsInit /\ EmbedInit
    \* The machines that do not run start in one state only.
    /\ machine /= "circuit" => healthy
    /\ machine /= "log" => faulty
    /\ machine /= "embedding" => client = "ollama" /\ honest

Next ==
    /\ UNCHANGED machine
    /\ \/ machine = "circuit"   /\ CircuitNext  /\ UNCHANGED <<indexerVars, logVars, metricsVars, sessionVars, embedVars>>
       \/ machine = "indexer"   /\ IndexerNext  /\ UNCHANGED <<circuitVars, logVars, metricsVars, sessionVars, embedVars>>
       \/ machine = "log"       /\ LogNext      /\ UNCHANGED <<circuitVars, indexerVars, metricsVars, sessionVars, embedVars>>
       \/ machine = "metrics"   /\ MetricsNext  /\ UNCHANGED <<circuitVars, indexerVars, logVars, sessionVars, embedVars>>
       \/ machine = "sessions"  /\ SessionsNext /\ UNCHANGED <<circuitVars, indexerVars, logVars, metricsVars, embedVars>>
       \/ machine = "embedding" /\ EmbedNext    /\ UNCHANGED <<circuitVars, indexerVars, logVars, metricsVars, sessionVars>>

vars == <<machine, circuitVars, indexerVars, logVars, metricsVars, sessionVars, embedVars>>

\* Only the circuit's liveness is checked.
Spec == Init /\ [][Next]_vars /\ CircuitFairness

\* Where the circuit runs, it recovers.
CircuitRecovers == machine = "circuit" => Recovers

=============================================================================
