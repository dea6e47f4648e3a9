------------------------------ MODULE QueryMetrics ------------------------------
\* The query metrics of internal/telemetry: searches record events, a ticker
\* flushes the running totals to the database, Close flushes a last time. The
\* read-write lock is Go's: a writer that waits holds back every later reader,
\* and its unlock lets in the readers that queued behind it. The repeated-
\* embedding sample is left out; a query's type, result count and latency bucket
\* are fixed by the query.
EXTENDS Naturals, Sequences, FiniteSets, SequencesExt, FiniteSetsExt

CONSTANTS Recorder,      \* searches that record an event
          Query,         \* the queries: records of type, zero, bucket and terms
          ZeroCapacity,  \* cfg.ZeroResultsCapacity
          TermCapacity,  \* cfg.TopTermsCapacity
          MaxRecords,    \* bound on the events
          MaxFlushes,    \* bound on the ticks
          NoOne          \* nobody waits to write

ASSUME MetricsAssumption ==
    /\ ZeroCapacity \in Nat \ {0} /\ TermCapacity \in Nat \ {0}
    /\ Query # {} /\ \A q \in Query : q.terms \in Seq(Range(q.terms))
    /\ Recorder \cap {"ticker", "closer"} = {} /\ NoOne \notin Recorder \cup {"closer"}

VARIABLES writer,     \* who has announced itself to the write lock
          reading,    \* how often each flusher holds the read lock
          blocked,    \* flushers queued behind the writer
          at,         \* where every process is
          event,      \* the event each recorder brings
          totals,     \* queryTypes, latencies, totalQueries, zeroResultCount, exactRepeatCount
          ring,       \* zeroResults: items, head and size
          top,        \* topTerms, least recently used first: <<term, count>>
          seen,       \* the queries recentQueries holds (its capacity is not reached)
          closed,     \* m.closed
          snapshot,   \* what each flusher has read
          stored,     \* the counts in the database
          kept,       \* the events recorded, in order
          refused,    \* whether the last Close met a store error
          flushes     \* number of ticks so far

metricsVars == <<writer, reading, blocked, at, event, totals, ring, top, seen, closed,
                 snapshot, stored, kept, refused, flushes>>
lockVars    == <<writer, reading, blocked>>
dataVars    == <<totals, ring, top, seen, kept>>

Flusher == {"ticker", "closer"}
Writers == Recorder \cup {"closer"}
Kinds   == {q.type : q \in Query}
Buckets == {q.bucket : q \in Query}
Zeros(S) == [x \in S |-> 0]

MetricsInit ==
    /\ writer = NoOne /\ reading = Zeros(Flusher) /\ blocked = {}
    /\ at = [p \in Recorder \cup Flusher |-> "idle"]
    /\ event \in [Recorder -> {CHOOSE q \in Query : TRUE}]
    /\ totals = [types |-> Zeros(Kinds), latencies |-> Zeros(Buckets), queries |-> 0, zeros |-> 0, repeats |-> 0]
    /\ ring = [items |-> [i \in 0..(ZeroCapacity - 1) |-> NoOne], head |-> 0, size |-> 0]
    /\ top = <<>> /\ seen = {} /\ closed = FALSE
    /\ snapshot = [f \in Flusher |-> totals]
    /\ stored = [types |-> Zeros(Kinds), latencies |-> Zeros(Buckets)]
    /\ kept = <<>> /\ refused = FALSE /\ flushes = 0

\* A search calls Record, which asks for the write lock.
Record(r) ==
    /\ at[r] = "idle" /\ Len(kept) < MaxRecords
    /\ \E q \in Query : event' = [event EXCEPT ![r] = q]
    /\ at' = [at EXCEPT ![r] = "lock"]
    /\ UNCHANGED <<lockVars, dataVars, closed, snapshot, stored, refused, flushes>>

\* One writer at a time announces itself; it waits for the readers to leave.
Announce(p) ==
    /\ at[p] = "lock" /\ writer = NoOne
    /\ writer' = p
    /\ UNCHANGED <<reading, blocked, at, event, dataVars, closed, snapshot, stored, refused, flushes>>

Locked(p) == writer = p /\ \A f \in Flusher : reading[f] = 0

\* What follows each RLock of Flush and Snapshot.
NextRead(step) == CASE step = "first" -> "second" [] step = "second" -> "read"

\* The writer's unlock: the readers queued behind it all get in. p goes on to next.
WriteUnlock(p, next) ==
    /\ writer' = NoOne /\ blocked' = {}
    /\ reading' = [f \in Flusher |-> IF f \in blocked THEN reading[f] + 1 ELSE reading[f]]
    /\ at' = [x \in DOMAIN at |-> IF x = p THEN next
                                  ELSE IF x \in blocked THEN NextRead(at[x]) ELSE at[x]]

\* CircularBuffer.Add: at head, over the oldest item when the buffer is full.
Add(buffer, item) ==
    [items |-> [buffer.items EXCEPT ![buffer.head] = item],
     head  |-> (buffer.head + 1) % ZeroCapacity,
     size  |-> IF buffer.size < ZeroCapacity THEN buffer.size + 1 ELSE buffer.size]

\* Items, oldest first: from 0 while the buffer fills, from head once it is full.
Items(buffer) ==
    [i \in 1..buffer.size |->
        buffer.items[IF buffer.size < ZeroCapacity THEN i - 1 ELSE (buffer.head + i - 1) % ZeroCapacity]]

\* One term counted: moved to the young end with its count; beyond the capacity
\* the least recently used one is dropped, its count with it.
CountTerm(cache, term) ==
    LET old   == {i \in DOMAIN cache : cache[i][1] = term}
        grown == IF old = {} THEN Append(cache, <<term, 1>>)
                 ELSE LET i == CHOOSE i \in old : TRUE
                      IN  Append(RemoveAt(cache, i), <<term, cache[i][2] + 1>>)
    IN  IF Len(grown) > TermCapacity THEN Tail(grown) ELSE grown

CountTerms(cache, terms) ==
    LET counted[n \in 0..Len(terms)] == IF n = 0 THEN cache ELSE CountTerm(counted[n - 1], terms[n])
    IN  counted[Len(terms)]

\* Record under the lock: every aggregate moves, or none once the metrics are closed.
RecordLocked(r) ==
    /\ at[r] = "lock" /\ Locked(r)
    /\ LET q == event[r]
       IN  IF closed THEN UNCHANGED dataVars
           ELSE /\ totals' = [types     |-> [totals.types EXCEPT ![q.type] = @ + 1],
                              latencies |-> [totals.latencies EXCEPT ![q.bucket] = @ + 1],
                              queries   |-> totals.queries + 1,
                              zeros     |-> totals.zeros + IF q.zero THEN 1 ELSE 0,
                              repeats   |-> totals.repeats + IF q \in seen THEN 1 ELSE 0]
                /\ ring' = IF q.zero THEN Add(ring, q) ELSE ring
                /\ top' = CountTerms(top, q.terms)
                /\ seen' = seen \cup {q}
                /\ kept' = Append(kept, q)
    /\ WriteUnlock(r, "idle")
    /\ UNCHANGED <<event, closed, snapshot, stored, refused, flushes>>

\* flushLoop: a tick starts a flush; one that was pending when Close stopped the
\* ticker may still be taken, since the loop picks either channel.
TickFlush ==
    /\ at["ticker"] = "idle" /\ flushes < MaxFlushes
    /\ flushes' = flushes + 1
    /\ at' = [at EXCEPT !["ticker"] = "first"]
    /\ UNCHANGED <<lockVars, event, dataVars, closed, snapshot, stored, refused>>

\* Close asks for the lock; a second one finds the metrics closed.
Close ==
    /\ at["closer"] \in {"idle", "done"}
    /\ at' = [at EXCEPT !["closer"] = "lock"]
    /\ UNCHANGED <<lockVars, event, dataVars, closed, snapshot, stored, refused, flushes>>

\* A slip: the metrics are marked closed without the last flush.
CloseUnflushed ==
    /\ at["closer"] = "lock" /\ Locked("closer")
    /\ closed' = TRUE
    /\ WriteUnlock("closer", "done")
    /\ UNCHANGED <<event, dataVars, snapshot, stored, refused, flushes>>

CloseLocked ==
    /\ at["closer"] = "lock" /\ Locked("closer")
    /\ closed' = TRUE
    /\ WriteUnlock("closer", IF closed THEN "done" ELSE "first")
    /\ UNCHANGED <<event, dataVars, snapshot, stored, refused, flushes>>

\* RLock, taken by Flush and again by the Snapshot it calls.
RLock(f) ==
    /\ at[f] \in {"first", "second"} /\ f \notin blocked
    /\ IF writer = NoOne
       THEN /\ reading' = [reading EXCEPT ![f] = @ + 1]
            /\ at' = [at EXCEPT ![f] = NextRead(@)]
            /\ UNCHANGED blocked
       ELSE blocked' = blocked \cup {f} /\ UNCHANGED <<reading, at>>
    /\ UNCHANGED <<writer, event, dataVars, closed, snapshot, stored, refused, flushes>>

\* Snapshot copies the totals; both read locks are given back.
Snapshot(f) ==
    /\ at[f] = "read"
    /\ snapshot' = [snapshot EXCEPT ![f] = totals]
    /\ reading' = [reading EXCEPT ![f] = 0]
    /\ at' = [at EXCEPT ![f] = "types"]
    /\ UNCHANGED <<writer, blocked, event, dataVars, closed, stored, refused, flushes>>

Plus(f, g) == [x \in DOMAIN f |-> f[x] + g[x]]

\* SaveQueryTypeCounts: the running totals are added to what is stored.
SaveTypes(f) ==
    /\ at[f] = "types"
    /\ stored' = [stored EXCEPT !.types = Plus(@, snapshot[f].types)]
    /\ at' = [at EXCEPT ![f] = "latencies"]
    /\ UNCHANGED <<lockVars, event, dataVars, closed, snapshot, refused, flushes>>

\* UpsertTermCounts and SaveLatencyCounts, in transactions of their own.
SaveLatencies(f) ==
    /\ at[f] = "latencies"
    /\ stored' = [stored EXCEPT !.latencies = Plus(@, snapshot[f].latencies)]
    /\ at' = [at EXCEPT ![f] = IF f = "closer" THEN "done" ELSE "idle"]
    /\ UNCHANGED <<lockVars, event, dataVars, closed, snapshot, refused, flushes>>

\* A transaction fails: the flush ends there.
SaveFails(f) ==
    /\ at[f] \in {"types", "latencies"}
    /\ at' = [at EXCEPT ![f] = IF f = "closer" THEN "done" ELSE "idle"]
    /\ refused' = (refused \/ f = "closer")
    /\ UNCHANGED <<lockVars, event, dataVars, closed, snapshot, stored, flushes>>

MetricsNext ==
    \/ \E r \in Recorder : Record(r) \/ RecordLocked(r)
    \/ \E p \in Writers : Announce(p)
    \/ \E f \in Flusher : RLock(f) \/ Snapshot(f) \/ SaveTypes(f) \/ SaveLatencies(f) \/ SaveFails(f)
    \/ TickFlush \/ Close \/ CloseLocked

MetricsSpec == MetricsInit /\ [][MetricsNext]_metricsVars

-----------------------------------------------------------------------------

\* The counts by type and by latency add up to the queries recorded.
CountsAgree ==
    /\ totals.queries = Len(kept)
    /\ \A k \in Kinds : totals.types[k] = Cardinality({i \in DOMAIN kept : kept[i].type = k})
    /\ \A b \in Buckets : totals.latencies[b] = Cardinality({i \in DOMAIN kept : kept[i].bucket = b})

\* The zero-result buffer holds exactly the last ZeroCapacity queries without a
\* result, oldest first.
ZeroEvents == {i \in DOMAIN kept : kept[i].zero}
Later(i)   == Cardinality({j \in ZeroEvents : j > i})

RingHoldsNewest ==
    /\ ring.size = IF Cardinality(ZeroEvents) < ZeroCapacity THEN Cardinality(ZeroEvents) ELSE ZeroCapacity
    /\ \A i \in ZeroEvents : Later(i) < ZeroCapacity => Items(ring)[ring.size - Later(i)] = kept[i]

\* No term is counted more often than it was searched for; a dropped one begins anew.
Occurrences(term) == UNION {{<<i, j>> : j \in {n \in DOMAIN kept[i].terms : kept[i].terms[n] = term}} : i \in DOMAIN kept}

TermsAreReal == \A e \in Range(top) : e[2] <= Cardinality(Occurrences(e[1]))

\* The aggregates agree with the events recorded (query_metrics.go:413-451).
AggregatesAgree == CountsAgree /\ RingHoldsNewest /\ TermsAreReal

\* Nothing recorded is lost by closing (query_metrics.go:617-641): once Close has
\* returned without an error, the database counts at least every query recorded,
\* and no later one can be.
CloseLosesNothing ==
    at["closer"] = "done" /\ ~refused =>
        /\ \A k \in Kinds : stored.types[k] >= totals.types[k]
        /\ \A b \in Buckets : stored.latencies[b] >= totals.latencies[b]

\* What the metrics count is what was recorded, and a close without an error stores
\* all of it (query_metrics.go).
MetricsAgree == AggregatesAgree /\ CloseLosesNothing
=============================================================================
