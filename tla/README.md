# AmanMCP in TLA+

AmanMCP keeps a searchable index of a project directory: chunks of its files in a
metadata database (SQLite), their words in a BM25 index, their embeddings in a vector
store. `amanmcp index` builds the index in bulk, `amanmcp serve` answers searches and keeps
the index in step with the files, a daemon serves several projects at once. This directory
models the parts that change that state, checks them with TLC and proves the main
invariants with TLAPS.

## The system

| component | state | operations | hard behaviour |
|---|---|---|---|
| metadata store (`internal/store/metadata.go`) | file rows, chunk rows, embedding column, key/value state, checkpoint | SaveFiles, DeleteFile, SaveChunks, DeleteChunks, SaveChunkEmbeddings, GetFilesForReconciliation | two indexers key the same file differently; foreign keys cascade |
| BM25 index (`sqlite_bm25.go`) | document IDs | Index, Delete | best-effort deletes leave orphans |
| vector store (`hnsw.go`) | graph, key maps, file | Add, Delete, Save, Load | lazy deletion; two renames per save; memory and file diverge |
| engine (`internal/search/engine.go`) | a lock | Index, Delete, Search | several stores written one after another, no transaction over them |
| coordinator (`internal/index/coordinator.go`) | a lock, the graph's known sources | HandleEvents, ReconcileFilesOnStartup, gitignore and graph reconciliation | files change while they are read; calls fail half way; kills |
| bulk indexer (`internal/index/runner.go`) | checkpoint | Run, resume | killed between stages |
| watcher (`internal/watcher`) | pending events, channels, poll baseline | Add, flush, Stop | coalescing, full channels, a timer restarted by each event |
| consistency checker (`internal/index/consistency.go`) | what it has read | QuickCheck, Check, Repair | reads and repairs while the coordinator writes |
| daemon (`internal/daemon/daemon.go`) | cache of open projects | HandleSearch, loadProject, evictLRU | a project evicted while a search uses it |
| compaction (`internal/daemon/compaction.go`) | idle timers, a flag, a cancel function per project | OnSearchComplete, InterruptCompaction, runCompaction, Stop | swaps and closes a store in use |
| async indexer (`internal/async`) | channels, a lock file | Start, Stop, Wait | stop racing start and the end |
| circuit breaker (`internal/errors/circuit.go`) | state, failure count, last failure | Execute, RecordSuccess, RecordFailure | late results of calls admitted in another state |
| sessions (`internal/session`) | a directory per session | Open, Save, Delete, Prune | limit checked, then written |
| log writer (`internal/logging/writer.go`) | current file and size | Write, rotate | a rotation that fails half way |
| search (`internal/search`) | none | Search, SearchMulti, fusion, rerank, enrichment, profiles | stores that fail or change under a search; ties, limits, eligibility |
| graph (`internal/graph`) | nodes, edges per source, runs, builds | replace, mark stale, purge, rebuild, Query, ExpandContext, Neighbors, Path | incremental against full rebuild; budgets; three reads that are not one |
| chunkers (`internal/chunk`) | none | Chunk of source, Markdown, PDF text | windows, overlap, sections, limits |
| scanner and gitignore (`internal/scanner`, `internal/gitignore`) | a cache of matchers | ScanAll, ScanSubtree, Match | a part scanned by itself, rules of several files |
| embedders (`internal/embed`, `internal/lifecycle`) | a cache, a model file, a lock | EmbedBatch, EnsureModel, EnsureReady | concurrent callers, retries, a server that comes and goes |
| query metrics (`internal/telemetry`) | running totals, buffers | Record, Flush, Close | a lock taken twice, a flush racing Close |

Files, watcher and user run concurrently with everything else. `serve` calls the
coordinator from one goroutine, the coordinator calls the engine, the engine calls the
three stores; the checker reads the stores from a goroutine of its own. `PROJECT.json`
lists every component with its status, every hazard at the line where it bites, and the
source lines behind every definition.

What makes each component correct:

- *stores and coordinator*: the chunks of a file are all of one version; stale text is
  always detectable; no change is forgotten; every chunk can be found in every store; the
  index converges to the files.
- *checker*: a repair never takes away what a search needs.
- *watcher*: the net effect of what is delivered equals what happened to the file.
- *bulk indexer*: an interrupted run is either resumed or seen as incomplete.
- *search*: nothing deleted comes back, a definition that is asked for by name is found, one
  failing store does not fail a search the others can answer, and nothing outdated passes as
  current.
- *graph*: its edges speak of the text that is indexed, and an answer says what was left out.
- *scanner and .gitignore*: after any change the index is what a scan of the project returns.
- *chunkers*: every word of a file is in some chunk, and no chunk exceeds its limit.
- *daemon, compaction*: stores in use stay open, one compaction at a time, shutdown ends.
- *the vector file*: it says what the last completed save had, and every id answers with its own vector.
- *services*: locks, logs, counters and caches tell what happened.

## Modules

| module | models |
|---|---|
| `IndexStores` | what the stores hold and what one transaction does to it, as state-free operators |
| `Coordinator` | `serve`'s life cycle, startup reconciliation, events, `indexFile`, `removeFile`, `Engine.Index`, `Engine.Delete`, one call per step; the user; kills; failing calls |
| `IndexPromise` | abstract: what an incremental index promises of each file's text |
| `CoordinatorHistory` | `Coordinator` with a history variable, and its mapping to `IndexPromise` |
| `MCCoordinator` | the instances TLC checks |
| `CoordinatorProofs` | theorems about `Coordinator`, its ordinary life, the refinement and `ConsistencyChecker` |
| `IndexStoresProofs` | lemmas about the operations of the stores, for both indexers |
| `ConsistencyChecker` | extends `Coordinator` with the checker's goroutine: quick check, three reads, two repairs; in `AloneSpec` nothing writes during a full check |
| `MCConsistencyChecker` | its instance |
| `Watcher` | fsnotify or polling, the debouncer, two bounded channels, the coordinator as a consumer; the habits of the user its properties assume |
| `WatcherProofs` | theorem: no change is forgotten |
| `BulkIndexer` | `amanmcp index`: fresh, resumed and forced runs, one call per step, kills, failing calls; what its properties assume of user, kills and failures |
| `MCBulkIndexer` | its instance |
| `BulkIndexerProofs` | theorems: an incomplete index is blocked, a served one is of now |
| `Daemon` | connections, the cache of projects, eviction, idle timers, compaction, shutdown |
| `DaemonProcess` | several `daemon start` and a `daemon stop` over one PID file and one socket |
| `VectorFile` | the vector store in memory and its two files: lazy deletion, Save, Load, crashes |
| `MCDaemon` | the three side by side |
| `QueryShape` | class, weights, decomposition, candidate counts and reranking of a query, as orders of patterns |
| `SourceMetadata` | class, authority, decision and profile of a source, and who may find it |
| `Retrieval` | one search, call by call, while chunks are deleted and stores fail |
| `Fusion` | reciprocal rank fusion of two lists and of the lists of parallel sub-queries |
| `MCSearch` | one search, the fusion, the metadata, side by side |
| `GraphExtraction` | what each extractor adds to the graph for one source, given the others |
| `GraphOverlay` | what a transaction does to nodes, edges, runs and builds, the status they give; the coordinator's graph work: events, maintenance, rebuilds, failing calls, kills |
| `GraphQuery` | Query, ExpandContext, Neighbors and Path: seeds, traversal, classification, budgets, packs |
| `MCGraph` | a small project for `GraphOverlay`, a small graph for `GraphQuery` |
| `GraphProofs` | theorems about `GraphOverlay` and the queries of `GraphQuery` |
| `CircuitBreaker`, `BackgroundIndexer`, `RotatingLog`, `QueryMetrics`, `Sessions`, `Embedding` | the services of those names |
| `MCServices` | the six side by side |
| `Gitignore` | a line of a .gitignore file as a rule, the rules of several files applied to a path |
| `Scanning` | which files a scan, or a scan of a subtree, returns |
| `IgnoreSync` | the coordinator on .gitignore and configuration changes, and at start |
| `Chunking` | line windows, syntax trees, Markdown sections, PDF words |
| `ModelSetup` | `setup`, `init` and `EnsureReady` beside an Ollama server; the choice of a model |
| `ModelDownload` | processes that fetch one model file under a lock, with retries and kills |
| `MCFiles` | watcher, files, chunkers, setup and download side by side |
| `ServerProofs` | theorems about `VectorFile`, `DaemonProcess`, `Daemon` and `IgnoreSync` |
| `SearchProofs` | theorems about `Retrieval`, `SourceMetadata` and `Fusion` |
| `ServicesProofs` | theorems about `BackgroundIndexer`, `CircuitBreaker`, `ModelSetup`, `ModelDownload`, `Sessions`, `RotatingLog`, `QueryMetrics` and `Embedding` |

### IndexStores

A *version* of a file is a number; `Kind[p][v]` says what the indexers make of it and
`Pieces[p][v]` into which pieces of text the chunker cuts it. A chunk ID is a function of
path and text, so two versions that share a piece share an ID, which is where upserts and
deletes meet. A file row has one of two keys, because the bulk indexer hashes the path and
the coordinator hashes project and path. `rows[key]` is the version whose mtime and size
the row has (every edit has another mtime or size: a second edit within one second that
keeps the size is outside the model). A chunk row remembers, for the properties only, the
version its text was read from (`gen`).

### Coordinator

`disk` is the user's tree, `rows`, `chunks` and `indexModel` the metadata store, `bm25` the
keyword index, `vector` the vector store in memory and `vectorFile` its file. `phase` is
the life of the process, `pending` what the watcher's debouncer holds for the coordinator,
`todo` what reconciliation still has to apply. The coordinator's mutex lets one handler run
at a time, so `pc`, `op`, `path`, `stamp`, `content` and `doomed` describe the call in
progress; each handler action is one call into the file system, the engine or a store,
with the success branch and, when `FaultyCalls` names the call, the error branch of the
code. `Kill` may come between any two steps and loses everything in memory. Events come one
by one, in any order (the debouncer iterates over a map). The graph part of the same handlers
is `GraphOverlay`, `.gitignore` and configuration events are `IgnoreSync`; there the writes
to the index are one step, here they are one by one.

### IndexPromise and CoordinatorHistory

A reader of the index should not care how it is kept: the text of a file is published as a
whole, withdrawn before another takes its place, and never older than one published before.
The chunk rows do not remember what they once held, so `CoordinatorHistory` adds `newest`,
the newest version ever published, which no action of `Coordinator` reads. The mapping
takes a file's `ver` for its version, and for its text the version its chunk rows are the
whole output of, 0 without rows and a number no file has (`Broken`) for anything else, so
that rows of two versions, or half a version, are no state of `IndexPromise`. What the
bulk indexer left behind counts as published.

### Watcher

`disk[p]` is the number of the change that made `p` what it is, `known[p]` the change the
index knows of, so "in step" is equality. Events travel through `kernel` (fsnotify) or
`baseline` and `polled` (the snapshot comparison), `pending` and `firstOp` (the
debouncer), `output`, `events` and `batch`. A full channel drops what is sent, as the
`select` with a `default` does, and the path is remembered in `lost` for the properties
only. `HandleEvent` is the whole of a coordinator call in one step; what happens inside
the call is `Coordinator`. `Habits` names what fsnotify events mislead the watcher about; the
theorem and the run exclude it. Not modelled: `Stop`.

### BulkIndexer

One run is `pc` from `scan` to `record`; `stamps` is what the scan saw, `texts` what was
read later, `RunChunks` the chunks cut from that. `Rank` is the order of the chunk list,
by which a checkpoint's count decides what to skip. The vector store of a run begins
empty and is saved as a whole, so `vectorFile` is replaced by this run's vectors, each
with its model. A failing call ends the run with what it has written so far, except where
the code only logs the failure. The embedder call and the transaction that saves its
result are one step, as nothing is written between them. The graph stage is a rebuild, as in
`GraphOverlay`. Not modelled: contextual enrichment, the refusal of legacy chunk IDs, a file
that turns binary between the scan and the read.

### Daemon, DaemonProcess, VectorFile

In `Daemon` a project's state is a number with an open or closed store; `conn[c]` is a
client's request from `Accept` to its answer, with `HandleSearch` cut where the code releases
`Daemon.mu` or `CompactionManager.mu`; `worker[w]` is a compaction from the firing of the
idle timer to the swap of the store. `Signal` starts the shutdown anywhere. `DaemonProcess`
cuts `Start` between its looks at the PID file and the socket. `solo` records that no two
starts have overlapped: nothing in the code keeps them apart. `VectorFile` gives every node a
key and every id a key; only stores made anew are saved (`fresh`), over whatever files are there,
and `Save` is two renames with a crash or an error in between; `torn` says that one was cut there
and none has completed since, and a store loaded from such files is `mixed`.

### Search

A query is the number of its words and the patterns it matches; which pattern wins is the
order in which `QueryShape` tries them. `Retrieval` goes through the calls of one search
(`at` says which is next); `down` are the stores that fail, `live` the chunks that exist,
which a deletion changes between any two calls. The vector index answers with a list or fails; the
keyword index may also answer with no list at all (`unmatched`), since `sqlite_bm25.go:324` returns
the nil it began with when no row matches, and `Search` (`engine.go:318`) tells that from a failure
by the other search only. The lookup of exact symbols reads a limited number of rows in the order of
the symbol table (`SymbolRows`), from a table that may have lost chunks before their own read
(`SymbolReads`). Results are sets there, since the boosts only
reorder them and the limit may then keep any. Order is the subject of `Fusion`, whose scores
are exact multiples of `1/Unit` where the code has floats: two documents whose float scores
differ by rounding only are equal here, and the code's sort key decides. What two lists agree on
holds only if the semantic weight is positive or the vectors found nothing: at a weight of zero the documents
that only the vectors found all have one score, and come in the order of their identifiers. In `SourceMetadata`
a source is its place in the tree and the features its rules look at.

### Graph

`GraphExtraction` takes a file as lines of which it keeps what an extractor recognises, and
gives nodes and edges; `GraphOverlay` has one operator per repository transaction, and
runs them in the order of the coordinator, with a clock of whole days for the retention of
stale edges. A handler may also return with an error before it comes to the cache and the graph
(`FailHandling`, `coordinator.go:180-460`): by then the index may have lost the file or hold only a
part of it (`HalfOf`), and nothing calls the handler again, so the file stays in `changed`. Errors that
`removeIndexedFile` swallows (`Stays`) let it go on with what the index has. Not modelled there: an
`amanmcp index` that fails between files. `GraphQuery` reads status, nodes and edges in three steps, as the code does, then
is a function of what was read: the traversal in the order the code sorts, limits and budgets
where the code applies them, each cut with its reason. Its loops are functions of how far they
went, one operator for each turn (`Related`, `Join`, `Walk`, `Turned`). Texts are compared by a
table (`Likeness`, `Distance`).

### Services

`CircuitBreaker` keeps only whether the reset timeout has passed. `BackgroundIndexer` may have
several runs, since `Start` only looks at a flag; a second close of a channel ends the process.
`RotatingLog` has every file operation fail. `QueryMetrics` models Go's `RWMutex`, where a
waiting writer holds back later readers. `Sessions` follows inodes, so that a renamed file goes
on being written, and marks as `bereft` the servers whose session was deleted or opened for
another project meanwhile. `Embedding` takes a text for its vector, and lets a server answer too few
(of more than were asked for, MLX's are ignored and Ollama's end in a panic).

### Files

`Gitignore` and `Scanning` work on paths as sequences of names; a wildcard segment is the
set of names it matches. A line of a .gitignore file has its segments twice: as the Go
expression that `patternToRegex` makes of them reads them, and as git does (`git`); `Plain`
lines are those where the two are the same. `IgnoreSync` holds the index as a set of files
and compares it with what `Scanning` returns. Every event of a .gitignore file ends in a
scan of the project, since the cheaper strategies are never reached (below); a scan may
fail, a file may, and the hash may fail to be kept. `watch` is what the watcher does not
report: directories that were ignored when it started (`off`), and files its present rules
hide (`hidden`). `unsure` collects why the index may differ from a scan since the last
complete one: a failure, an edit that went unreported, a start that skipped reconciliation
(`serve.go:490`) or that found the index empty and the hash unchanged
(`coordinator.go:1258`). Each of the four is needed: without it TLC violates
`SettledIndexIsScan`. `Chunking` keeps the length of lines and words, and the place of each
word, so that a chunk tells which characters it holds. `ModelSetup` has three callers and an
outside server; `ModelDownload` has processes, one temporary file and one lock.

## Runs

| run | instance | shows |
|---|---|---|
| `CoordinatorFaults` | two files that may be exchanged (`SYMMETRY`), two versions that share a piece, one kill, one failure of any call but `GetChunksByFile` | `TypeOK`, `OneRowPerPath`, `WholeGenerations`, `UnmodifiedMeansCurrent`, `KeepsPromise` |
| `CoordinatorOrdinary` | a source and a configuration file, three versions, no failing call, kills between handlers, weak fairness | `StaleIsScheduled`, `SearchableUnlessDeleting`, `Converges` |
| `CheckerAlone` | two files, one kill or failed call before a check that has the stores to itself | `RepairKeepsLiveEntries`, `RepairRemovesOrphans` |
| `BulkIndexer` | two files and three chunks, two embedders, batches of one, one kill and one failure of any call | `IncompleteIsBlocked`, `ServedIsOfNow`, `ResumeCompletes` |
| `Daemon` | two clients, three projects and a cache of one, two compactions, a shutdown; three processes; two vectors | `StoresStayOpen`, `CompactionIsSafe`, `ShutdownEnds`, `ServingIsReachable`, `VectorsAreTheirs` |
| `Search` | fourteen searches over four chunks, two of them definitions of which a lookup may read one, one deletion, any stores failing or matching nothing; all pairs of lists of up to three; every source the rules tell apart | `NoGhostReturned`, `DefinitionsAreFound`, `FailsOnlyWhenItMust`, `FusionIsSound`, `ProfilesAreRight` |
| `Graph` | four files of which two share a package, two edits, or one and a fault, a handler that fails half way or a kill; nine nodes and ten edges, among them two documents that refer to each other, rewritten between the reads of a question | `GraphFollowsIndex`, `NoLiveEdgeToDeleted`, `NothingDroppedSilently`, `EvidenceIsComplete` |
| `Services` | each service with two users, three projects of which two have an index, caches, files and buffers that overflow | `CircuitRecovers`, `RetryIsExact`, `LockTellsTruth`, `LogKeepsOrder`, `MetricsAgree`, `SessionsAreWhole`, `EmbeddingOfItsText` |
| `Files` | two watched files, one in a subdirectory, both back ends, channels of one batch; five files, two .gitignore files, three edits, two starts; texts of up to four lines or blocks and a tree of five nodes; a server that is upset once; two downloads, two kills | `NoChangeForgotten`, `Settles`, `SettledIndexIsScan`, `RulesMeanTheSame`, `ChunksHoldTheFile`, `SetupIsSound` |
| `DeletedFileStays` | a file the bulk indexer indexed is deleted | violated: the coordinator looks under the other key, removes nothing, the chunks stay |
| `CompactionStrandsEngine` | a compaction of a cached project | violated: the engine keeps the closed store and loses its vector half |
| `RebuildTearsFiles` | a rebuild of the vectors over older files, killed in its `Save` | violated: the new graph is left with the old ids (`SaveIsAtomic`) |

Two files are enough for handlers to interfere through shared variables, since no store
operation relates two paths; two versions with a common piece make a chunk ID survive a
re-index; one kill and one failure reach every half-done state, and a second one adds only
combinations of them. The queues, caches and buffers are of one or two places, so that each is
full in some behaviour; two of each kind of actor race for everything that is locked. Where a
run holds several machines that share no state, each behaviour runs one of them: the runs
check several small instances, not their product. A property named in a run may be the
conjunction of what the machines of one group promise (`MCDaemon`, `MCSearch`, `MCServices`,
`MCFiles`, `BulkIndexer` say which).

The passing runs exclude what is known to break their properties:

- `CoordinatorOrdinary`: an index without files at start, an edit while reconciliation
  runs, a kill inside a handler (`NeverEmpty`, `QuietScan`, `CleanStop`);
- `CheckerAlone`: an indexing step during the check;
- the watcher of `Files`, with fsnotify only: a rename over an existing file, a file made again before
  the event of its renaming away was handled, a file made in a directory that is not
  watched yet (`Misread`). Polling needs none of these;
- `BulkIndexer`: a kill or failure after the file rows are written and before a checkpoint
  exists (`ReachesCheckpoint`), or before the model is recorded (`RecordsModel`); an edit
  of a file whose chunks an interrupted run has stored (`EditedBeforeRead`); a checkpoint
  whose model could not be read, resumed with another model (`ReadsModel`); a project
  whose last source file goes away (`SomethingToIndex`);
- properties that hold under a condition say so themselves: `ServingIsReachable` (`solo`), `VectorsAreTheirs` (`torn`, `mixed`),
  `FailsOnlyWhenItMust`, `SettledIndexIsScan`, `SessionsAreWhole`.

## Behaviour met while modelling

What follows was seen in the code while it was translated; most of it is in the models, and
the properties are stated around it.

Coordinator and stores
- `Engine.Index` fails after `SaveFiles`, or the process is killed there: the row says
  "unmodified" for ever and the file has no chunks;
- a failed chunk query counts as "nothing to remove": old and new text side by side;
- a kill between the BM25 and the metadata delete leaves chunk rows keyword search never
  finds; the checker in turn takes chunks without an embedding for orphans, and a check that
  races indexing removes live entries (`consistency.go:85`);
- an edit between the reconciliation scan and the start of the watcher is in neither;
- reconciliation gives up when nothing is indexed, so an emptied index stays empty;
- `serve` never saves the vectors it adds, so they are lost with the process;
- on an embedder mismatch `serve` skips reconciliation only (`serve.go:488`): the first event
  embeds with the new model and overwrites `index_model`.

Watcher
- files made in a new directory before it is watched have no event (`hybrid.go:240`);
- a batch dropped by the debouncer is not counted in `DroppedBatches`.

Bulk indexer
- a resumed run that finds nothing to index ends with success and leaves the checkpoint:
  `serve` goes on asking for `--resume`, and only `--force` helps;
- a run killed after the file rows and before the first checkpoint leaves new stamps on old
  chunks, and nothing says that it is incomplete (`runner.go:285`); a resume after an edit
  leaves the chunks of the old text beside the new (`runner.go:296`);
- `amanmcp index` over rows the coordinator owns drops their chunk rows by the cascade and
  leaves their BM25 documents, which the checker removes at the next start.

Search
- `multiQuerySearch` does not cut to the limit after it adds supplementary candidates, and
  applies the default weights first, so that sub-queries are never classified;
- a keyword index that matches nothing returns a nil list without an error (`sqlite_bm25.go:324`), so a
  query without a keyword match fails altogether when the embedder does (`engine.go:318`), where any
  match would have kept it; the exact lookup of the symbol, which comes later, is not tried;
- the symbol table gives an exact lookup `max(limit, 10)` rows before the filters run: a definition
  behind them is not found though the filters keep all the others out (`engine.go:949`);
- `singleSearch` drops the error of a sub-query: with both indexes failing a decomposed query
  returns nothing, without an error; an ADR lookup makes the whole search fail when BM25 does;
- some archive, review and log sources are reachable by no profile (`SomeProfileReturns` names
  them): planning and urgent items among them, and a log that is named and reads like an overruled
  decision; and the profile that the advice names may not admit the source;
- the cache key of the classifier is lower-cased, its patterns are not, and the pattern result
  of a transient failure of the LLM is kept.

Graph
- an incremental graph is not the rebuilt one: inbound edges stay stale until the referring
  file is indexed again, a moved symbol leaves a node;
- a package or an import node belongs to the file that wrote it last (`upsertNodeTx`), so when that
  file is deleted `MarkEdgesToSourceStale` (`sqlite.go:598`, "edges that point at nodes owned by the
  supplied source path") also marks what the other files declare and import, until they are indexed
  again; `GraphFollowsIndex` leaves out the edges that lose by it, whose files are in `bereft`;
- a handler that fails after it has removed a file from the index, or with some of its chunks
  written, returns before the graph and the cache are told (`coordinator.go:336-377`, `411-460`): the
  graph keeps the edges of the older text until another change or a rebuild. The properties leave such
  files out (they are in `changed`) and say that no other file suffers. When the rows of a file cannot
  be listed (`coordinator.go:426-430`) the handler goes on, and a file whose deletion the graph is told may
  stay in the index, where a rebuild finds it again;
- a crash between the writes of index and graph is never repaired, a recorded `Partial` is
  overwritten by the next `Fresh`, and a graph without a build record is not rebuilt
  (`coordinator.go:1306`);
- a query during a rebuild sees a fresh but incomplete graph, one across a write three reads of
  two times; `Neighbors` from several seeds and a depth above one may miss nodes;
- `relatedResults` keys a result by kind, related node and seed (`query.go:545`), not by the
  direction of the edge. Of two documents that refer to each other it keeps the edge that sorts first
  and drops the other, which may be the more confident (a link has 0.9, a mention in code 0.72:
  `extractors.go:1016`), before `deduplicateResultsByTarget` counts the paths it suppresses and
  lets the higher confidence win (`dedup.go:11`, `:61`). The proof found it: its first form said that
  every node left out is no more certain than what is kept, and the step over `relatedResults` failed
  there. `NothingDroppedSilently` leaves such pairs out (`mutual`), and `MCGraph` has one;
- `ExpandContext` drops multi-hop results without a warning when direct ones fill the limit,
  and compares `max_tokens` with bytes of JSON; `symbol_calls` is never extracted.

Daemon and services
- eviction closes the stores of a search in progress; two overlapping starts remove each
  other's files; a crash between the two renames of `HNSWStore.Save` pairs a new graph with
  the old ids, whose keys the new store has given to other vectors, where `hnsw.go:286` says "Uses
  atomic save": the next process answers ids with vectors of other chunks (`mixed`);
- half-open admits every caller, where a comment speaks of one test request
  (`circuit.go:166`), and a late success closes a circuit opened since;
- `Stop` twice, or `Start` after the end, panics; `Wait` before `Start` never returns;
- a failed rename in a rotation leaves the writer without a file and every later write fails;
- `Flush` takes a read lock twice, so that a waiting `Record` blocks both for ever
  (`query_metrics.go:593`); what is stored are running totals, added again at every flush;
- a session copy cut after `metadata.db` is never completed; a deleted session saved back
  exceeds the limit; two servers share one temporary file; two that create one session for two
  projects at once each pass their own `serve.pid` and copy over each other's index files; two of
  one project that look at its `serve.pid` before either has written it both serve, where
  `serve.go:754` says "Prevent multiple serve instances on same project": the file is looked at,
  removed and written in three steps (`CheckPID`, `RemovePID`, `WritePID`) with nothing held
  between. `CopierServesAll` excludes both (`Rivals`, `raced`) and nothing else;
- the indexer's lock file stays behind a run that ended well where `os.Remove` fails, since
  `indexer.go:114` drops the error (`spoiled`);
- an answer of the embedding server with too few vectors leaves nil vectors, which are cached
  (Ollama), or panics (MLX); so does one with too many.

Files, chunks, set-up
- the ways `handleGitignoreChange` has for a nested file and for patterns added (`coordinator.go:779-836`,
  "Smart reconciliation strategy", `:713`) are never reached: the watcher reports a relative path
  (`hybrid.go:191`), for which `filepath.Rel` has no answer from an absolute root (`:773`), so that every
  change is a full scan; only tests pass an absolute path. They are not modelled, nor is `DiffPatterns`;
- a directory that is ignored when the watcher starts is never watched, and what its .gitignore says
  later goes unseen; so does an edit of a .gitignore the rules hide, as `*` in the root's hides itself;
- an index that a .gitignore has emptied stays empty over restarts while the hash of the .gitignore
  files is the same (`coordinator.go:1258`); a start with another embedder reconciles nothing;
- the hash of .gitignore files skips hidden and vendor directories;
- `**` beside other characters crosses slashes (`gitignore.go:244-255`: `src/**b` ignores `src/x/yb`), and
  a character class goes to the Go expression as it is (`:267-279`: `[!a]` ignores what begins with `!` or
  `a`): in both the matcher ignores what git would not, where `gitignore.go:1-3` says that it implements the
  gitignore syntax. `IgnoresAsGitDoes` states that, and TLC finds it violated by the lines `d/**.log` and `[!d]` of
  `MCOtherLines`; what holds, and is checked and proved, is `IgnoresNoMoreThanGit`, of `Plain` lines. `**` in
  the middle of a segment (`a**/b`), classes that span a slash and classes Go refuses are not modelled;
- an anchored pattern without a slash at the end does not ignore what is in the directory;
- the chunkers lose doc comments of symbols split by lines and the text of a split parent
  outside its children, give a parsed file without symbols no chunks, exceed the limit by one
  token, and take `# x` in a code fence for a header;
- `init` says "Embedder ready" when the status call fails; another tag of a model satisfies
  `HasModel`; a truncated pull is accepted; `EnsureModel`, `DownloadWithRetry` and
  `EnsureReady` are called by tests only.

## Fairness

- `Coordinator`: weak fairness of the process's own steps: goroutines that can run do run,
  and a stopped server is started again by the client that spawned it.
- `Watcher` (in `Files`): weak fairness of each goroutine, of the debounce timer and of the poll ticker.
  The timer is restarted by every event, but the user's changes are bounded.
- `BulkIndexer`: weak fairness of the run, and strong fairness of the command `serve` asks
  for: now and then the user runs `--resume` with the embedder of the interrupted run,
  whatever else is run in between.
- `Daemon`: weak fairness of each connection's goroutine, of each timer's call, of each
  compaction and of the shutdown. The shutdown waits for the searches in progress, which end
  because each step of their goroutines does.
- `CircuitBreaker`: callers go on calling, calls end (the clients have timeouts), and the
  reset timeout passes.

Nothing is assumed of the user's edits, of kills or of failures.

## Proofs

TLAPS checks seven modules; each theorem holds for any values of the constants the named
assumptions allow, where a run shows one small instance. `IndexStoresProofs` states what the
operations of the metadata store do to any set of chunk rows; the two indexers cite it.

`CoordinatorProofs`:

- `TypeCorrect`: `Spec => []TypeOK`. `TypeOK` is not inductive, because the chunks that are
  saved must be of a version that exists; `ReadInOrder` adds that the stamp was read no
  later than the text and the text no later than the file's current version.
- `OneRow`: `Spec => []OneRowPerPath`; only `SaveFiles` adds rows.
- `ChunksAreWhole` and `UnmodifiedIsCurrent`: `WholeGenerations` and
  `UnmodifiedMeansCurrent`, when the chunk query does not fail (a failed query counts as
  nothing to remove, so the condition is needed). The inductive invariant `IInv` adds that a
  chunk hangs on a row with `stamp <= gen <= ver` (`Anchored`), that the chunks of a path are
  of one version and complete (`Whole`), and what the handler has found, removed and written
  at each of its steps (`HandlerHolds`). The step that needs all of it is `SaveFiles`, whose
  cascade must remove the bulk indexer's chunks before the coordinator's are saved.

- `ChunksAreSearchable`: `SearchableUnlessDeleting`, if the metadata store deletes the chunks it
  is asked to (`DeleteChunks` does not fail) and the process is not stopped inside a handler
  (`CleanStop`); every other call may fail. The two conditions are those the code needs: the
  documents leave BM25 before the rows leave the metadata store, so stopping between the two
  strands the rows. The strengthening is `BM25First`: what is about to be saved is in BM25.
- `StaleFilesAreScheduled`: `StaleIsScheduled` under `OrdinarySpec`, if the calls an event cannot
  do without succeed (`Required`; embedding and the vector store may fail) and `serve` has the
  embedder of the index. `OrdinarySpec` is the life the promise is about: the index is not
  empty at start (else there is no reconciliation), nothing is edited during the scan (what is
  edited then is nobody's), and the process is stopped between handlers. `OrdinaryInv` joins to
  `IInv` what ties the four places a change can wait in: an event or item says what the file is
  now, unless another is behind it (`ReportsHold`); what the handler has read is the file, unless
  an event is pending (`ReadIsFresh`); a row never claims a later version than the disk has
  (`StampsHold`); and a row that is taken for unmodified has its chunks (`RowsComplete`,
  `SavedHold`), which is why reconciliation may skip it. Edits, reordering of events, skipped
  files, removals and restarts are all steps of the proof.

The same module proves `PromiseKept`: under the condition of `ChunksAreWhole` `HistorySpec` implements
`IndexPromise`. `IInv` makes the chunks of a path one published version (`InvShown`), a
step changes them in one of three ways (`ChunkSteps`), and the invariant `HInv` adds
what keeps old text from coming back: nothing published is newer than the file, and from
the moment the handler has read a text, nothing published of its path is newer than it.
That holds because one handler runs at a time; two would break it.

Of `ConsistencyChecker` it proves, under `AloneSpec`, `RepairRemoves` (`RepairRemovesOrphans`) and
`RepairKeeps` (`RepairKeepsLiveEntries`). `SeenIsSo` says that what the checker has read is what
the stores hold. The second also needs `Embedded`: every chunk row has its embedding, but for those
the handler at work has just saved, since a row without one counts as an orphan; it assumes that
`SaveChunkEmbeddings` does not fail, because the handler only logs that failure and the next repair then takes
the chunk out of both indexes.

`BulkIndexerProofs` proves, for any files, texts, embedders, batch size, kills and failures:

- `IncompleteRunsAreBlocked`: `IncompleteIsBlocked` and `NoOldGeneration`, assuming only
  `EditedBeforeRead` and `ReachesCheckpoint`. The invariant is in layers. `ReadInv` ties what a
  run has read to the disk: what was listed is read as it is now or is still to be read, and no
  row is newer than its file. `LeftInv` says, for each part of a run, what a kill would leave:
  before the first row, the index it found (`CompleteNow`, unless there is a checkpoint); from the
  first checkpoint to its removal, a checkpoint; after that, a complete index again. Under a
  checkpoint every chunk of a file the run reads is of its present text (`AllOfNow`), which is why
  a resumed run may skip the replacement of old chunks, and a run that does not resume has none
  left when it saves its own.
- `ServedIndexIsOfNow`: `ServedIsOfNow` under `CarefulSpec`. `ModelInv` adds that the embeddings
  under a checkpoint are of its model (`OfModel`), and that a run which embeds has the checkpoint's
  model. The theorem needs that loading a checkpoint and saving one do not both fail
  (`CheckpointIsReadOrSaved`; a single failure, as in the run, is covered). With both the code
  does mix models: a fresh run with another embedder that could not read the checkpoint, and
  could not replace it either, leaves its embeddings under the old model's name, and the resume
  that follows serves them together. TLC finds that history with two kills and two failures.

`WatcherProofs` proves `WatcherForgetsNoChange`: `HabitsSpec => []NoChangeForgotten`, for any
files, directories and capacities. The events of one file stand in a line: place 0 is the
coordinator's batch, then come the batches of `events` and `output`, then what is pending,
then what the source still holds. `FileOK` says of this line that a place holds at most one
operation of the file; that a CREATE behind the pending place comes after a removal, or of a
file the index does not know (`Gone`), which is why cancelling a CREATE with a DELETE is
harmless; that a source which has seen the file go has reported it (`Gone` at the end of the
line); and that one which has seen it as it is has reported that (`Fresh`). Each step does one
thing to the line: forwarding moves nothing, taking or dropping a batch removes an empty
place, a flush inserts one, the debouncer merges two neighbours, the source adds one at the
end. `Habits` enters where the source adds: fsnotify reports no CREATE of a file that was
there, misses none whose directory it watches, and no RENAME is under way when the file is
made again.

`ServerProofs` proves `VectorsStayTheirs` of `VectorFile` (`VectorsAreTheirs`), for any number of ids,
vectors, saves, loads and crashes. `FilesInv` keeps every key in use below `nextKey`, in memory and in
the file of ids, so that a new vector takes no key an id reads from; that a process goes on from the
saved `nextKey` is what carries this across restarts. Between the two renames of a `Save` nothing is
said of the files.

`ServerProofs` also proves `ServesReachably` of `DaemonProcess`: if no two starts have overlapped, the daemon
that serves is the one the socket and the PID file name (`ServingIsReachable`). `OneAtATime`
is the strengthening: one daemon at most is starting, none serves meanwhile, and whoever holds
the PID file is named in it.

Of `Daemon` it proves `DaemonKeepsStores` and `CompactionRunsAlone`, for any connections,
projects, cache size and number of compactions. For the first, `CacheInv` adds that
a state has a number of its own, that the order of use has each cached state once (so an eviction
takes it from cache, order and stores together), and that no handler is left once the server has
drained. For the second, `CompactInv` adds that a project's flag is set as long as a compaction of
it goes on, and that after the shutdown has begun to close none is past its last look at the
context, those included that slipped by `wg.Wait`.

Of `IgnoreSync` it proves `SettledStaysScan` (`SettledIndexIsScan`), for any files, patterns, .gitignore
files, edits, failures, kills and starts. `IgnoreInv` says that a scan beside the watcher finds the scanner's
cache cleared and the scans of a start find it of the files as they are, unless an edit went
unreported (`MatchersInv`); that what was found is what would be found now, while nothing is queued and nothing
unsure (`FoundInv`); and that the index is right once that has been applied and between two tasks (`RestInv`).
A scan may read a newer .gitignore than that of its event: then the newer one has an event of its own, or is
unreported. `SameScan` carries a scan over a cache that is empty or fresh to one over none. The theorem assumes
that paths and .gitignore files are sequences, that no file is a directory with a .gitignore, and that
the configuration file is none (`ScanningAssumption`, `IgnoreAssumption`).

`RulesStaySame` (`RulesMeanTheSame`) says that the rules themselves agree, in every phase and for
any .gitignore files, further lines, exclude patterns and submodules; nothing is asked of them but that
patterns, directories and paths are sequences and that git takes `**` beside names for a star
(`RulesAssumption`). Lines that are not `Plain` are in it but for git's part, which fails of them. Where a rule keeps a path out, it
does so for what it finds below its base or for a way to it, and at the end of that way git's reading of the
rule matches too (`RuleIsGits`); the one surprise is a pattern with a slash that `matchRule` tries
on a single name, which it matches only if the pattern begins with `**`, so that it matches the whole
way as well (`SeveralSegments`). A directory that is excluded excludes what is in it
(`ExcludedBelow`), so a walk may begin at any directory (`ReachedFromTop`), and a rule says of a path
seen from a submodule what it says of the path (`RuleFromRoot`). `Regex` and `Discovered` are
recursive functions; that these exist is proved like the other inductions, by the least number of
steps for which there is none (`RegexIs`, `DiscoveredIs`).

Two theorems are about the chunkers of `Chunking` and are two of the three parts of
`ChunksHoldTheFile`. `WindowsKeepLines` is about any lines: `HoldsFrom` says what the chunks from a line on
hold, and a turn of the loop (`NextLinesHold`) put before what the rest holds keeps it (`TurnAndRest`).
`SymbolsStayListed` is about any tree whose nodes have greater numbers than their parents, each node
but the root below another, and whose root is no symbol (`SomeTree`): a symbol that is not a topmost one
is found below its nearest ancestor (`NearestIs`), which is split if all its ancestors are too long and
few enough, and splitting keeps the chunks of the members (`SplitIs`, `SymbolsArePlaced`). Each of
these functions is recursive; `RecursionIsThere` proves once that a function exists whose values
depend on values of lower rank only, and `RankInduction` that what passes from lower ranks to
higher ones holds everywhere.

`SearchProofs` proves of `Retrieval`, for any chunks, requests, sub-queries, deletions and failing
stores: a search returns only chunks that existed when it began (`SearchReturnsNoGhost`), a chunk
among the first rows of the symbol table for an exact query is returned unless filters or the limit
keep it out (`SearchFindsDefinitions`), and a search fails only if a store it cannot do without
failed, the vector search of a query without a keyword match being one (`SearchSurvivesFailures`).
All three rest on enrichment: behind it every result is a chunk the metadata store had during the
search, and whatever the exact lookup added stays in up to the filter; that the lookup read the
first rows, whichever chunks went before and during it, is counted in `FirstRowsAreRead`.

It proves of `SourceMetadata` that `ProfilesAreRight`, for any set of sources and any edits
(`ProfilesStayRight`). There is no invariant to find here but a table per pass of the derivation:
what the path rules say (`RuledAs`), what the fallbacks by kind leave of it (`PlacedAs`), then the
front matter (`ItemAs`) and the decision (`DecidedAs`). From the last two follow the profile that
returns each source (`EverySourceIsReached`) and bounds on its priority that an outdated source is
below (`OutdatedIsLow`) and any other that says what it is above (`CurrentIsHigh`). The proof is
over every source the rules can tell apart, where the run takes the kinds that occur.

And of `Fusion`, for any documents, lists, weights, smoothing constant and number of sub-queries,
that `FusionIsSound` (`FusionStaysSound`). The comparison is a strict total order on entries of
different documents (`BeforeOrders`), so an entry's place is one more than the number of those before
it (`Position`), the places are all different, and whatever the sort does, it ends with the one list
that has each entry at its place (`SortedList`, `OneSorting`). What is left is arithmetic: a share
falls strictly with the rank (`ShareFalls`), a document absent from a list ranks behind both, so of two
documents on which the lists agree the higher has the greater score or, where no list of weight
tells them apart, the greater keyword score (`HigherComesFirst`); and a document that every sub-query
with the other one ranks no lower has in each a share as great, in one a greater, and a boost as great
(`ConsensusAdds`). The sum over the sub-queries is a recursive function and is followed by the least
number of terms at which a claim fails (`SumIs`, `SumGrows`). `FusionAssumption` asks of `Unit` only that
it is a common multiple of the denominators of the ranks there are, which exists: scores are exact.

`ServicesProofs` proves `LockIsTrue` (`LockTellsTruth`, from: while the running flag is set
exactly one run is active; outside a run the lock is there if the last run to write it was cut off,
and only then unless the file system failed to write or to remove it) and `RetriesAreExact` (`RetryIsExact`).

It also proves `SetupStaysSound` (`SetupIsSound`), for any commands, models and processes. What
a caller has seen stays so unless a doubt is raised (the server stops, a model is removed, which
the model counts): a server found running is running, a model found or pulled is listed. Hence
whoever is told the embedder is ready can make one. The other half, that a model file in place is one whole
download, is `DownloadIsWhole`: the holder of the lock is alone in the section.

`SessionsStayWhole` (`SessionsAreWhole`), for any servers, sessions and projects: `InodesAreApart`
has no inode under two names, so that a save which has met no other renames what it has itself
written (`SavesAreAlone`); `CopiersAreAlone` has one server past the PID file for each project where no two
were between the look at it and its writing at once, so that there two servers copy into one
session only if they opened it for two projects, and `CopyIsAsFar`
follows the copy of a server that is alone; the limit holds since a session made within the count
its server took leaves at most `MaxSessions`.

`LogStaysInOrder` (`LogKeepsOrder`) holds for any number of rotated files, any sizes and whatever
renames, closes and opens fail. `Shifted` moves a file by one or leaves it, and where two would be
in one place the newer stays, so order survives any set of failures; where nothing fails no number
is skipped (`NoneSkipped`), which is why lines are dropped from the oldest end only, and only once
every place is taken. The theorem assumes that `NoLog` is not a file.

`MetricsStayRight` (`MetricsAgree`), for any searches, queries, buffer and cache sizes: an event
recorded moves every count with it; the buffer's item at `size - Later(i)` is the query after which
`Later(i)` more had no result, and `AddedItem` says what one more does to every place, the wrapped ones
included; a term in the cache grows by one for each time it occurs, and a term that comes back
begins at one. From the moment the metrics are closed nothing is recorded any more, so what the closer
reads are the totals to the end (`CloserKeeps`).

`VectorsReachTheirTexts` (`EmbeddingOfItsText`), for any callers, texts and batches and any size of the
cache: of a call under way every position asked for has the vector of its text, or none yet and is still
pending, or none because the server left it out (`Half`); the positions not asked for were cached
(`LookedUp`). What is pending is never blank to the client and, for MLX, is all there is in order
(`Asks`), which is why its answer may be taken as it comes. `PositionsAreWanted` says that the
positions picked out of a batch are those wanted, `BatchAndRest` that a batch and the rest make up what was
pending, `RepeatedKeeps` that what each look-up or addition keeps all of them keep.

`GraphProofs` proves of `GraphOverlay`, for any files, texts, failing calls, kills and rebuilds:

- `GraphFollows`: `GraphFollowsIndex`, that the graph and the cache of sources keep to the index;
- `NoEdgeToDeleted`: `NoLiveEdgeToDeleted`, that no active edge leads to a file the graph was told
  is deleted.

The two need each other. A deleted file loses its inbound edges by the path in their target
node, and nodes are overwritten by whoever writes them last; so the invariant says which nodes
keep their path: those whose kind belongs to one file (`PrivateKinds`) name that file, and every
edge has both ends in the graph (`GraphOk`). That an edge the deletion marks is not one of another
file's own then holds for every kind but packages and imports, which is how the exception above
was found: without `bereft` the step is false, and TLC has the history. `Clear` keeps deleted files from
the ends of active edges; a later writer of another file cannot bring one back because what it
extracts only names files it was given (`MentionsArePart`, `TestsArePart`), the sources given are of the
index (`RebuildOk`) or of the cache, which has none of a file in `gone` (`KnownOk`), and a deleted file is
not in the index (`GoneOk`). `KnownOk` says of the files in `changed` only that: a handler that failed may
have left the cache with chunks the index no longer has. `RebuildOk` says
that a rebuild still has, of each file whose change was indexed, the text the index has, which holds for the server's
because it has the coordinator's lock and for a command's because no server runs. The theorems
assume `OverlayAssumption`: a source has its own path, the chunks of the text it was indexed with, or of
what the index has of it, and no two files share a chunk ID.

Of `GraphQuery` it proves, for any graph, question, budgets and writing between the reads:

- `AnswersDropNothing`: `NothingDroppedSilently`, that a node one edge from the subject and not
  among the results is missing because of a budget the answer names, and is no more certain than what
  was kept of its relation.

The status, nodes and edges an answer is made from may be of three times, so the invariant
(`AskedInv`) is about each alone: what is asked is valid while it is under way, and an answer leaves
out only what it says of what was read (`AskedAlways`). The work is about the lists. `Chosen` keeps, of a list, what is at some places, in order
(`ChosenKeeps`). Merging keeps of a kind between two nodes the most confident (`MergeKeepsBest`); each
edge kept gives a result, unless an opposite one of its kind came before or the budget of nodes was
reached and said so (`GatheredAll`, `RelatedAreAll`). One result stays for each node, at least as
certain as any that was for it (`JoinedKeepsBest`, `DeduplicatedKeeps`). They are sorted
(`BestFirstSorts`: the keys differ, since no two are for one node), and what budgets keep of a relation
is then its beginning (`CappedKeeps`). The theorem assumes `QuestionAssumption`: the orders list what
edges speak of, confidences are from 0 to 100, there are four kinds of question, and budgets are
numbers (`BudgetsAreNumbers`).

Only model-checked: all liveness (out of the prover's reach), query classification, the paths,
neighbours and packs of the graph (`EvidenceIsComplete`) and, of `ChunksHoldTheFile`, the texts of Markdown
and PDF files. What their folds and recursive operators compute (a walk through the graph, the packing of
a text) is checked against its definition over bounded inputs only: the library's induction theorems cannot
be used here. Where a proof needs a recursive function (`CountTerms`, `SumOf`, `Regex`, `SplitLargeSymbol`), it
argues by the least number that fails, which exists because `<` is well-founded (`LeastIsThere`).

## Not modelled

- The MCP transport and its tool handlers, output and rendering, configuration parsing, the
  command line, evaluation and profiling: I/O and formatting around the parts above, which keep
  no state a property could relate. Contextual enrichment adds a sentence to a text before it is
  embedded. The public library (`pkg/`) is a set of wrappers over the same stores.
- Tree-sitter, regular expressions, tokenizers, BM25 and HNSW scores: the models take what they
  find as given (a tree, the patterns a query matches, the documents an index returns).
- A kill or failure between the last two writes of `Engine.Index`, of the embeddings and of `index_model`, as a
  state of its own: `IndexEmbeddings` has each fail, in one step. A request for graph context with a limit or depth
  left out is the one with the default.
- Two processes that save the vector store at once: the daemon's compaction and `amanmcp compact` of one
  project share `vectors.hnsw.tmp` and have no lock between them. `VectorFile` has one saver at a time.
- `Stop` of the watcher and the send on a channel it may have closed (`hybrid.go:406`); a second
  edit within a second that keeps the size, which reconciliation cannot see.
- The parts are composed where they share state: checker and coordinator, graph and
  coordinator, compaction and daemon. Watcher, coordinator and `.gitignore` reconciliation over
  one set of stores would be beyond TLC at sizes where anything happens; `Watcher` takes a
  coordinator call for one step, `Coordinator` any order of events.
