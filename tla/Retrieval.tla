------------------------------ MODULE Retrieval -----------------------------
(***************************************************************************)
(* One search, from the query to its results, beside a coordinator that    *)
(* deletes chunks: candidates from the two indexes (or from sub-queries in *)
(* parallel), reranking, enrichment from the metadata store, supplementary *)
(* candidates, filters and the limit.  Any call of a store may fail.       *)
(* Results are sets: their order is the subject of Fusion, and the boosts  *)
(* only change it, so that the limit may keep any of them.                 *)
(***************************************************************************)
EXTENDS Naturals, FiniteSets, Sequences, SequencesExt, FiniteSetsExt, QueryShape, SourceMetadata

CONSTANTS
    Chunk,          \* chunk identifiers the two indexes may return
    SourceOf,       \* [Chunk -> the source a chunk is of, as SourceMetadata has it]
    SymbolChunk,    \* the chunks the symbol table has for the query
    SymbolRank,     \* [SymbolChunk -> the place GetChunksBySymbol sorts the chunk to]
    SymbolMinimum,  \* the least number of rows it is asked for, 10 in the code
    ADRChunk,       \* the chunks of the paths that decision records name
    PathChunk,      \* the chunks of the paths the sub-queries name
    Request,        \* the searches: [query, filter, search, profile, limit, bm25Only]
    Policy,         \* Config.RerankerPolicy
    MaxSubQueries,  \* MultiQuerySearcher.maxSubQueries
    MaxDeletes      \* bound: chunks deleted while the search runs

ASSUME RetrievalAssumption ==
    /\ IsFiniteSet(Chunk) /\ DOMAIN SourceOf = Chunk
    /\ \A r \in Request : r.limit \in Nat
    /\ SymbolChunk \cup ADRChunk \cup PathChunk \subseteq Chunk
    /\ SymbolRank \in [SymbolChunk -> Nat] /\ SymbolMinimum \in Nat
    /\ Policy \in {"auto", "always", "never"}
    /\ MaxSubQueries \in Nat \ {0} /\ MaxDeletes \in Nat

VARIABLES
    request,
    live,       \* the chunks in the metadata store
    bornLive,   \* those that were there when the search began
    at,         \* the next call of the search
    mismatch,   \* whether validateDimensions fails
    class,      \* the class the query was given, "none" if it was given none
    found,      \* the results so far
    sub,        \* [sub-query -> [done, found]]
    down,       \* the stores that failed in this search
    unmatched   \* whether the keyword index matched nothing: a nil list, no error

retrievalVars == <<request, live, bornLive, at, mismatch, class, found, sub, down, unmatched>>

Query == request.query
Subs  == LET all == Decompose(Query)
         IN  SubSeq(all, 1, Min({Len(all), MaxSubQueries}))
IsMulti == ShouldDecompose(Query)

At == {"classify", "candidates", "subqueries", "rerank", "enrich", "symbols", "adr", "paths",
       "pdf", "filter", "done", "failed"}

RetrievalInit ==
    /\ request \in Request
    /\ live \in {Chunk, Chunk \ {1}}
    /\ bornLive = live
    /\ at = "classify"
    /\ mismatch \in BOOLEAN
    /\ class = "none"
    /\ found = {}
    /\ sub = [i \in DOMAIN Subs |-> [done |-> FALSE, found |-> {}]]
    /\ down = {} /\ unmatched = FALSE

\* A coordinator deletes a chunk from the metadata store: the indexes may have
\* it still, or lose it later.
DeleteChunk(c) ==
    /\ Cardinality(bornLive \ live) < MaxDeletes
    /\ c \in live /\ live' = live \ {c}
    /\ at \notin {"done", "failed"}
    /\ UNCHANGED <<request, bornLive, at, mismatch, class, found, sub, down, unmatched>>

Go(from, to) == at = from /\ at' = to

Fail(from, stores) ==
    /\ Go(from, "failed") /\ down' = down \cup stores /\ found' = {}
    /\ UNCHANGED <<request, live, bornLive, mismatch, class, sub, unmatched>>

-----------------------------------------------------------------------------
(* Candidates.                                                             *)

\* Search: an ordinary query is classified, unless that fails; a query that is
\* decomposed is not, since its options have their weights before its
\* sub-queries look for them.
ClassifyForSearch ==
    /\ at = "classify"
    /\ at' = IF IsMulti THEN "subqueries" ELSE "candidates"
    /\ class' \in IF IsMulti THEN {"none"} ELSE {"none", ClassifyQuery(Query)}
    /\ UNCHANGED <<request, live, bornLive, mismatch, found, sub, down, unmatched>>

KeywordAlone == request.bm25Only \/ mismatch

\* What the two indexes answer, in parallel, or the keyword index alone when
\* that was asked for or the embeddings have other dimensions: lists of at most
\* candidateLimit entries each, a failure, or, from the keyword index, no list:
\* what it has for a query that matches nothing.
Hits(r, opts) ==
    Cardinality({s \in {"bm25", "vector"} : r[s] = "list"}) * CandidateLimit(Query, opts)

Searches(opts) ==
    {r \in [found : SUBSET Chunk, bm25 : {"list", "none", "failed"},
            vector : IF KeywordAlone THEN {"unasked"} ELSE {"list", "failed"}] :
        Cardinality(r.found) <= Hits(r, opts)}

DownIn(r) == {s \in {"bm25", "vector"} : r[s] = "failed"}

\* An error, and neither search has a list.
NothingWorks(r) == IF KeywordAlone THEN r.bm25 = "failed"
                                   ELSE r.bm25 # "list" /\ r.vector = "failed"

\* Search: an error if the search that was tried alone failed, or if the vector
\* search did and there is no list from the keyword index: it failed too, or
\* it matched nothing.
SearchCandidates ==
    /\ at = "candidates"
    /\ \E r \in Searches(request) :
          /\ at' = IF NothingWorks(r) THEN "failed" ELSE "rerank"
          /\ found' = r.found
          /\ down' = down \cup DownIn(r)
          /\ unmatched' = (r.bm25 = "none")
    /\ UNCHANGED <<request, live, bornLive, mismatch, class, sub>>

\* The options of a sub-query: its hint filters if no filter was asked for, and
\* it fetches for at least 50 results.
SubOptions(i) ==
    [filter |-> IF Subs[i].hint # "" /\ request.filter \in {"", "all"}
                THEN Subs[i].hint ELSE request.filter,
     search |-> request.search, profile |-> request.profile,
     limit |-> IF request.limit < 50 THEN 50 ELSE request.limit]

\* ApplyFilters, on chunks the metadata store still has.
Filtered(chunks, opts) == {c \in chunks : PassesFilters(SourceOf[c], opts)}

\* Mutation of RunSubQuery: a sub-query that fails ends the search.
RunSubQueryStrict(i) ==
    /\ at = "subqueries" /\ ~sub[i].done
    /\ \E r \in Searches(SubOptions(i)) :
          IF NothingWorks(r) THEN Fail("subqueries", DownIn(r))
          ELSE /\ sub' = [sub EXCEPT ![i] = [done |-> TRUE, found |-> r.found]]
               /\ UNCHANGED <<request, live, bornLive, at, mismatch, class, found, down, unmatched>>

\* singleSearch in its goroutine: it filters when it may look at the metadata,
\* and stays unfiltered when they fail; a failed search leaves it empty.
RunSubQuery(i) ==
    /\ at = "subqueries" /\ ~sub[i].done
    /\ \E r \in Searches(SubOptions(i)) :
          LET both == ~KeywordAlone /\ SubOptions(i).filter \notin {"", "all"}
          IN  \/ /\ both
                 /\ sub' = [sub EXCEPT ![i] = [done |-> TRUE,
                              found |-> Filtered(r.found \cap live, SubOptions(i))]]
                 /\ down' = down \cup DownIn(r)
              \/ /\ sub' = [sub EXCEPT ![i] = [done |-> TRUE, found |-> r.found]]
                 /\ down' = down \cup DownIn(r) \cup (IF both THEN {"metadata"} ELSE {})
    /\ UNCHANGED <<request, live, bornLive, at, mismatch, class, found, unmatched>>

\* MultiQuerySearcher.Search: wait for all, fuse, keep the first ones.
FuseSubSearches ==
    /\ Go("subqueries", "enrich")
    /\ \A i \in DOMAIN sub : sub[i].done
    /\ LET all == UNION {sub[i].found : i \in DOMAIN sub}
       IN  found' \in {s \in SUBSET all :
                        Cardinality(s) = Min({Cardinality(all), request.limit})}
    /\ UNCHANGED <<request, live, bornLive, mismatch, class, sub, down, unmatched>>

\* rerankResults: skipped, unavailable or failed it changes nothing; applied,
\* it keeps what still has text, less what the reranker answers nonsense for.
Rerank ==
    /\ Go("rerank", "enrich")
    /\ \/ found' = found
       \/ /\ AppliesReranker(Policy, Query, class)
          /\ Cardinality(found) >= 2 /\ found \cap live # {}
          /\ found' \in SUBSET (found \cap live)
    /\ UNCHANGED <<request, live, bornLive, mismatch, class, sub, down, unmatched>>

-----------------------------------------------------------------------------
(* Results.                                                                *)

\* Mutation of Enrich: what an index returns is taken to exist.
EnrichAll ==
    /\ Go("enrich", "symbols") /\ found' = found
    /\ UNCHANGED <<request, live, bornLive, mismatch, class, sub, down, unmatched>>

\* enrichResults: GetChunks leaves out what the store does not have.
Enrich ==
    \/ /\ Go("enrich", "symbols") /\ found' = found \cap live
       /\ UNCHANGED <<request, live, bornLive, mismatch, class, sub, down, unmatched>>
    \/ found # {} /\ Fail("enrich", {"metadata"})

\* The supplementary candidates, one lookup each: results the list has already
\* are not added again.
Supplement(from, to, asks, more) ==
    \/ /\ Go(from, to)
       /\ found' = IF asks THEN found \cup (more \cap live) ELSE found
       /\ UNCHANGED <<request, live, bornLive, mismatch, class, sub, down, unmatched>>
    \/ asks /\ Fail(from, {"metadata"})

\* GetChunksBySymbol reads some of the first rows' chunk identifiers, no more
\* than the limit, in an order that leaves ties open; a chunk that is deleted
\* before its own read had a row and is not returned.
SymbolLimit == IF request.limit < SymbolMinimum THEN SymbolMinimum ELSE request.limit

SymbolRows(table) ==
    {rows \in SUBSET (SymbolChunk \cap table) :
        /\ \/ rows = SymbolChunk \cap table
           \/ Cardinality(rows) = SymbolLimit
        /\ Cardinality(rows) <= SymbolLimit
        /\ \A c \in rows, d \in (SymbolChunk \cap table) \ rows : SymbolRank[c] <= SymbolRank[d]}

SymbolReads == UNION {SymbolRows(live \cup gone) : gone \in SUBSET (bornLive \ live)}

\* Mutation of AddExactSymbols: only a search that found nothing needs it.
AddSymbolsIfEmpty ==
    /\ at = "symbols"
    /\ \E rows \in SymbolReads :
          Supplement("symbols", "adr", AsksSymbols(Query) /\ found = {}, rows)

AddExactSymbols ==
    /\ at = "symbols"
    /\ \E rows \in SymbolReads : Supplement("symbols", "adr", AsksSymbols(Query), rows)

\* addADRReferenceCandidates also asks the keyword index for the records.
AddADRReferences ==
    \/ Supplement("adr", IF IsMulti THEN "paths" ELSE "pdf", AsksADR(Query, request), ADRChunk)
    \/ AsksADR(Query, request) /\ Fail("adr", {"bm25"})

AddSubQueryPaths == Supplement("paths", "pdf", AsksPaths(Decompose(Query), request), PathChunk)

AddPDFContent ==
    Supplement("pdf", "filter", AsksPDF(Query, request),
               {c \in Chunk : SourceOf[c].kind = "pdf"})

\* Adjacent chunks (whose lookup may fail), boosts, ApplyFilters, and the limit,
\* which a query that was decomposed has behind it.
FilterAndLimit ==
    /\ Go("filter", "done")
    /\ LET kept == Filtered(found, request)
       IN  found' \in IF IsMulti THEN {kept}
                      ELSE {s \in SUBSET kept :
                               Cardinality(s) = Min({Cardinality(kept), request.limit})}
    /\ UNCHANGED <<request, live, bornLive, mismatch, class, sub, down, unmatched>>

Search ==
    \/ ClassifyForSearch \/ SearchCandidates \/ FuseSubSearches \/ Rerank \/ Enrich
    \/ \E i \in DOMAIN sub : RunSubQuery(i)
    \/ AddExactSymbols \/ AddADRReferences \/ AddSubQueryPaths \/ AddPDFContent
    \/ FilterAndLimit

RetrievalNext == Search \/ \E c \in Chunk : DeleteChunk(c)

RetrievalSpec == RetrievalInit /\ [][RetrievalNext]_retrievalVars

-----------------------------------------------------------------------------

\* Whatever the indexes hold and whatever lookups add to their results, a
\* search returns only chunks that existed when it began.
NoGhostReturned == at = "done" => found \subseteq bornLive

\* The chunks no order of the rows puts behind the limit of the lookup, as the
\* table was when the search began.
FirstDefinitions ==
    {c \in SymbolChunk \cap bornLive :
        Cardinality({d \in SymbolChunk \cap bornLive : SymbolRank[d] <= SymbolRank[c]}) <= SymbolLimit}

\* An exact lookup finds the definitions: whatever the indexes miss, whatever
\* the reranker drops and whichever of them fails, a chunk that is among the
\* first rows of the symbol table is among the results if it passes the filters
\* and the limit leaves room.  The rows are cut before the filters: of those
\* behind the limit nothing is promised, though the filters keep all others out.
DefinitionsAreFound ==
    at = "done" /\ AsksSymbols(Query) /\ Cardinality(found) < request.limit
        => Filtered(FirstDefinitions \cap live, request) \subseteq found

\* A search fails only if the metadata store did, or the keyword index, which
\* alone serves a mismatched index and decision references, or the vector
\* search, for a query the keyword index has no list for: it failed as well, or
\* it matched nothing.  A decomposed one survives its sub-queries.
FailsOnlyWhenItMust ==
    at = "failed" =>
        \/ "metadata" \in down
        \/ "bm25" \in down /\ AsksADR(Query, request)
        \/ ~IsMulti /\ "bm25" \in down /\ KeywordAlone
        \/ ~IsMulti /\ "vector" \in down /\ ("bm25" \in down \/ unmatched)

=============================================================================
