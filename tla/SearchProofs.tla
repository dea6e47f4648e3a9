---------------------------- MODULE SearchProofs ----------------------------
(***************************************************************************)
(* One search beside a coordinator that deletes chunks, for any chunks,    *)
(* requests and numbers of sub-queries and deletions.  What a search       *)
(* returns rests on enrichment: from there on every result is a chunk the  *)
(* store had during the search, and an exact lookup's chunks stay in.      *)
(* Then the sources themselves, of every kind there is: what each pass of  *)
(* the derivation makes of a source's metadata, one table per pass, what   *)
(* the profiles make of that, and what an edit changes.  Last the fusions, *)
(* for any weights and lists: the comparison orders the entries, so each   *)
(* has a place of its own, the number of those before it, and an entry     *)
(* whose ranks are no worse has the greater score.                         *)
(***************************************************************************)
EXTENDS Retrieval, Fusion, FiniteSetTheorems, WellFoundedInduction, NaturalsInduction, TLAPS

\* The steps behind enrichment, and those behind the exact lookup.
Enriched  == {"symbols", "adr", "paths", "pdf", "filter", "done"}
LookedUp  == {"adr", "paths", "pdf", "filter"}

RetrievalTypeOK ==
    /\ request \in Request
    /\ at \in At
    /\ live \subseteq bornLive /\ bornLive \subseteq Chunk
    /\ found \subseteq Chunk
    /\ \A i \in DOMAIN sub : sub[i].found \subseteq Chunk

\* The strengthening of the three invariants.
RetrievalInv ==
    /\ RetrievalTypeOK
    /\ at \in Enriched => found \subseteq bornLive
    /\ at \in LookedUp /\ AsksSymbols(Query) => FirstDefinitions \cap live \subseteq found
    /\ at = "subqueries" => IsMulti
    /\ at \in {"candidates", "rerank"} => ~IsMulti
    /\ DefinitionsAreFound
    /\ FailsOnlyWhenItMust

LEMMA RetrievalStart == RetrievalInit => RetrievalInv
<1> SUFFICES ASSUME RetrievalInit  PROVE RetrievalInv
  OBVIOUS
<1>1. live \subseteq Chunk
  BY DEF RetrievalInit
<1>2. \A i \in DOMAIN sub : sub[i].found = {}
  BY DEF RetrievalInit
<1>3. at = "classify" /\ found = {} /\ request \in Request /\ bornLive = live
  BY DEF RetrievalInit
<1> HIDE DEF IsMulti
<1> QED
  BY <1>1, <1>2, <1>3
  DEF RetrievalInv, RetrievalTypeOK, At, Enriched, LookedUp, DefinitionsAreFound,
      FailsOnlyWhenItMust, KeywordAlone

\* A deletion takes nothing from the results, and ends with the search.
LEMMA DeleteKeeps == ASSUME RetrievalInv, NEW c \in Chunk, DeleteChunk(c)  PROVE RetrievalInv'
<1>1. live' \subseteq live /\ at' = at /\ at \notin {"done", "failed"}
  BY DEF DeleteChunk
<1>2. request' = request /\ bornLive' = bornLive /\ mismatch' = mismatch /\ found' = found
      /\ sub' = sub /\ down' = down /\ unmatched' = unmatched
  BY DEF DeleteChunk
<1>3. Query' = Query /\ IsMulti' = IsMulti /\ KeywordAlone' = KeywordAlone
      /\ FirstDefinitions' = FirstDefinitions
  BY <1>2 DEF Query, IsMulti, KeywordAlone, FirstDefinitions, SymbolLimit
<1> HIDE DEF IsMulti
<1> QED
  BY <1>1, <1>2, <1>3
  DEF RetrievalInv, RetrievalTypeOK, At, Enriched, LookedUp, DefinitionsAreFound,
      FailsOnlyWhenItMust

\* What a failed call ends the search with.
LEMMA FailKeeps ==
    ASSUME RetrievalInv, NEW from, NEW stores, Fail(from, stores),
           \/ "metadata" \in stores
           \/ "bm25" \in stores /\ AsksADR(Query, request)
    PROVE  RetrievalInv'
<1>1. at' = "failed" /\ found' = {} /\ stores \subseteq down'
  BY DEF Fail, Go
<1>2. request' = request /\ live' = live /\ bornLive' = bornLive /\ mismatch' = mismatch
      /\ sub' = sub
  BY DEF Fail
<1>3. Query' = Query /\ IsMulti' = IsMulti
  BY <1>2 DEF Query, IsMulti
<1>4. FailsOnlyWhenItMust'
  BY <1>1, <1>2, <1>3 DEF FailsOnlyWhenItMust
<1> QED
  BY <1>1, <1>2, <1>3, <1>4
  DEF RetrievalInv, RetrievalTypeOK, At, Enriched, LookedUp, DefinitionsAreFound

\* The candidates: whatever the indexes return, nothing is promised of it yet.
LEMMA CandidatesKeep ==
    ASSUME RetrievalInv,
           ClassifyForSearch \/ SearchCandidates \/ FuseSubSearches \/ Rerank
              \/ \E i \in DOMAIN sub : RunSubQuery(i)
    PROVE  RetrievalInv'
<1> USE DEF RetrievalInv, RetrievalTypeOK, At, Enriched, LookedUp, DefinitionsAreFound,
            FailsOnlyWhenItMust
<1>0. ASSUME NEW opts, NEW r \in Searches(opts)  PROVE r.found \subseteq Chunk
  BY DEF Searches
<1>1. CASE ClassifyForSearch
  <2>1. Query' = Query /\ IsMulti' = IsMulti
    BY <1>1 DEF ClassifyForSearch, Query, IsMulti
  <2> HIDE DEF IsMulti
  <2> QED
    BY <1>1, <2>1 DEF ClassifyForSearch
<1>2. CASE SearchCandidates
  <2>1. PICK r \in Searches(request) :
            /\ at' = IF NothingWorks(r) THEN "failed" ELSE "rerank"
            /\ found' = r.found /\ down' = down \cup DownIn(r)
            /\ unmatched' = (r.bm25 = "none")
    BY <1>2 DEF SearchCandidates
  <2>2. at = "candidates" /\ request' = request /\ live' = live /\ bornLive' = bornLive
        /\ mismatch' = mismatch /\ sub' = sub
    BY <1>2 DEF SearchCandidates
  <2>3. Query' = Query /\ IsMulti' = IsMulti /\ KeywordAlone' = KeywordAlone /\ ~IsMulti
    BY <2>2 DEF Query, IsMulti, KeywordAlone
  <2>4. NothingWorks(r) => FailsOnlyWhenItMust'
    <3>1. r.bm25 \in {"list", "none", "failed"}
      BY DEF Searches
    <3>2. CASE KeywordAlone
      BY <2>1, <2>3, <3>2 DEF NothingWorks, DownIn
    <3>3. CASE ~KeywordAlone
      BY <2>1, <2>3, <3>1, <3>3 DEF NothingWorks, DownIn
    <3> QED
      BY <3>2, <3>3
  <2>5. found' \subseteq Chunk
    BY <2>1, <1>0
  <2> HIDE DEF IsMulti
  <2> QED
    BY <2>1, <2>2, <2>3, <2>4, <2>5
<1>3. CASE FuseSubSearches
  <2>1. found' \subseteq UNION {sub[i].found : i \in DOMAIN sub}
    BY <1>3 DEF FuseSubSearches
  <2>2. found' \subseteq Chunk
    BY <2>1
  <2>3. at' = "enrich" /\ request' = request /\ live' = live /\ bornLive' = bornLive
        /\ sub' = sub
    BY <1>3 DEF FuseSubSearches, Go
  <2> QED
    BY <2>2, <2>3
<1>4. CASE Rerank
  <2>1. found' \subseteq found
    BY <1>4 DEF Rerank
  <2>2. at' = "enrich" /\ request' = request /\ live' = live /\ bornLive' = bornLive
        /\ sub' = sub
    BY <1>4 DEF Rerank, Go
  <2> QED
    BY <2>1, <2>2
<1>5. ASSUME NEW i \in DOMAIN sub, RunSubQuery(i)  PROVE RetrievalInv'
  <2>1. at = "subqueries" /\ at' = at /\ request' = request /\ live' = live
        /\ bornLive' = bornLive /\ found' = found
    BY <1>5 DEF RunSubQuery
  <2>2. PICK s \in SUBSET Chunk : sub' = [sub EXCEPT ![i] = [done |-> TRUE, found |-> s]]
    <3>1. ASSUME NEW r \in Searches(SubOptions(i))
          PROVE  r.found \subseteq Chunk /\ Filtered(r.found \cap live, SubOptions(i)) \subseteq Chunk
      BY <1>0 DEF Filtered
    <3> QED
      BY <1>5, <3>1 DEF RunSubQuery
  <2>3. \A j \in DOMAIN sub' : sub'[j].found \subseteq Chunk
    BY <2>2
  <2>4. Query' = Query /\ IsMulti' = IsMulti
    BY <2>1 DEF Query, IsMulti
  <2> QED
    BY <2>1, <2>3, <2>4
<1> QED
  BY <1>1, <1>2, <1>3, <1>4, <1>5

\* The lookup of the symbol table reads the first of its rows, whichever chunks
\* are deleted before and during it.
LEMMA FirstRowsAreRead ==
    ASSUME request \in Request, live \subseteq bornLive, bornLive \subseteq Chunk,
           NEW rows \in SymbolReads
    PROVE  FirstDefinitions \cap live \subseteq rows
<1>1. PICK gone \in SUBSET (bornLive \ live) : rows \in SymbolRows(live \cup gone)
  BY DEF SymbolReads
<1> DEFINE table == SymbolChunk \cap (live \cup gone)
<1>2. rows \subseteq table /\ table \subseteq SymbolChunk \cap bornLive
  BY <1>1 DEF SymbolRows
<1>3. SymbolLimit \in Nat
  BY RetrievalAssumption DEF SymbolLimit
<1> SUFFICES ASSUME NEW c \in FirstDefinitions \cap live, c \notin rows  PROVE FALSE
  OBVIOUS
<1> DEFINE ahead == {d \in SymbolChunk \cap bornLive : SymbolRank[d] <= SymbolRank[c]}
<1>4. c \in table /\ c \in ahead
  BY RetrievalAssumption DEF FirstDefinitions
<1>5. Cardinality(rows) = SymbolLimit /\ \A d \in rows : SymbolRank[d] <= SymbolRank[c]
  BY <1>1, <1>4 DEF SymbolRows
<1>6. rows \cup {c} \subseteq ahead
  BY <1>2, <1>4, <1>5
<1>7. IsFiniteSet(ahead) /\ IsFiniteSet(rows)
  BY <1>2, FS_Subset, RetrievalAssumption
<1>8. Cardinality(rows \cup {c}) = SymbolLimit + 1
  BY <1>5, <1>7, FS_AddElement
<1>9. Cardinality(rows \cup {c}) <= Cardinality(ahead) /\ Cardinality(ahead) \in Nat
  BY <1>6, <1>7, FS_Subset, FS_CardinalityType
<1>10. Cardinality(ahead) <= SymbolLimit
  BY DEF FirstDefinitions
<1> QED
  BY <1>3, <1>8, <1>9, <1>10

\* A supplementary lookup adds what the store has, or fails with the store.
LEMMA SupplementKeeps ==
    ASSUME RetrievalInv, NEW from \in LookedUp \cup {"symbols"}, NEW to \in LookedUp,
           NEW asks \in BOOLEAN, NEW more, Supplement(from, to, asks, more),
           from = "symbols" => /\ asks = AsksSymbols(Query)
                               /\ FirstDefinitions \cap live \subseteq more
    PROVE  RetrievalInv'
<1>1. CASE asks /\ Fail(from, {"metadata"})
  BY <1>1, FailKeeps
<1>2. CASE ~(asks /\ Fail(from, {"metadata"}))
  <2>1. at = from /\ at' = to
    BY <1>2 DEF Supplement, Go
  <2>2. found' = IF asks THEN found \cup (more \cap live) ELSE found
    BY <1>2 DEF Supplement
  <2>3. request' = request /\ live' = live /\ bornLive' = bornLive /\ sub' = sub
    BY <1>2 DEF Supplement
  <2>4. Query' = Query /\ FirstDefinitions' = FirstDefinitions
    BY <2>3 DEF Query, FirstDefinitions, SymbolLimit
  <2>5. found \subseteq bornLive /\ live \subseteq bornLive /\ bornLive \subseteq Chunk
    BY <2>1 DEF RetrievalInv, RetrievalTypeOK, Enriched, LookedUp
  <2>6. found' \subseteq bornLive
    BY <2>2, <2>5
  <2>7. AsksSymbols(Query) => FirstDefinitions \cap live \subseteq found'
    BY <2>1, <2>2 DEF RetrievalInv, LookedUp
  <2> QED
    BY <2>1, <2>3, <2>4, <2>5, <2>6, <2>7
    DEF RetrievalInv, RetrievalTypeOK, At, Enriched, LookedUp, DefinitionsAreFound,
        FailsOnlyWhenItMust
<1> QED
  BY <1>1, <1>2

\* Enrichment and the lookups.
LEMMA LookupsKeep ==
    ASSUME RetrievalInv,
           Enrich \/ AddExactSymbols \/ AddADRReferences \/ AddSubQueryPaths \/ AddPDFContent
    PROVE  RetrievalInv'
<1>1. CASE Enrich
  <2>1. CASE found # {} /\ Fail("enrich", {"metadata"})
    BY <2>1, FailKeeps
  <2>2. CASE ~(found # {} /\ Fail("enrich", {"metadata"}))
    BY <1>1, <2>2
    DEF Enrich, Go, RetrievalInv, RetrievalTypeOK, At, Enriched, LookedUp, DefinitionsAreFound,
        FailsOnlyWhenItMust
  <2> QED
    BY <2>1, <2>2
<1>2. CASE AddExactSymbols
  <2>1. AsksSymbols(Query) \in BOOLEAN
    BY DEF AsksSymbols
  <2>2. PICK rows \in SymbolReads : Supplement("symbols", "adr", AsksSymbols(Query), rows)
    BY <1>2 DEF AddExactSymbols
  <2>3. FirstDefinitions \cap live \subseteq rows
    BY FirstRowsAreRead DEF RetrievalInv, RetrievalTypeOK
  <2> QED
    BY <2>1, <2>2, <2>3, SupplementKeeps DEF LookedUp
<1>3. CASE AddADRReferences
  <2>1. CASE AsksADR(Query, request) /\ Fail("adr", {"bm25"})
    BY <2>1, FailKeeps
  <2>2. PICK to \in {"paths", "pdf"} :
            Supplement("adr", to, AsksADR(Query, request), ADRChunk)
               \/ (AsksADR(Query, request) /\ Fail("adr", {"bm25"}))
    BY <1>3 DEF AddADRReferences
  <2>3. AsksADR(Query, request) \in BOOLEAN /\ "adr" \in LookedUp /\ to \in LookedUp
    BY DEF AsksADR, LookedUp
  <2> QED
    BY <2>1, <2>2, <2>3, SupplementKeeps
<1>4. CASE AddSubQueryPaths
  <2>1. AsksPaths(Decompose(Query), request) \in BOOLEAN
    BY DEF AsksPaths
  <2> QED
    BY <1>4, <2>1, SupplementKeeps DEF AddSubQueryPaths, LookedUp
<1>5. CASE AddPDFContent
  <2>1. AsksPDF(Query, request) \in BOOLEAN
    BY DEF AsksPDF
  <2> DEFINE pdfs == {c \in Chunk : SourceOf[c].kind = "pdf"}
  <2>2. Supplement("pdf", "filter", AsksPDF(Query, request), pdfs)
    BY <1>5 DEF AddPDFContent
  <2> HIDE DEF pdfs
  <2> QED
    BY <2>1, <2>2, SupplementKeeps DEF LookedUp
<1> QED
  BY <1>1, <1>2, <1>3, <1>4, <1>5

\* A list that is shorter than the limit allows has lost nothing to it.
LEMMA ShortListIsWhole ==
    ASSUME NEW kept \in SUBSET Chunk, NEW limit \in Nat, NEW s \in SUBSET kept,
           Cardinality(s) = Min({Cardinality(kept), limit}), Cardinality(s) < limit
    PROVE  s = kept
<1>1. IsFiniteSet(kept)
  BY FS_Subset, RetrievalAssumption
<1>2. Cardinality(kept) \in Nat
  BY <1>1, FS_CardinalityType
<1> DEFINE n == Cardinality(kept)
<1>3. \A m \in Nat : Min({m, limit}) = m \/ Min({m, limit}) = limit
  <2> SUFFICES ASSUME NEW m \in Nat  PROVE Min({m, limit}) \in {m, limit}
    OBVIOUS
  <2>1. \E x \in {m, limit} : \A y \in {m, limit} : x =< y
    OBVIOUS
  <2> QED
    BY <2>1 DEF Min
<1>4. Cardinality(s) = Cardinality(kept)
  BY <1>2, <1>3
<1> QED
  BY <1>1, <1>4, FS_Subset

\* The end of the search.
LEMMA LimitKeeps == ASSUME RetrievalInv, FilterAndLimit  PROVE RetrievalInv'
<1> DEFINE kept == Filtered(found, request)
<1>1. at = "filter" /\ at' = "done"
  BY DEF FilterAndLimit, Go
<1>2. request' = request /\ live' = live /\ bornLive' = bornLive /\ sub' = sub
  BY DEF FilterAndLimit
<1>3. Query' = Query /\ Filtered(FirstDefinitions \cap live, request)' = Filtered(FirstDefinitions \cap live, request)
  BY <1>2 DEF Query, Filtered, FirstDefinitions, SymbolLimit
<1>4. kept \subseteq found /\ found \subseteq bornLive /\ bornLive \subseteq Chunk
  BY <1>1 DEF Filtered, RetrievalInv, RetrievalTypeOK, Enriched
<1>5. AsksSymbols(Query) => Filtered(FirstDefinitions \cap live, request) \subseteq kept
  BY <1>1 DEF RetrievalInv, LookedUp, Filtered
<1>6. \/ found' = kept
      \/ found' \in SUBSET kept /\ Cardinality(found') = Min({Cardinality(kept), request.limit})
  BY DEF FilterAndLimit
<1>7. request.limit \in Nat
  BY RetrievalAssumption DEF RetrievalInv, RetrievalTypeOK
<1> HIDE DEF kept
<1>8. Cardinality(found') < request.limit => found' = kept
  BY <1>4, <1>6, <1>7, ShortListIsWhole
<1>9. found' \subseteq kept
  BY <1>6
<1>10. DefinitionsAreFound'
  BY <1>2, <1>3, <1>5, <1>8 DEF DefinitionsAreFound
<1> QED
  BY <1>1, <1>2, <1>3, <1>4, <1>9, <1>10
  DEF RetrievalInv, RetrievalTypeOK, At, Enriched, LookedUp, FailsOnlyWhenItMust

LEMMA RetrievalStep == RetrievalInv /\ [RetrievalNext]_retrievalVars => RetrievalInv'
<1> SUFFICES ASSUME RetrievalInv, [RetrievalNext]_retrievalVars  PROVE RetrievalInv'
  OBVIOUS
<1>1. CASE UNCHANGED retrievalVars
  <2>1. Query' = Query /\ IsMulti' = IsMulti /\ KeywordAlone' = KeywordAlone
        /\ FirstDefinitions' = FirstDefinitions
    BY <1>1 DEF retrievalVars, Query, IsMulti, KeywordAlone, FirstDefinitions, SymbolLimit
  <2> HIDE DEF IsMulti, Query
  <2> QED
    BY <1>1, <2>1
    DEF retrievalVars, RetrievalInv, RetrievalTypeOK, DefinitionsAreFound, FailsOnlyWhenItMust, Filtered
<1>2. CASE RetrievalNext
  BY <1>2, DeleteKeeps, CandidatesKeep, LookupsKeep, LimitKeeps DEF RetrievalNext, Search
<1> QED
  BY <1>1, <1>2

\* Whatever the indexes return and the coordinator deletes meanwhile, a search
\* returns only chunks that existed when it began (engine.go, enrichResults).
THEOREM SearchReturnsNoGhost == RetrievalSpec => []NoGhostReturned
<1>1. RetrievalInv => NoGhostReturned
  BY DEF RetrievalInv, Enriched, NoGhostReturned
<1> QED
  BY RetrievalStart, RetrievalStep, <1>1, PTL DEF RetrievalSpec

\* Whatever the indexes miss, the reranker drops or a store loses meanwhile, a
\* chunk that is among the first rows the symbol table has for an exact query is
\* among the results, unless the filters or the limit keep it out (engine.go,
\* addExactSymbolCandidates; metadata.go, GetChunksBySymbol).
THEOREM SearchFindsDefinitions == RetrievalSpec => []DefinitionsAreFound
<1>1. RetrievalInv => DefinitionsAreFound
  BY DEF RetrievalInv
<1> QED
  BY RetrievalStart, RetrievalStep, <1>1, PTL DEF RetrievalSpec

\* A search fails only if a store did that it cannot do without, among which is
\* the vector search of a query that no keyword matches (engine.go, Search,
\* parallelSearch, singleSearch).
THEOREM SearchSurvivesFailures == RetrievalSpec => []FailsOnlyWhenItMust
<1>1. RetrievalInv => FailsOnlyWhenItMust
  BY DEF RetrievalInv
<1> QED
  BY RetrievalStart, RetrievalStep, <1>1, PTL DEF RetrievalSpec

-----------------------------------------------------------------------------
(* The metadata of a source.                                               *)

\* The first of some numbers.
LEMMA FirstIs == ASSUME NEW S \in SUBSET Nat, NEW n \in S, \A m \in S : n <= m  PROVE Min(S) = n
<1>1. PICK x : x = Min(S)
  OBVIOUS
<1>2. x \in S /\ \A m \in S : x <= m
  BY <1>1 DEF Min
<1> QED
  BY <1>1, <1>2

Knows(meta, c, a, p) == meta.class = c /\ meta.authority = a /\ meta.profile = p

\* What the rules say of a path.
RuledAs(meta, src) ==
    /\ meta.place = src.place /\ meta.log = src.log /\ meta.decision = ""
    /\ meta.generated = (meta.class = "generated") /\ meta.stale = (meta.class = "archived")
    /\ src.place \in {"vend_feedback", "improvements_dump"} =>
          Knows(meta, "review_corpus", "advisory", "review_corpus")
    /\ src.place = "archive" =>
          Knows(meta, "archived", "archived", "archive")
    /\ src.place \notin {"vend_feedback", "improvements_dump", "archive"} /\ src.log =>
          Knows(meta, "raw_evidence", "raw_evidence", "review_corpus")
    /\ src.place = "validation" /\ ~src.log =>
          Knows(meta, "generated", "generated", "project_memory")
    /\ src.place = "decisions" /\ src.adr /\ ~src.log =>
          Knows(meta, "adr", "unknown", "project_memory")
    /\ src.place = "backlog" /\ ~src.log =>
          Knows(meta, "pm_item", "active", "project_memory")
    /\ src.place = "rootconfig" /\ ~src.log =>
          Knows(meta, "config", "authoritative", "code")
    /\ src.place = "configs" /\ ~src.log =>
          Knows(meta, "config", "active", "code")
    /\ src.place \in {"docs", "readme"} /\ ~src.log =>
          Knows(meta, "docs", "active", "project_memory")
    /\ (src.place \in {"code", "elsewhere"} \/ (src.place = "decisions" /\ ~src.adr)) /\ ~src.log =>
          Knows(meta, "unknown", "unknown", "project_memory")

\* applyPathRules: the first rule that matches decides, so the place and the log do.
LEMMA PathRules == ASSUME NEW src \in SourceType  PROVE ApplyPathRules(src) \in MetaType /\ RuledAs(ApplyPathRules(src), src)
<1> DEFINE meta == ApplyPathRules(src)
           hit == {i \in 1..9 : Matches(MetadataRules[i], src)}
           Made(rule) ==
             [class |-> rule.class, authority |-> rule.authority, profile |-> rule.profile,
              place |-> src.place, log |-> src.log,
              generated |-> rule.class = "generated", stale |-> rule.class = "archived",
              decision |-> ""]
<1>1. /\ 1 \in hit <=> src.place \in {"vend_feedback", "improvements_dump"}
      /\ 2 \in hit <=> src.place = "archive"
      /\ 3 \in hit <=> src.log
      /\ 4 \in hit <=> src.place = "validation"
      /\ 5 \in hit <=> src.place = "decisions" /\ src.adr
      /\ 6 \in hit <=> src.place = "backlog"
      /\ 7 \in hit <=> src.place = "rootconfig"
      /\ 8 \in hit <=> src.place = "configs"
      /\ 9 \in hit <=> src.place \in {"docs", "readme"}
  BY DEF Matches, MetadataRules, Rule, SourceType, Place
<1>2. DOMAIN MetadataRules = 1..9
  BY DEF MetadataRules
<1>3. meta = Made(IF hit = {} THEN Rule({}, "unknown", "unknown", "project_memory") ELSE MetadataRules[Min(hit)])
  BY <1>2 DEF ApplyPathRules
<1>5. src.place \in Place /\ src.log \in BOOLEAN /\ src.adr \in BOOLEAN
  BY DEF SourceType
<1>6. 1..9 = {1, 2, 3, 4, 5, 6, 7, 8, 9}
  OBVIOUS
<1>7. hit \subseteq {1, 2, 3, 4, 5, 6, 7, 8, 9} /\ hit \in SUBSET Nat
  BY <1>6
<1>8. ASSUME NEW c \in Class, NEW a \in Authority, NEW p \in Profile, NEW in,
             meta = Made(Rule(in, c, a, p))
      PROVE  /\ meta \in MetaType /\ Knows(meta, c, a, p)
             /\ meta.place = src.place /\ meta.log = src.log /\ meta.decision = ""
             /\ meta.generated = (meta.class = "generated") /\ meta.stale = (meta.class = "archived")
  <2> HIDE DEF meta
  <2>1. /\ Knows(meta, c, a, p)
        /\ meta.place = src.place /\ meta.log = src.log /\ meta.decision = ""
        /\ meta.generated = (meta.class = "generated") /\ meta.stale = (meta.class = "archived")
    BY <1>8 DEF Rule, Knows
  <2>2. meta \in MetaType
    BY <1>5, <1>8 DEF Rule, MetaType
  <2> QED
    BY <2>1, <2>2
<1> HIDE DEF meta, hit, Made
<1>4. ASSUME NEW k \in hit, \A m \in hit : k <= m  PROVE meta = Made(MetadataRules[k])
  <2>1. Min(hit) = k
    BY <1>4, <1>7, FirstIs
  <2> QED
    BY <1>3, <2>1
<1>9. CASE src.place \in {"vend_feedback", "improvements_dump"}
  <2>1. 1 \in hit /\ \A m \in hit : 1 <= m
    BY <1>1, <1>7, <1>9
  <2>2. meta = Made(Rule({"vend_feedback", "improvements_dump"}, "review_corpus", "advisory", "review_corpus"))
    BY <1>4, <2>1 DEF MetadataRules
  <2>3. "review_corpus" \in Class /\ "advisory" \in Authority /\ "review_corpus" \in Profile
    BY DEF Class, Authority, Profile
  <2>4. /\ meta \in MetaType /\ Knows(meta, "review_corpus", "advisory", "review_corpus")
        /\ meta.place = src.place /\ meta.log = src.log /\ meta.decision = ""
        /\ meta.generated = (meta.class = "generated") /\ meta.stale = (meta.class = "archived")
    BY <1>8, <2>2, <2>3
  <2> QED
    BY <1>9, <2>4 DEF RuledAs, meta
<1>10. CASE src.place = "archive"
  <2>1. 2 \in hit /\ \A m \in hit : 2 <= m
    BY <1>1, <1>7, <1>10
  <2>2. meta = Made(Rule({"archive"}, "archived", "archived", "archive"))
    BY <1>4, <2>1 DEF MetadataRules
  <2>3. "archived" \in Class /\ "archived" \in Authority /\ "archive" \in Profile
    BY DEF Class, Authority, Profile
  <2>4. /\ meta \in MetaType /\ Knows(meta, "archived", "archived", "archive")
        /\ meta.place = src.place /\ meta.log = src.log /\ meta.decision = ""
        /\ meta.generated = (meta.class = "generated") /\ meta.stale = (meta.class = "archived")
    BY <1>8, <2>2, <2>3
  <2> QED
    BY <1>10, <2>4 DEF RuledAs, meta
<1>11. CASE src.place \notin {"vend_feedback", "improvements_dump", "archive"} /\ src.log
  <2>1. 3 \in hit /\ \A m \in hit : 3 <= m
    BY <1>1, <1>7, <1>11
  <2>2. meta = Made(Rule({"log"}, "raw_evidence", "raw_evidence", "review_corpus"))
    BY <1>4, <2>1 DEF MetadataRules
  <2>3. "raw_evidence" \in Class /\ "raw_evidence" \in Authority /\ "review_corpus" \in Profile
    BY DEF Class, Authority, Profile
  <2>4. /\ meta \in MetaType /\ Knows(meta, "raw_evidence", "raw_evidence", "review_corpus")
        /\ meta.place = src.place /\ meta.log = src.log /\ meta.decision = ""
        /\ meta.generated = (meta.class = "generated") /\ meta.stale = (meta.class = "archived")
    BY <1>8, <2>2, <2>3
  <2> QED
    BY <1>11, <2>4 DEF RuledAs, meta
<1>12. CASE src.place = "validation" /\ ~src.log
  <2>1. 4 \in hit /\ \A m \in hit : 4 <= m
    BY <1>1, <1>7, <1>12
  <2>2. meta = Made(Rule({"validation"}, "generated", "generated", "project_memory"))
    BY <1>4, <2>1 DEF MetadataRules
  <2>3. "generated" \in Class /\ "generated" \in Authority /\ "project_memory" \in Profile
    BY DEF Class, Authority, Profile
  <2>4. /\ meta \in MetaType /\ Knows(meta, "generated", "generated", "project_memory")
        /\ meta.place = src.place /\ meta.log = src.log /\ meta.decision = ""
        /\ meta.generated = (meta.class = "generated") /\ meta.stale = (meta.class = "archived")
    BY <1>8, <2>2, <2>3
  <2> QED
    BY <1>12, <2>4 DEF RuledAs, meta
<1>13. CASE src.place = "decisions" /\ src.adr /\ ~src.log
  <2>1. 5 \in hit /\ \A m \in hit : 5 <= m
    BY <1>1, <1>7, <1>13
  <2>2. meta = Made(Rule({"adrfile"}, "adr", "unknown", "project_memory"))
    BY <1>4, <2>1 DEF MetadataRules
  <2>3. "adr" \in Class /\ "unknown" \in Authority /\ "project_memory" \in Profile
    BY DEF Class, Authority, Profile
  <2>4. /\ meta \in MetaType /\ Knows(meta, "adr", "unknown", "project_memory")
        /\ meta.place = src.place /\ meta.log = src.log /\ meta.decision = ""
        /\ meta.generated = (meta.class = "generated") /\ meta.stale = (meta.class = "archived")
    BY <1>8, <2>2, <2>3
  <2> QED
    BY <1>13, <2>4 DEF RuledAs, meta
<1>14. CASE src.place = "backlog" /\ ~src.log
  <2>1. 6 \in hit /\ \A m \in hit : 6 <= m
    BY <1>1, <1>7, <1>14
  <2>2. meta = Made(Rule({"backlog"}, "pm_item", "active", "project_memory"))
    BY <1>4, <2>1 DEF MetadataRules
  <2>3. "pm_item" \in Class /\ "active" \in Authority /\ "project_memory" \in Profile
    BY DEF Class, Authority, Profile
  <2>4. /\ meta \in MetaType /\ Knows(meta, "pm_item", "active", "project_memory")
        /\ meta.place = src.place /\ meta.log = src.log /\ meta.decision = ""
        /\ meta.generated = (meta.class = "generated") /\ meta.stale = (meta.class = "archived")
    BY <1>8, <2>2, <2>3
  <2> QED
    BY <1>14, <2>4 DEF RuledAs, meta
<1>15. CASE src.place = "rootconfig" /\ ~src.log
  <2>1. 7 \in hit /\ \A m \in hit : 7 <= m
    BY <1>1, <1>7, <1>15
  <2>2. meta = Made(Rule({"rootconfig"}, "config", "authoritative", "code"))
    BY <1>4, <2>1 DEF MetadataRules
  <2>3. "config" \in Class /\ "authoritative" \in Authority /\ "code" \in Profile
    BY DEF Class, Authority, Profile
  <2>4. /\ meta \in MetaType /\ Knows(meta, "config", "authoritative", "code")
        /\ meta.place = src.place /\ meta.log = src.log /\ meta.decision = ""
        /\ meta.generated = (meta.class = "generated") /\ meta.stale = (meta.class = "archived")
    BY <1>8, <2>2, <2>3
  <2> QED
    BY <1>15, <2>4 DEF RuledAs, meta
<1>16. CASE src.place = "configs" /\ ~src.log
  <2>1. 8 \in hit /\ \A m \in hit : 8 <= m
    BY <1>1, <1>7, <1>16
  <2>2. meta = Made(Rule({"configs"}, "config", "active", "code"))
    BY <1>4, <2>1 DEF MetadataRules
  <2>3. "config" \in Class /\ "active" \in Authority /\ "code" \in Profile
    BY DEF Class, Authority, Profile
  <2>4. /\ meta \in MetaType /\ Knows(meta, "config", "active", "code")
        /\ meta.place = src.place /\ meta.log = src.log /\ meta.decision = ""
        /\ meta.generated = (meta.class = "generated") /\ meta.stale = (meta.class = "archived")
    BY <1>8, <2>2, <2>3
  <2> QED
    BY <1>16, <2>4 DEF RuledAs, meta
<1>17. CASE src.place \in {"docs", "readme"} /\ ~src.log
  <2>1. 9 \in hit /\ \A m \in hit : 9 <= m
    BY <1>1, <1>7, <1>17
  <2>2. meta = Made(Rule({"docs", "readme"}, "docs", "active", "project_memory"))
    BY <1>4, <2>1 DEF MetadataRules
  <2>3. "docs" \in Class /\ "active" \in Authority /\ "project_memory" \in Profile
    BY DEF Class, Authority, Profile
  <2>4. /\ meta \in MetaType /\ Knows(meta, "docs", "active", "project_memory")
        /\ meta.place = src.place /\ meta.log = src.log /\ meta.decision = ""
        /\ meta.generated = (meta.class = "generated") /\ meta.stale = (meta.class = "archived")
    BY <1>8, <2>2, <2>3
  <2> QED
    BY <1>17, <2>4 DEF RuledAs, meta
<1>18. CASE (src.place \in {"code", "elsewhere"} \/ (src.place = "decisions" /\ ~src.adr)) /\ ~src.log
  <2>1. hit = {}
    BY <1>1, <1>7, <1>18
  <2>2. meta = Made(Rule({}, "unknown", "unknown", "project_memory"))
    BY <1>3, <2>1
  <2>3. "unknown" \in Class /\ "unknown" \in Authority /\ "project_memory" \in Profile
    BY DEF Class, Authority, Profile
  <2>4. /\ meta \in MetaType /\ Knows(meta, "unknown", "unknown", "project_memory")
        /\ meta.place = src.place /\ meta.log = src.log /\ meta.decision = ""
        /\ meta.generated = (meta.class = "generated") /\ meta.stale = (meta.class = "archived")
    BY <1>8, <2>2, <2>3
  <2> QED
    BY <1>18, <2>4 DEF RuledAs, meta
<1> QED
  BY <1>5, <1>9, <1>10, <1>11, <1>12, <1>13, <1>14, <1>15, <1>16, <1>17, <1>18 DEF Place

-----------------------------------------------------------------------------

Reviewed(src) == src.place \in {"vend_feedback", "improvements_dump"}
Known(src) == Reviewed(src) \/ src.place \in {"archive", "validation"} \/ src.log

\* What is said of it then, by its kind where no rule knew it.
PlacedAs(meta, src) ==
    /\ meta.place = src.place /\ meta.log = src.log /\ meta.decision = ""
    /\ meta.generated = (src.place = "validation" /\ ~src.log) /\ meta.stale = (src.place = "archive")
    /\ Reviewed(src) => Knows(meta, "review_corpus", "advisory", "review_corpus")
    /\ src.place = "archive" => Knows(meta, "archived", "archived", "archive")
    /\ ~Reviewed(src) /\ src.place # "archive" /\ src.log => Knows(meta, "raw_evidence", "raw_evidence", "review_corpus")
    /\ src.place = "validation" /\ ~src.log => Knows(meta, "generated", "generated", "project_memory")
    /\ ~Known(src) =>
          /\ meta.class \in {"adr", "pm_item", "config", "docs", "test", "source_code"}
          /\ meta.profile \in {"code", "project_memory"}
          /\ IF meta.class = "adr" THEN src.adr /\ meta.authority = "unknown"
             ELSE meta.authority \in {"active", "authoritative"}

\* applyContentFallbacks changes only what no path rule knew.
LEMMA Fallbacks ==
    ASSUME NEW src \in SourceType, NEW meta \in MetaType, RuledAs(meta, src)
    PROVE  ApplyContentFallbacks(meta, src) \in MetaType /\ PlacedAs(ApplyContentFallbacks(meta, src), src)
<1> DEFINE new == ApplyContentFallbacks(meta, src)
<1>1. src.place \in Place /\ src.log \in BOOLEAN /\ src.adr \in BOOLEAN /\ src.test \in BOOLEAN
      /\ src.kind \in {"code", "config", "markdown", "pdf", "text"}
  BY DEF SourceType
<1>2. CASE meta.class # "unknown"
  <2>1. new = meta
    BY <1>2 DEF ApplyContentFallbacks
  <2>2. PlacedAs(meta, src)
    BY <1>1, <1>2 DEF RuledAs, PlacedAs, Knows, Reviewed, Known, Place
  <2> QED
    BY <2>1, <2>2
<1>3. CASE meta.class = "unknown"
  <2>1. PICK c \in {"test", "source_code", "config", "docs"}, a \in {"active", "authoritative"},
             p \in {"code", "project_memory"} :
          new = [meta EXCEPT !.class = c, !.authority = a, !.profile = p]
    BY <1>1, <1>3, Zenon DEF ApplyContentFallbacks
  <2>2. new \in MetaType /\ Knows(new, c, a, p) /\ new.place = meta.place /\ new.log = meta.log
        /\ new.decision = meta.decision /\ new.generated = meta.generated /\ new.stale = meta.stale
    BY <2>1 DEF MetaType, Knows, Class, Authority, Profile
  <2>3. ~Known(src)
    BY <1>1, <1>3 DEF RuledAs, Knows, Known, Reviewed
  <2>4. PlacedAs(new, src)
    <3> HIDE DEF new
    <3> QED
    BY <1>1, <1>3, <2>2, <2>3 DEF PlacedAs, RuledAs, Knows, Known, Reviewed
  <2> QED
    BY <2>2, <2>4
<1> QED
  BY <1>2, <1>3

\* What is said of it by its front matter.
ItemAs(meta, src) ==
    /\ meta.place = src.place /\ meta.log = src.log /\ meta.decision = ""
    /\ meta.generated = (src.place = "validation" /\ ~src.log)
    /\ src.status = "closed" => Knows(meta, "archived", "archived", "archive") /\ meta.stale
    /\ src.status # "closed" => meta.stale = (src.place = "archive")
    /\ src.status # "closed" /\ src.item =>
          /\ meta.class = "pm_item" /\ meta.profile = "project_memory"
          /\ meta.authority \in {"active", "authoritative"}
    /\ src.status # "closed" /\ ~src.item =>
          /\ Reviewed(src) => meta.class = "review_corpus" /\ meta.profile = "review_corpus"
                              /\ (src.status # "urgent" => meta.authority = "advisory")
          /\ src.place = "archive" => meta.class = "archived" /\ meta.profile = "archive"
                              /\ (src.status # "urgent" => meta.authority = "archived")
          /\ ~Reviewed(src) /\ src.place # "archive" /\ src.log =>
                meta.class = "raw_evidence" /\ meta.profile = "review_corpus"
                              /\ (src.status # "urgent" => meta.authority = "raw_evidence")
                              /\ (src.status = "urgent" => meta.authority = "authoritative")
          /\ src.place = "validation" /\ ~src.log =>
                meta.class = "generated" /\ meta.profile = "project_memory"
                              /\ meta.authority \in {"generated", "authoritative"}
          /\ ~Known(src) =>
                /\ meta.class \in {"adr", "pm_item", "config", "docs", "test", "source_code"}
                /\ meta.profile \in {"code", "project_memory"}
                /\ meta.class = "adr" => src.adr
                /\ meta.class # "adr" => meta.authority \in {"active", "authoritative"}

\* applyFrontmatterMetadata: the planning item first, then its status.
LEMMA Frontmatter ==
    ASSUME NEW src \in SourceType, NEW meta \in MetaType, PlacedAs(meta, src)
    PROVE  ApplyFrontmatter(meta, src) \in MetaType /\ ItemAs(ApplyFrontmatter(meta, src), src)
<1> DEFINE new == ApplyFrontmatter(meta, src)
<1>1. src.place \in Place /\ src.log \in BOOLEAN /\ src.adr \in BOOLEAN /\ src.item \in BOOLEAN
      /\ src.status \in {"none", "closed", "active", "urgent"}
  BY DEF SourceType
<1>2. PICK item \in MetaType :
        /\ item = IF src.item THEN [meta EXCEPT !.class = "pm_item", !.authority = "active", !.profile = "project_memory"]
                  ELSE meta
        /\ item.place = meta.place /\ item.log = meta.log /\ item.decision = meta.decision
        /\ item.generated = meta.generated /\ item.stale = meta.stale
        /\ src.item => Knows(item, "pm_item", "active", "project_memory")
        /\ ~src.item => item = meta
  <2>1. CASE src.item
    <3>1. PICK item : item = [meta EXCEPT !.class = "pm_item", !.authority = "active", !.profile = "project_memory"]
      OBVIOUS
    <3>2. /\ item \in MetaType /\ item.place = meta.place /\ item.log = meta.log /\ item.decision = meta.decision
          /\ item.generated = meta.generated /\ item.stale = meta.stale
          /\ Knows(item, "pm_item", "active", "project_memory")
      BY <3>1 DEF MetaType, Knows, Class, Authority, Profile
    <3> QED
      BY <2>1, <3>1, <3>2
  <2>2. CASE ~src.item
    BY <2>2
  <2> QED
    BY <1>1, <2>1, <2>2
<1>3. CASE src.status = "closed"
  <2>1. new = [item EXCEPT !.class = "archived", !.authority = "archived", !.profile = "archive", !.stale = TRUE]
    BY <1>2, <1>3 DEF ApplyFrontmatter
  <2>2. new \in MetaType /\ Knows(new, "archived", "archived", "archive") /\ new.stale /\ new.place = item.place
        /\ new.log = item.log /\ new.decision = item.decision /\ new.generated = item.generated
    BY <2>1 DEF MetaType, Knows, Class, Authority, Profile
  <2> QED
    BY <1>2, <1>3, <2>2 DEF ItemAs, PlacedAs
<1>4. CASE src.status # "closed"
  <2>1. PICK a \in Authority :
          /\ new = [item EXCEPT !.authority = a]
          /\ src.status = "urgent" => a = "authoritative"
          /\ src.status = "active" /\ item.authority = "unknown" => a = "active"
          /\ src.status # "urgent" /\ ~(src.status = "active" /\ item.authority = "unknown") => a = item.authority
    <3>1. CASE src.status = "urgent"
      BY <1>2, <3>1 DEF ApplyFrontmatter, Authority
    <3>2. CASE src.status = "active" /\ item.authority = "unknown"
      BY <1>2, <3>2 DEF ApplyFrontmatter, Authority
    <3>3. CASE src.status # "urgent" /\ ~(src.status = "active" /\ item.authority = "unknown")
      <4>1. new = item
        BY <1>1, <1>2, <1>4, <3>3 DEF ApplyFrontmatter
      <4>2. item = [item EXCEPT !.authority = item.authority] /\ item.authority \in Authority
        BY DEF MetaType
      <4> QED
        BY <3>3, <4>1, <4>2
    <3> QED
      BY <3>1, <3>2, <3>3
  <2>2. /\ new \in MetaType /\ new.class = item.class /\ new.authority = a /\ new.profile = item.profile
        /\ new.place = item.place /\ new.log = item.log /\ new.decision = item.decision
        /\ new.generated = item.generated /\ new.stale = item.stale
    BY <2>1 DEF MetaType
  <2> HIDE DEF new
  <2>3. ASSUME src.item  PROVE ItemAs(new, src)
    <3>1. new.authority \in {"active", "authoritative"} /\ new.class = "pm_item" /\ new.profile = "project_memory"
      BY <1>1, <1>2, <1>4, <2>1, <2>2, <2>3 DEF Knows
    <3>2. /\ new.place = src.place /\ new.log = src.log /\ new.decision = ""
          /\ new.generated = (src.place = "validation" /\ ~src.log) /\ new.stale = (src.place = "archive")
      BY <1>2, <2>2 DEF PlacedAs
    <3> QED
      BY <1>4, <2>3, <3>1, <3>2 DEF ItemAs
  <2>4. ASSUME ~src.item  PROVE ItemAs(new, src)
    <3>1. /\ new.place = src.place /\ new.log = src.log /\ new.decision = ""
          /\ new.generated = (src.place = "validation" /\ ~src.log) /\ new.stale = (src.place = "archive")
      BY <1>2, <2>2 DEF PlacedAs
    <3>2. new.class = meta.class /\ new.profile = meta.profile
      BY <1>2, <2>2, <2>4
    <3>3. /\ src.status = "urgent" => new.authority = "authoritative"
          /\ src.status # "urgent" => new.authority \in {meta.authority, "active"}
          /\ src.status # "urgent" /\ meta.authority # "unknown" => new.authority = meta.authority
      BY <1>2, <2>1, <2>2, <2>4
    <3>4. Known(src) => meta.authority # "unknown"
      BY DEF PlacedAs, Knows, Known, Reviewed
    <3> QED
      BY <1>4, <2>4, <3>1, <3>2, <3>3, <3>4 DEF ItemAs, PlacedAs, Knows, Known, Reviewed
  <2>5. ItemAs(new, src)
    BY <1>1, <2>3, <2>4
  <2> QED
    BY <2>2, <2>5 DEF new
<1> QED
  BY <1>3, <1>4

\* What a decision record says after that.
DecidedAs(meta, item, src) ==
    /\ meta.place = item.place /\ meta.log = item.log /\ meta.generated = item.generated
    /\ ~src.adr => meta = item
    /\ src.adr /\ item.class \in {"review_corpus", "generated", "archived"} =>
          /\ Knows(meta, item.class, item.authority, item.profile) /\ meta.stale = item.stale
          /\ Overruled(src) => meta.decision \in {"superseded", "deprecated"}
    /\ src.adr /\ item.class \notin {"review_corpus", "generated", "archived"} =>
          /\ Overruled(src) => Knows(meta, "adr", "archived", "archive") /\ meta.stale
                               /\ meta.decision \in {"superseded", "deprecated"}
          /\ ~Overruled(src) =>
                /\ meta.class = "adr" /\ meta.profile = "project_memory" /\ meta.stale = item.stale
                /\ \/ meta.authority = "unknown"
                   \/ meta.authority = "active" /\ meta.decision = "proposed"
                   \/ meta.authority = "authoritative" /\ meta.decision \in {"accepted", "implemented"}

\* applyDecisionMetadata: reviews, reports and closed files keep their class.
LEMMA Decisions ==
    ASSUME NEW src \in SourceType, NEW item \in MetaType, item.class = "adr" => src.adr
    PROVE  ApplyDecision(item, src) \in MetaType /\ DecidedAs(ApplyDecision(item, src), item, src)
<1> DEFINE status == IF src.superseded THEN "superseded" ELSE src.decision
           new == ApplyDecision(item, src)
<1>1. src.adr \in BOOLEAN /\ src.superseded \in BOOLEAN
      /\ src.decision \in {"unknown", "implemented", "accepted", "superseded", "deprecated", "proposed"}
  BY DEF SourceType
<1>2. /\ status \in {"unknown", "implemented", "accepted", "superseded", "deprecated", "proposed"}
      /\ Overruled(src) <=> status \in {"superseded", "deprecated"}
  BY <1>1 DEF Overruled
<1>3. CASE ~src.adr
  <2>1. new = item
    BY <1>3 DEF ApplyDecision
  <2> QED
    BY <1>3, <2>1 DEF DecidedAs
<1>4. CASE src.adr /\ item.class \in {"review_corpus", "generated", "archived"}
  <2>1. new = [item EXCEPT !.decision = status]
    BY <1>4 DEF ApplyDecision
  <2> HIDE DEF status, new
  <2>2. /\ new \in MetaType /\ Knows(new, item.class, item.authority, item.profile)
        /\ new.decision = status /\ new.stale = item.stale /\ new.place = item.place
        /\ new.log = item.log /\ new.generated = item.generated
    BY <1>2, <2>1 DEF MetaType, Knows
  <2>3. DecidedAs(new, item, src)
    BY <1>2, <1>4, <2>2 DEF DecidedAs
  <2> QED
    BY <2>2, <2>3 DEF new
<1>5. CASE src.adr /\ item.class \notin {"review_corpus", "generated", "archived"}
  <2> DEFINE adr(a) == [item EXCEPT !.class = "adr", !.decision = status,
                                    !.profile = "project_memory", !.authority = a]
  <2>1. /\ status \in {"accepted", "implemented"} => new = adr("authoritative")
        /\ status \in {"deprecated", "superseded"} => new = [adr("archived") EXCEPT !.profile = "archive", !.stale = TRUE]
        /\ status = "proposed" => new = adr("active")
        /\ status = "unknown" => new = adr("unknown")
    BY <1>5 DEF ApplyDecision
  <2>2. ASSUME NEW a \in Authority
        PROVE  /\ adr(a) \in MetaType /\ Knows(adr(a), "adr", a, "project_memory")
               /\ adr(a).decision = status /\ adr(a).stale = item.stale /\ adr(a).place = item.place
               /\ adr(a).log = item.log /\ adr(a).generated = item.generated
    <3> HIDE DEF status
    <3> QED
      BY <1>2 DEF MetaType, Knows, Class, Profile
  <2> HIDE DEF status, new, adr
  <2>3. ASSUME status \in {"deprecated", "superseded"}
        PROVE  new \in MetaType /\ DecidedAs(new, item, src)
    <3>1. PICK old : old = adr("archived")
      OBVIOUS
    <3>2. /\ old \in MetaType /\ Knows(old, "adr", "archived", "project_memory")
          /\ old.decision = status /\ old.place = item.place
          /\ old.log = item.log /\ old.generated = item.generated
      BY <2>2, <3>1 DEF Authority
    <3>3. new = [old EXCEPT !.profile = "archive", !.stale = TRUE]
      BY <2>1, <2>3, <3>1
    <3>4. /\ new \in MetaType /\ Knows(new, "adr", "archived", "archive") /\ new.stale
          /\ new.decision = status /\ new.place = item.place
          /\ new.log = item.log /\ new.generated = item.generated
      BY <3>2, <3>3 DEF MetaType, Knows, Profile
    <3> QED
      BY <1>2, <1>5, <2>3, <3>4 DEF DecidedAs
  <2>4. ASSUME status \notin {"deprecated", "superseded"}
        PROVE  new \in MetaType /\ DecidedAs(new, item, src)
    <3>1. PICK a \in {"authoritative", "active", "unknown"} :
            /\ new = adr(a)
            /\ a = "authoritative" => status \in {"accepted", "implemented"}
            /\ a = "active" => status = "proposed"
      BY <1>2, <2>1, <2>4
    <3>2. /\ new \in MetaType /\ Knows(new, "adr", a, "project_memory")
          /\ new.decision = status /\ new.stale = item.stale /\ new.place = item.place
          /\ new.log = item.log /\ new.generated = item.generated
      BY <2>2, <3>1 DEF Authority
    <3> QED
      BY <1>2, <1>5, <2>4, <3>1, <3>2 DEF DecidedAs, Knows
  <2> QED
    BY <2>3, <2>4 DEF new
<1> QED
  BY <1>1, <1>3, <1>4, <1>5

\* What is said of a source in the end.
LEMMA Derived ==
    ASSUME NEW src \in SourceType
    PROVE  \E item \in MetaType, meta \in MetaType :
              meta = Derive(src) /\ ItemAs(item, src) /\ DecidedAs(meta, item, src)
<1> DEFINE ruled == ApplyPathRules(src)
           placed == ApplyContentFallbacks(ruled, src)
           item == ApplyFrontmatter(placed, src)
<1>1. Derive(src) = ApplyDecision(item, src)
  BY DEF Derive
<1>2. ruled \in MetaType /\ RuledAs(ruled, src)
  BY PathRules
<1> HIDE DEF ruled
<1>3. placed \in MetaType /\ PlacedAs(placed, src)
  BY <1>2, Fallbacks
<1> HIDE DEF placed
<1>4. item \in MetaType /\ ItemAs(item, src)
  BY <1>3, Frontmatter
<1> HIDE DEF item
<1>5. item.class = "adr" => src.adr
  BY <1>4 DEF ItemAs, Knows, Known, Reviewed, SourceType, Place
<1>6. ApplyDecision(item, src) \in MetaType /\ DecidedAs(ApplyDecision(item, src), item, src)
  BY <1>4, <1>5, Decisions
<1> QED
  BY <1>1, <1>4, <1>6

-----------------------------------------------------------------------------

\* Where a searcher is sent for what lies outside the archive and the reviews.
LEMMA NotSentAway ==
    ASSUME NEW meta \in MetaType, meta.place \notin {"vend_feedback", "improvements_dump", "archive"},
           meta.profile \notin {"review_corpus", "archive"}
    PROVE  RequiredProfile(meta) \notin {"review_corpus", "archive"}
<1> DEFINE order == <<"review_corpus", "archive", "code", "project_memory">>
           owns == {i \in 1..4 : LET rule == ProfileRules[order[i]]
                                 IN  meta.place \in rule.include /\ ~Excluded(rule, meta)}
<1>1. RequiredProfile(meta) = IF owns = {} THEN meta.profile ELSE order[Min(owns)]
  BY DEF RequiredProfile
<1>2. 1 \notin owns
  <2>1. ProfileRules[order[1]].include = {"vend_feedback", "improvements_dump"}
    BY DEF ProfileRules
  <2> QED
    BY <2>1
<1>3. 2 \notin owns
  <2>1. ProfileRules[order[2]].include = {"archive"}
    BY DEF ProfileRules
  <2> QED
    BY <2>1
<1> HIDE DEF owns
<1>4. owns \subseteq {3, 4}
  <2>1. owns \subseteq 1..4
    BY DEF owns
  <2> QED
    BY <1>2, <1>3, <2>1
<1>5. CASE 3 \in owns
  <2>1. Min(owns) = 3
    BY <1>4, <1>5, FirstIs
  <2> QED
    BY <1>1, <1>5, <2>1
<1>6. CASE 3 \notin owns /\ 4 \in owns
  <2>1. Min(owns) = 4
    BY <1>4, <1>6, FirstIs
  <2> QED
    BY <1>1, <1>6, <2>1
<1>7. CASE owns = {}
  BY <1>1, <1>7
<1> QED
  BY <1>4, <1>5, <1>6, <1>7

\* What each profile returns.
LEMMA Profiles ==
    ASSUME NEW meta \in MetaType
    PROVE  /\ meta.class \in {"source_code", "test"} => Eligible(meta, "code")
           /\ ~meta.log /\ meta.class \in {"docs", "adr", "pm_item", "generated", "config"}
                /\ meta.place \notin {"vend_feedback", "improvements_dump", "archive"}
                => Eligible(meta, "project_memory")
           /\ meta.class \in {"review_corpus", "raw_evidence"}
                /\ meta.authority \in {"advisory", "raw_evidence"}
                => Eligible(meta, "review_corpus")
           /\ meta.class = "archived" /\ meta.authority = "archived" => Eligible(meta, "archive")
<1>1. meta.authority \in Authority /\ meta.log \in BOOLEAN
  BY DEF MetaType
<1>3. /\ ProfileRules["code"].exclude = {} /\ ProfileRules["code"].noLogs = FALSE
      /\ ProfileRules["code"].classes = {"source_code", "test", "config"}
      /\ ProfileRules["code"].authorities = Authority
  BY DEF ProfileRules
<1>4. /\ ProfileRules["project_memory"].exclude = {"vend_feedback", "improvements_dump", "archive"}
      /\ ProfileRules["project_memory"].noLogs = TRUE
      /\ ProfileRules["project_memory"].classes = {"docs", "adr", "pm_item", "generated", "config", "unknown"}
      /\ ProfileRules["project_memory"].authorities = Authority
  BY DEF ProfileRules
<1>5. /\ ProfileRules["review_corpus"].exclude = {} /\ ProfileRules["review_corpus"].noLogs = FALSE
      /\ ProfileRules["review_corpus"].classes = {"review_corpus", "raw_evidence"}
      /\ ProfileRules["review_corpus"].authorities = {"advisory", "raw_evidence"}
  BY DEF ProfileRules
<1>6. /\ ProfileRules["archive"].exclude = {} /\ ProfileRules["archive"].noLogs = FALSE
      /\ ProfileRules["archive"].classes = {"archived"}
      /\ ProfileRules["archive"].authorities = {"archived"}
  BY DEF ProfileRules
<1>7. meta.class \in {"source_code", "test"} => Eligible(meta, "code")
  BY <1>1, <1>3 DEF Eligible, ProfileRuleAllows, Excluded
<1>8. ~meta.log /\ meta.class \in {"docs", "adr", "pm_item", "generated", "config"}
        /\ meta.place \notin {"vend_feedback", "improvements_dump", "archive"}
        => Eligible(meta, "project_memory")
  <2> DEFINE rule == ProfileRules["project_memory"]
  <2>1. Eligible(meta, "project_memory") <=> ProfileRuleAllows(rule, meta)
    BY DEF Eligible
  <2> HIDE DEF rule
  <2>2. ProfileRuleAllows(rule, meta) <=>
          /\ meta.place \notin rule.exclude /\ ~(rule.noLogs /\ meta.log)
          /\ meta.class \in rule.classes /\ meta.authority \in rule.authorities
    BY DEF ProfileRuleAllows, Excluded
  <2>3. /\ rule.exclude = {"vend_feedback", "improvements_dump", "archive"} /\ rule.noLogs = TRUE
        /\ rule.classes = {"docs", "adr", "pm_item", "generated", "config", "unknown"}
        /\ rule.authorities = Authority
    BY <1>4 DEF rule
  <2> QED
    BY <1>1, <2>1, <2>2, <2>3
<1>9. meta.class \in {"review_corpus", "raw_evidence"}
        /\ meta.authority \in {"advisory", "raw_evidence"}
        => Eligible(meta, "review_corpus")
  <2> DEFINE rule == ProfileRules["review_corpus"]
  <2>1. Eligible(meta, "review_corpus") <=> ProfileRuleAllows(rule, meta)
    BY DEF Eligible
  <2> HIDE DEF rule
  <2>2. ProfileRuleAllows(rule, meta) <=>
          /\ meta.place \notin rule.exclude /\ ~(rule.noLogs /\ meta.log)
          /\ meta.class \in rule.classes /\ meta.authority \in rule.authorities
    BY DEF ProfileRuleAllows, Excluded
  <2>3. /\ rule.exclude = {} /\ rule.noLogs = FALSE
        /\ rule.classes = {"review_corpus", "raw_evidence"}
        /\ rule.authorities = {"advisory", "raw_evidence"}
    BY <1>5 DEF rule
  <2> QED
    BY <1>1, <2>1, <2>2, <2>3
<1>10. meta.class = "archived" /\ meta.authority = "archived" => Eligible(meta, "archive")
  BY <1>1, <1>6 DEF Eligible, ProfileRuleAllows, Excluded
<1> QED
  BY <1>7, <1>8, <1>9, <1>10

\* Some search reaches every source but the exceptions.
LEMMA EverySourceIsReached ==
    ASSUME NEW src \in SourceType,
           ~((src.item \/ src.status = "urgent")
               /\ (src.log \/ src.place \in {"archive", "vend_feedback", "improvements_dump"})),
           ~(src.log /\ src.adr /\ Overruled(src))
    PROVE  \E p \in Profile \cup {""} : Eligible(Derive(src), p)
<1>1. PICK item \in MetaType, meta \in MetaType :
             meta = Derive(src) /\ ItemAs(item, src) /\ DecidedAs(meta, item, src)
  BY Derived
<1>2. SUFFICES Eligible(meta, "code") \/ Eligible(meta, "project_memory") \/ Eligible(meta, "review_corpus")
                 \/ Eligible(meta, "archive") \/ Eligible(meta, "")
  BY <1>1 DEF Profile
<1>3. src.log \in BOOLEAN /\ src.item \in BOOLEAN /\ src.adr \in BOOLEAN
  BY DEF SourceType
<1>4. meta.place = src.place /\ meta.log = src.log
  BY <1>1 DEF DecidedAs, ItemAs, Knows
<1>5. CASE item.class = "archived"
  <2>1. item.authority = "archived"
    BY <1>1, <1>3, <1>5 DEF ItemAs, Knows, Known, Reviewed
  <2>2. meta.class = "archived" /\ meta.authority = "archived"
    BY <1>1, <1>3, <1>5, <2>1 DEF DecidedAs, Knows
  <2> QED
    BY <2>2, Profiles
<1>6. CASE item.class = "review_corpus"
  <2>1. item.authority = "advisory"
    BY <1>1, <1>3, <1>6 DEF ItemAs, Knows, Known, Reviewed
  <2>2. meta.class = "review_corpus" /\ meta.authority = "advisory"
    BY <1>1, <1>3, <1>6, <2>1 DEF DecidedAs, Knows
  <2> QED
    BY <2>2, Profiles
<1>7. CASE item.class = "generated"
  <2>1. ~src.log /\ src.place = "validation"
    BY <1>1, <1>3, <1>7 DEF ItemAs, Knows, Known, Reviewed
  <2>2. meta.class = "generated"
    BY <1>1, <1>3, <1>7 DEF DecidedAs, Knows
  <2> QED
    BY <1>4, <2>1, <2>2, Profiles
<1>8. CASE item.class = "raw_evidence"
  <2>1. item.authority = "raw_evidence" /\ src.log /\ src.place \notin {"archive", "vend_feedback", "improvements_dump"}
    BY <1>1, <1>3, <1>8 DEF ItemAs, Knows, Known, Reviewed
  <2>2. CASE ~src.adr
    BY <1>1, <1>8, <2>1, <2>2, Profiles DEF DecidedAs
  <2>3. CASE src.adr
    <3>1. meta.class = "adr" /\ meta.profile = "project_memory"
          /\ meta.authority \in {"unknown", "active", "authoritative"}
      BY <1>1, <1>8, <2>1, <2>3 DEF DecidedAs
    <3>2. RequiredProfile(meta) \notin {"review_corpus", "archive"}
      BY <1>4, <2>1, <3>1, NotSentAway
    <3> QED
      BY <3>1, <3>2 DEF Eligible, DefaultExcluded
  <2> QED
    BY <1>3, <2>2, <2>3
<1>9. CASE item.class \notin {"archived", "review_corpus", "generated", "raw_evidence"}
  <2>1. src.status # "closed"
    BY <1>1, <1>9 DEF ItemAs, Knows
  <2>2. ~src.log /\ src.place \notin {"archive", "vend_feedback", "improvements_dump"}
        /\ item.class \in {"adr", "pm_item", "config", "docs", "test", "source_code"}
    <3>1. CASE src.item
      BY <1>1, <1>3, <1>9, <2>1, <3>1 DEF ItemAs
    <3>2. CASE ~src.item
      BY <1>1, <1>3, <1>9, <2>1, <3>2 DEF ItemAs, Known, Reviewed
    <3> QED
      BY <1>3, <3>1, <3>2
  <2>3. meta.class \in {"adr", item.class}
    BY <1>1, <1>3, <1>9 DEF DecidedAs, Knows
  <2> QED
    BY <1>4, <2>2, <2>3, Profiles
<1> QED
  BY <1>5, <1>6, <1>7, <1>8, <1>9

-----------------------------------------------------------------------------

\* What a document counts for, by its authority, its decision and its marks.
Weighed(meta, worth, decided, docked) ==
    /\ Priority(meta) = worth + decided - docked
    /\ meta.authority = "authoritative" => worth = 100
    /\ meta.authority = "active" => worth = 80
    /\ meta.authority = "generated" => worth = 45
    /\ meta.authority = "raw_evidence" => worth = 25
    /\ meta.authority = "archived" => worth = 20
    /\ decided <= 10
    /\ meta.decision \in {"accepted", "implemented"} => decided = 10
    /\ meta.decision = "proposed" => decided = 0 - 10
    /\ meta.decision \in {"deprecated", "superseded"} => decided = 0 - 30
    /\ meta.decision = "" => decided = 0
    /\ docked >= 0
    /\ ~meta.stale => docked <= 5
    /\ ~meta.stale /\ ~meta.generated => docked = 0
    /\ meta.stale => docked >= 10

\* MetadataPriority, term by term.
LEMMA PriorityIs ==
    ASSUME NEW meta \in MetaType
    PROVE  \E worth \in Int, decided \in Int, docked \in Int : Weighed(meta, worth, decided, docked)
<1> DEFINE of == [authoritative |-> 100, active |-> 80, generated |-> 45, advisory |-> 35,
                  raw_evidence |-> 25, archived |-> 20, unknown |-> 10]
           decided == CASE meta.decision \in {"accepted", "implemented"} -> 10
                        [] meta.decision = "proposed" -> 0 - 10
                        [] meta.decision \in {"deprecated", "superseded"} -> 0 - 30
                        [] meta.decision = "unknown" /\ meta.class = "adr" -> 0 - 5
                        [] OTHER -> 0
           worth == of[meta.authority]
           five == IF meta.generated THEN 5 ELSE 0
           ten == IF meta.stale THEN 10 ELSE 0
<1>1. Priority(meta) = worth + decided - five - ten
  BY DEF Priority
<1>10. /\ meta.decision \in {"accepted", "implemented"} => decided = 10
       /\ meta.decision = "proposed" => decided = 0 - 10
       /\ meta.decision \in {"deprecated", "superseded"} => decided = 0 - 30
       /\ meta.decision \notin {"accepted", "implemented", "proposed", "deprecated", "superseded"} =>
            decided \in {0 - 5, 0}
       /\ meta.decision = "" => decided = 0
  OBVIOUS
<1>2. /\ decided \in Int /\ decided <= 10
      /\ meta.decision \in {"accepted", "implemented"} => decided = 10
      /\ meta.decision = "proposed" => decided = 0 - 10
      /\ meta.decision \in {"deprecated", "superseded"} => decided = 0 - 30
      /\ meta.decision = "" => decided = 0
  <2> HIDE DEF decided
  <2>1. decided \in {10, 0 - 10, 0 - 30, 0 - 5, 0}
    BY <1>10
  <2>2. decided \in Int /\ decided <= 10
    BY <2>1
  <2> QED
    BY <1>10, <2>2
<1>3. meta.authority \in Authority /\ meta.generated \in BOOLEAN /\ meta.stale \in BOOLEAN
  BY DEF MetaType
<1>4. /\ worth \in Int
      /\ meta.authority = "authoritative" => worth = 100
      /\ meta.authority = "active" => worth = 80
      /\ meta.authority = "generated" => worth = 45
      /\ meta.authority = "raw_evidence" => worth = 25
      /\ meta.authority = "archived" => worth = 20
  BY <1>3 DEF Authority
<1>5. /\ five \in Int /\ ten \in Int /\ five >= 0 /\ ten >= 0 /\ five <= 5
      /\ ~meta.generated => five = 0
      /\ meta.stale => ten = 10
      /\ ~meta.stale => ten = 0
  BY <1>3
<1> HIDE DEF worth, decided, five, ten
<1>6. PICK docked \in Int : docked = five + ten
  BY <1>5
<1>7. Priority(meta) = worth + decided - docked
  <2>1. worth \in Int /\ decided \in Int /\ five \in Int /\ ten \in Int
    BY <1>2, <1>4, <1>5
  <2>2. worth + decided - five - ten = worth + decided - (five + ten)
    BY <2>1
  <2> QED
    BY <1>1, <1>6, <2>2
<1>8. /\ docked >= 0
      /\ ~meta.stale => docked <= 5
      /\ ~meta.stale /\ ~meta.generated => docked = 0
      /\ meta.stale => docked >= 10
  BY <1>5, <1>6
<1>9. Weighed(meta, worth, decided, docked)
  BY <1>2, <1>4, <1>7, <1>8 DEF Weighed
<1> QED
  BY <1>2, <1>4, <1>9

\* Every source has a priority.
LEMMA PriorityIsNumber == ASSUME NEW src \in SourceType  PROVE Priority(Derive(src)) \in Int
<1>1. Derive(src) \in MetaType
  BY Derived
<1>2. PICK worth \in Int, decided \in Int, docked \in Int : Weighed(Derive(src), worth, decided, docked)
  BY <1>1, PriorityIs
<1>3. Priority(Derive(src)) = worth + decided - docked
  BY <1>2, Zenon DEF Weighed
<1> QED
  BY <1>3

\* What is outdated is in no search of its own accord, and counts for little.
LEMMA OutdatedIsLow ==
    ASSUME NEW src \in SourceType, Outdated(src)
    PROVE  /\ ~Eligible(Derive(src), "")
           /\ src.place \notin {"archive", "vend_feedback", "improvements_dump"} =>
                 Priority(Derive(src)) <= (IF src.adr THEN 20 ELSE 10)
<1>1. PICK item \in MetaType, meta \in MetaType :
             meta = Derive(src) /\ ItemAs(item, src) /\ DecidedAs(meta, item, src)
  BY Derived
<1>2. src.log \in BOOLEAN /\ src.item \in BOOLEAN /\ src.adr \in BOOLEAN /\ src.place \in Place
      /\ meta.authority \in Authority /\ meta.stale \in BOOLEAN /\ meta.generated \in BOOLEAN
  BY DEF SourceType, MetaType
<1>3. PICK worth \in Int, decided \in Int, docked \in Int : Weighed(meta, worth, decided, docked)
  BY PriorityIs
<1>4. CASE src.status = "closed"
  <2>1. Knows(item, "archived", "archived", "archive") /\ item.stale /\ item.decision = ""
    BY <1>1, <1>4 DEF ItemAs
  <2>2. Knows(meta, "archived", "archived", "archive") /\ meta.stale /\ (~src.adr => meta.decision = "")
    BY <1>1, <1>2, <2>1 DEF DecidedAs, Knows
  <2>3. ~Eligible(meta, "")
    BY <2>2 DEF Knows, Eligible, DefaultExcluded
  <2>4. /\ worth = 20 /\ (~src.adr => decided = 0) /\ decided <= 10 /\ docked >= 10
        /\ Priority(meta) = worth + decided - docked
    BY <1>3, <2>2 DEF Knows, Weighed
  <2>5. Priority(meta) <= (IF src.adr THEN 20 ELSE 10)
    BY <2>4
  <2> QED
    BY <1>1, <2>3, <2>5
<1>5. CASE src.status # "closed" /\ src.adr /\ src.place # "validation" /\ Overruled(src)
  <2>1. item.class # "generated"
    BY <1>1, <1>2, <1>5 DEF ItemAs, Known, Reviewed
  <2>2. CASE item.class \in {"review_corpus", "archived"}
    <3>1. meta.class \in {"review_corpus", "archived"}
      BY <1>1, <1>5, <2>2 DEF DecidedAs, Knows
    <3>2. ~Eligible(meta, "")
      BY <3>1 DEF Eligible, DefaultExcluded
    <3>3. src.place \in {"archive", "vend_feedback", "improvements_dump"}
      BY <1>1, <1>2, <1>5, <2>2 DEF ItemAs, Known, Reviewed
    <3> QED
      BY <1>1, <3>2, <3>3
  <2>3. CASE item.class \notin {"review_corpus", "archived"}
    <3>1. Knows(meta, "adr", "archived", "archive") /\ meta.stale
            /\ meta.decision \in {"superseded", "deprecated"}
      BY <1>1, <1>5, <2>1, <2>3 DEF DecidedAs
    <3>2. ~Eligible(meta, "")
      BY <3>1 DEF Knows, Eligible, DefaultExcluded
    <3>3. worth = 20 /\ decided = 0 - 30 /\ docked >= 0 /\ Priority(meta) = worth + decided - docked
      BY <1>3, <3>1 DEF Knows, Weighed
    <3>4. Priority(meta) <= 20
      BY <3>3
    <3> QED
      BY <1>1, <1>5, <3>2, <3>4
  <2> QED
    BY <2>2, <2>3
<1> QED
  BY <1>4, <1>5 DEF Outdated

\* What is not counts for more.
LEMMA CurrentIsHigh ==
    ASSUME NEW src \in SourceType, ~Outdated(src), Derive(src).authority # "unknown",
           src.place \notin {"archive", "vend_feedback", "improvements_dump"},
           src.status = "closed" => ~src.adr, src.adr => src.place # "validation"
    PROVE  Priority(Derive(src)) >= (IF src.adr THEN 70 ELSE 25)
<1>1. PICK item \in MetaType, meta \in MetaType :
             meta = Derive(src) /\ ItemAs(item, src) /\ DecidedAs(meta, item, src)
  BY Derived
<1>2. src.log \in BOOLEAN /\ src.item \in BOOLEAN /\ src.adr \in BOOLEAN /\ src.place \in Place
      /\ meta.authority \in Authority /\ meta.stale \in BOOLEAN /\ meta.generated \in BOOLEAN
  BY DEF SourceType, MetaType
<1>3. PICK worth \in Int, decided \in Int, docked \in Int : Weighed(meta, worth, decided, docked)
  BY PriorityIs
<1>4. src.status # "closed" /\ (src.adr => ~Overruled(src))
  BY DEF Outdated
<1>5. ~item.stale /\ item.decision = "" /\ item.generated = (src.place = "validation" /\ ~src.log)
  BY <1>1, <1>4 DEF ItemAs
<1>6. item.class \notin {"review_corpus", "archived"} /\ (item.class = "generated" => src.place = "validation")
  BY <1>1, <1>2, <1>4 DEF ItemAs, Known, Reviewed
<1>7. CASE src.adr
  <2>1. /\ ~meta.stale /\ ~meta.generated
        /\ \/ meta.authority = "unknown"
           \/ meta.authority = "active" /\ meta.decision = "proposed"
           \/ meta.authority = "authoritative" /\ meta.decision \in {"accepted", "implemented"}
    BY <1>1, <1>2, <1>4, <1>5, <1>6, <1>7 DEF DecidedAs
  <2>2. /\ docked = 0 /\ Priority(meta) = worth + decided - docked
        /\ (worth = 80 /\ decided = 0 - 10) \/ (worth = 100 /\ decided = 10)
    BY <1>1, <1>3, <2>1, Zenon DEF Weighed
  <2>3. Priority(meta) >= 70
    BY <2>2
  <2> QED
    BY <1>1, <1>7, <2>3
<1>8. CASE ~src.adr
  <2>1. meta = item
    BY <1>1, <1>8 DEF DecidedAs
  <2>2. CASE item.generated
    <3>1. item.authority \in {"generated", "authoritative", "active"}
      BY <1>1, <1>2, <1>4, <1>5, <2>2 DEF ItemAs
    <3>2. worth \in {45, 80, 100} /\ decided = 0 /\ docked <= 5 /\ Priority(meta) = worth + decided - docked
      BY <1>3, <1>5, <2>1, <3>1, Zenon DEF Weighed
    <3>3. Priority(meta) >= 25
      BY <3>2
    <3> QED
      BY <1>1, <1>8, <3>3
  <2>3. CASE ~item.generated
    <3>1. item.authority \in {"raw_evidence", "authoritative", "active"}
      BY <1>1, <1>2, <1>4, <1>5, <1>8, <2>3 DEF ItemAs, Known, Reviewed
    <3>2. worth \in {25, 80, 100} /\ decided = 0 /\ docked = 0 /\ Priority(meta) = worth + decided - docked
      BY <1>3, <1>5, <2>1, <2>3, <3>1, Zenon DEF Weighed
    <3>3. Priority(meta) >= 25
      BY <3>2
    <3> QED
      BY <1>1, <1>8, <3>3
  <2> QED
    BY <1>2, <2>1, <2>2, <2>3
<1> QED
  BY <1>2, <1>7, <1>8

\* For any set of sources and any edits: each can be asked for from the start,
\* but for the three kinds SomeProfileReturns names, and one that is closed or
\* overruled leaves ordinary results and counts for less than it did
\* (source_metadata.go:264-600).
THEOREM ProfilesStayRight == SourceSpec => ProfilesAreRight
<1> DEFINE Held == source \in Source \cup {NoSource}
<1>1. SourceInit => Held
  BY DEF SourceInit
<1>2. Held /\ [SourceNext]_source => Held'
  BY DEF SourceNext, AddSource, EditSource
<1>3. ASSUME Held, SourceNext, source' # NoSource
      PROVE  (source = NoSource => SomeProfileReturns') /\ DefaultIsCurrent
  <2>1. source' \in SourceType
    BY <1>3, SourceAssumption DEF SourceNext, AddSource, EditSource
  <2>2. SomeProfileReturns'
    BY <2>1, EverySourceIsReached DEF SomeProfileReturns
  <2>3. ASSUME Outdated(source')  PROVE ~Eligible(Derive(source'), "")
    BY <2>1, <2>3, OutdatedIsLow
  <2>4. ASSUME Outdated(source'), source # NoSource, ~Outdated(source), Derive(source).authority # "unknown",
               source.place \notin {"archive", "vend_feedback", "improvements_dump"}
        PROVE  Priority(Derive(source')) < Priority(Derive(source))
    <3>1. source \in SourceType /\ source'.place = source.place /\ source'.adr = source.adr
      BY <1>3, <2>4, SourceAssumption DEF SourceNext, AddSource, EditSource
    <3>2. source.adr => source.place # "validation"
      BY <2>4, <3>1 DEF Outdated
    <3>3. source.status = "closed" => ~source.adr
      BY <2>4, <3>2 DEF Outdated
    <3>4. Priority(Derive(source)) >= (IF source.adr THEN 70 ELSE 25)
      BY <2>4, <3>1, <3>2, <3>3, CurrentIsHigh
    <3>5. Priority(Derive(source')) <= (IF source'.adr THEN 20 ELSE 10)
      BY <2>1, <2>4, <3>1, OutdatedIsLow
    <3>6. Priority(Derive(source)) \in Int /\ Priority(Derive(source')) \in Int
      BY <2>1, <3>1, PriorityIsNumber
    <3> QED
      BY <3>1, <3>4, <3>5, <3>6
  <2> QED
    BY <2>2, <2>3, <2>4 DEF DefaultIsCurrent
<1> QED
  <2>1. ASSUME Held, [SourceNext]_source
        PROVE  [source' # NoSource => (source = NoSource => SomeProfileReturns') /\ DefaultIsCurrent]_source
    BY <1>3, <2>1
  <2> QED
    BY <1>1, <1>2, <2>1, PTL DEF SourceSpec, ProfilesAreRight

-----------------------------------------------------------------------------

EntryType == [doc : Doc, score : Nat, hits : Nat, both : BOOLEAN, bm25 : Nat]

\* Entries of as many documents.
Entries(S) == S \subseteq EntryType /\ IsFiniteSet(S) /\ \A a, b \in S : a.doc = b.doc => a = b

\* What Before compares, one value after the other.
Lexical(a, b) ==
    LET p == IF a.both THEN 1 ELSE 0  q == IF b.both THEN 1 ELSE 0
    IN  \/ a.score > b.score
        \/ a.score = b.score /\ a.hits > b.hits
        \/ a.score = b.score /\ a.hits = b.hits /\ p > q
        \/ a.score = b.score /\ a.hits = b.hits /\ p = q /\ a.bm25 > b.bm25
        \/ a.score = b.score /\ a.hits = b.hits /\ p = q /\ a.bm25 = b.bm25 /\ a.doc < b.doc

\* Comparing the five values in order is comparing them lexically.
LEMMA BeforeIs == ASSUME NEW a \in EntryType, NEW b \in EntryType  PROVE Before(a, b) <=> Lexical(a, b)
<1> DEFINE x == Keys(a)
           y == Keys(b)
           Decides(k) == x[k] > y[k] /\ \A j \in 1..(k - 1) : x[j] = y[j]
<1>1. Before(a, b) <=> \E k \in 1..5 : Decides(k)
  BY DEF Before
<1>2. 1..5 = {1, 2, 3, 4, 5} /\ 1..0 = {} /\ 1..1 = {1} /\ 1..2 = {1, 2} /\ 1..3 = {1, 2, 3} /\ 1..4 = {1, 2, 3, 4}
  OBVIOUS
<1>3. /\ x[1] = a.score /\ x[2] = a.hits /\ x[3] = (IF a.both THEN 1 ELSE 0) /\ x[4] = a.bm25 /\ x[5] = 0 - a.doc
      /\ y[1] = b.score /\ y[2] = b.hits /\ y[3] = (IF b.both THEN 1 ELSE 0) /\ y[4] = b.bm25 /\ y[5] = 0 - b.doc
  BY DEF Keys
<1> HIDE DEF x, y
<1>4. /\ Decides(1) <=> x[1] > y[1]
      /\ Decides(2) <=> x[2] > y[2] /\ x[1] = y[1]
      /\ Decides(3) <=> x[3] > y[3] /\ x[1] = y[1] /\ x[2] = y[2]
      /\ Decides(4) <=> x[4] > y[4] /\ x[1] = y[1] /\ x[2] = y[2] /\ x[3] = y[3]
      /\ Decides(5) <=> x[5] > y[5] /\ x[1] = y[1] /\ x[2] = y[2] /\ x[3] = y[3] /\ x[4] = y[4]
  BY <1>2
<1> HIDE DEF Decides
<1>5. Before(a, b) <=> Decides(1) \/ Decides(2) \/ Decides(3) \/ Decides(4) \/ Decides(5)
  BY <1>1, <1>2
<1>6. a.doc \in Nat /\ b.doc \in Nat
  BY FusionAssumption DEF EntryType
<1>7. x[5] > y[5] <=> a.doc < b.doc
  BY <1>3, <1>6
<1> QED
  BY <1>3, <1>4, <1>5, <1>7 DEF Lexical

\* Before orders the entries of a set, whatever their scores.
LEMMA BeforeOrders ==
    ASSUME NEW S, Entries(S)
    PROVE  /\ \A a \in S : ~Before(a, a)
           /\ \A a, b, c \in S : Before(a, b) /\ Before(b, c) => Before(a, c)
           /\ \A a, b \in S : a # b => Before(a, b) \/ Before(b, a)
           /\ \A a, b \in S : Before(a, b) => ~Before(b, a)
<1> USE FusionAssumption
<1>1. ASSUME NEW a \in S
      PROVE  a \in EntryType /\ a.doc \in Nat /\ a.score \in Nat /\ a.hits \in Nat /\ a.bm25 \in Nat
               /\ a.both \in BOOLEAN
  BY DEF Entries, EntryType
<1>2. ASSUME NEW a \in S  PROVE ~Before(a, a)
  BY <1>1, BeforeIs DEF Lexical
<1>3. ASSUME NEW a \in S, NEW b \in S  PROVE Before(a, b) => ~Before(b, a)
  <2>1. (Before(a, b) <=> Lexical(a, b)) /\ (Before(b, a) <=> Lexical(b, a))
    BY <1>1, BeforeIs
  <2>2. Lexical(a, b) => ~Lexical(b, a)
    BY <1>1 DEF Lexical
  <2> QED
    BY <2>1, <2>2
<1>4. ASSUME NEW a \in S, NEW b \in S, a # b  PROVE Before(a, b) \/ Before(b, a)
  <2>1. a.doc # b.doc
    BY <1>4 DEF Entries
  <2> QED
    BY <1>1, <2>1, BeforeIs DEF Lexical
<1>5. ASSUME NEW a \in S, NEW b \in S, NEW c \in S, Before(a, b), Before(b, c)  PROVE Before(a, c)
  <2>1. Lexical(a, b) /\ Lexical(b, c)
    BY <1>1, <1>5, BeforeIs
  <2>2. /\ a.doc \in Nat /\ a.score \in Nat /\ a.hits \in Nat /\ a.bm25 \in Nat
        /\ b.doc \in Nat /\ b.score \in Nat /\ b.hits \in Nat /\ b.bm25 \in Nat
        /\ c.doc \in Nat /\ c.score \in Nat /\ c.hits \in Nat /\ c.bm25 \in Nat
        /\ a.both \in BOOLEAN /\ b.both \in BOOLEAN /\ c.both \in BOOLEAN
    BY <1>1
  <2>3. Lexical(a, c)
    <3> DEFINE p == IF a.both THEN 1 ELSE 0
               q == IF b.both THEN 1 ELSE 0
               r == IF c.both THEN 1 ELSE 0
    <3>1. p \in Nat /\ q \in Nat /\ r \in Nat
      BY <2>2
    <3> HIDE DEF p, q, r
    <3>2. CASE a.score > b.score
      BY <2>1, <2>2, <3>2 DEF Lexical
    <3>3. CASE a.score = b.score /\ a.hits > b.hits
      BY <2>1, <2>2, <3>3 DEF Lexical
    <3>4. CASE a.score = b.score /\ a.hits = b.hits /\ p > q
      BY <2>1, <2>2, <3>1, <3>4 DEF Lexical, p, q, r
    <3>5. CASE a.score = b.score /\ a.hits = b.hits /\ p = q /\ a.bm25 > b.bm25
      BY <2>1, <2>2, <3>1, <3>5 DEF Lexical, p, q, r
    <3>6. CASE a.score = b.score /\ a.hits = b.hits /\ p = q /\ a.bm25 = b.bm25 /\ a.doc < b.doc
      BY <2>1, <2>2, <3>1, <3>6 DEF Lexical, p, q, r
    <3> QED
      BY <2>1, <3>2, <3>3, <3>4, <3>5, <3>6 DEF Lexical, p, q
  <2> QED
    BY <1>1, <2>3, BeforeIs
<1> QED
  BY <1>2, <1>3, <1>4, <1>5

\* How many entries of a set come before one.
Ahead(S, e) == {x \in S : Before(x, e)}
Position(S, e) == Cardinality(Ahead(S, e)) + 1

\* The number ahead of an entry, and one, is a place of its own.
LEMMA PositionIsPlace ==
    ASSUME NEW S, Entries(S)
    PROVE  /\ Cardinality(S) \in Nat
           /\ \A e \in S : Position(S, e) \in 1..Cardinality(S)
           /\ \A a, b \in S : Before(a, b) => Position(S, a) < Position(S, b)
<1> DEFINE n == Cardinality(S)
<1>1. IsFiniteSet(S) /\ n \in Nat
  BY FS_CardinalityType DEF Entries
<1>2. ASSUME NEW e \in S
      PROVE  /\ IsFiniteSet(Ahead(S, e)) /\ Cardinality(Ahead(S, e)) \in Nat
             /\ Position(S, e) \in 1..n
  <2>1. Ahead(S, e) \subseteq S \ {e}
    BY BeforeOrders DEF Ahead
  <2>2. IsFiniteSet(S \ {e}) /\ Cardinality(S \ {e}) = n - 1
    BY <1>1, FS_RemoveElement
  <2>3. IsFiniteSet(Ahead(S, e)) /\ Cardinality(Ahead(S, e)) <= n - 1
    BY <2>1, <2>2, FS_Subset
  <2>4. Cardinality(Ahead(S, e)) \in Nat
    BY <2>3, FS_CardinalityType
  <2> QED
    BY <1>1, <2>3, <2>4 DEF Position
<1>3. ASSUME NEW a \in S, NEW b \in S, Before(a, b)  PROVE Position(S, a) < Position(S, b)
  <2>1. Ahead(S, a) \subseteq Ahead(S, b)
    BY <1>3, BeforeOrders DEF Ahead
  <2>2. a \in Ahead(S, b) /\ a \notin Ahead(S, a)
    BY <1>3, BeforeOrders DEF Ahead
  <2>3. Cardinality(Ahead(S, a)) <= Cardinality(Ahead(S, b))
        /\ Cardinality(Ahead(S, a)) # Cardinality(Ahead(S, b))
    BY <1>2, <2>1, <2>2, FS_Subset
  <2>4. Cardinality(Ahead(S, a)) \in Nat /\ Cardinality(Ahead(S, b)) \in Nat
    BY <1>2
  <2> QED
    BY <2>3, <2>4 DEF Position
<1> QED
  BY <1>1, <1>2, <1>3

\* What a sort gives: every entry once, each before those behind it.
LEMMA SortedList ==
    ASSUME NEW S, Entries(S), NEW s \in Sorted(S)
    PROVE  /\ s \in [1..Cardinality(S) -> S]
           /\ \A e \in S : \E i \in 1..Cardinality(S) : s[i] = e
           /\ \A i, j \in 1..Cardinality(S) : i < j => Before(s[i], s[j])
           /\ \A i \in 1..Cardinality(S) : i = Position(S, s[i])
<1> DEFINE n == Cardinality(S)
<1>1. IsFiniteSet(S) /\ n \in Nat
  BY FS_CardinalityType DEF Entries
<1>2. /\ s \in [1..n -> S] /\ DOMAIN s = 1..n
      /\ \A i, j \in 1..n : i # j => s[i] # s[j]
      /\ \A i, j \in 1..n : i < j => ~Before(s[j], s[i])
  BY DEF Sorted, SetToSeqs
<1>3. \A i, j \in 1..n : i < j => Before(s[i], s[j])
  <2> TAKE i, j \in 1..n
  <2> HAVE i < j
  <2>1. s[i] \in S /\ s[j] \in S /\ s[i] # s[j] /\ ~Before(s[j], s[i])
    BY <1>2
  <2> QED
    BY <2>1, BeforeOrders
<1>4. \A e \in S : \E i \in 1..n : s[i] = e
  <2>1. IsFiniteSet(1..n) /\ Cardinality(1..n) = n
    BY <1>1, FS_Interval
  <2>2. s \in Injection(1..n, S)
    BY <1>2 DEF Injection, IsInjective
  <2>3. s \in Surjection(1..n, S)
    BY <1>1, <2>1, <2>2, FS_Injection
  <2> QED
    BY <2>3 DEF Surjection
<1>5. ASSUME NEW i \in 1..n  PROVE i = Position(S, s[i])
  <2> DEFINE front == [j \in 1..(i - 1) |-> s[j]]
  <2>1. s[i] \in S /\ i - 1 \in Nat /\ 1..(i - 1) \subseteq 1..n
    BY <1>1, <1>2
  <2>2. \A j \in 1..n : Before(s[j], s[i]) <=> j < i
    <3> TAKE j \in 1..n
    <3>1. j < i \/ j = i \/ i < j
      OBVIOUS
    <3>2. s[j] \in S
      BY <1>2
    <3> QED
      BY <1>2, <1>3, <2>1, <3>1, <3>2, BeforeOrders
  <2>3. \A j \in 1..(i - 1) : s[j] \in Ahead(S, s[i])
    BY <1>2, <2>1, <2>2 DEF Ahead
  <2>4. \A x \in Ahead(S, s[i]) : \E j \in 1..(i - 1) : s[j] = x
    <3> TAKE x \in Ahead(S, s[i])
    <3>1. PICK j \in 1..n : s[j] = x
      BY <1>4 DEF Ahead
    <3>2. j < i
      BY <2>2, <3>1 DEF Ahead
    <3>3. j \in 1..(i - 1)
      BY <1>1, <3>2
    <3> QED
      BY <3>1, <3>3
  <2>5. front \in Injection(1..(i - 1), Ahead(S, s[i]))
    BY <1>2, <2>1, <2>3 DEF Injection, IsInjective
  <2>6. front \in Surjection(1..(i - 1), Ahead(S, s[i]))
    BY <2>3, <2>4 DEF Surjection
  <2>7. ExistsBijection(1..(i - 1), Ahead(S, s[i]))
    BY <2>5, <2>6 DEF ExistsBijection, Bijection
  <2>8. Cardinality(Ahead(S, s[i])) = i - 1
    BY <2>1, <2>7, FS_CountingElements
  <2> QED
    BY <2>8 DEF Position
<1> QED
  BY <1>2, <1>3, <1>4, <1>5

\* There is one way to sort them.
LEMMA OneSorting ==
    ASSUME NEW S, Entries(S)
    PROVE  Cardinality(Sorted(S)) = 1
<1> DEFINE n == Cardinality(S)
           place == [e \in S |-> Position(S, e)]
           list == [i \in 1..n |-> CHOOSE e \in S : Position(S, e) = i]
<1>1. IsFiniteSet(S) /\ n \in Nat /\ IsFiniteSet(1..n) /\ Cardinality(1..n) = n
  BY FS_CardinalityType, FS_Interval DEF Entries
<1>2. \A i \in 1..n : list[i] \in S /\ Position(S, list[i]) = i
  <2>1. place \in [S -> 1..n]
    BY PositionIsPlace
  <2>2. \A a, b \in S : place[a] = place[b] => a = b
    <3> TAKE a, b \in S
    <3>1. place[a] \in 1..n /\ place[b] \in 1..n
      BY <2>1
    <3>2. a # b => place[a] < place[b] \/ place[b] < place[a]
      BY BeforeOrders, PositionIsPlace
    <3> HIDE DEF place
    <3> QED
      BY <3>1, <3>2
  <2>3. place \in Injection(S, 1..n)
    BY <2>1, <2>2 DEF Injection, IsInjective
  <2>4. place \in Surjection(S, 1..n)
    BY <1>1, <2>3, FS_Injection
  <2>5. \A i \in 1..n : \E e \in S : Position(S, e) = i
    BY <2>4 DEF Surjection
  <2> QED
    BY <2>5
<1>3. list \in Sorted(S)
  <2>1. list \in [1..n -> S]
    BY <1>2
  <2>2. \A i, j \in 1..n : i # j => list[i] # list[j]
    <3> HIDE DEF list
    <3> QED
      BY <1>2
  <2>3. \A i, j \in 1..n : i < j => ~Before(list[j], list[i])
    <3> HIDE DEF list
    <3> TAKE i, j \in 1..n
    <3> HAVE i < j
    <3>1. list[i] \in S /\ list[j] \in S /\ Position(S, list[i]) = i /\ Position(S, list[j]) = j
      BY <1>2
    <3>2. Before(list[j], list[i]) => Position(S, list[j]) < Position(S, list[i])
      BY <3>1, PositionIsPlace
    <3> QED
      BY <3>1, <3>2
  <2> HIDE DEF list
  <2>4. list \in SetToSeqs(S) /\ DOMAIN list = 1..n
    BY <2>1, <2>2 DEF SetToSeqs
  <2> QED
    BY <2>3, <2>4 DEF Sorted
<1>4. ASSUME NEW s \in Sorted(S), NEW t \in Sorted(S)  PROVE s = t
  <2>1. /\ s \in [1..n -> S] /\ \A i \in 1..n : i = Position(S, s[i])
    BY SortedList
  <2>2. /\ t \in [1..n -> S] /\ \A i \in 1..n : i = Position(S, t[i])
        /\ \A e \in S : \E i \in 1..n : t[i] = e
    BY SortedList
  <2>3. ASSUME NEW i \in 1..n  PROVE s[i] = t[i]
    <3>1. PICK j \in 1..n : t[j] = s[i]
      BY <2>1, <2>2
    <3>2. j = i
      BY <2>1, <2>2, <3>1
    <3> QED
      BY <3>1, <3>2
  <2>4. s = [i \in 1..n |-> s[i]] /\ t = [i \in 1..n |-> t[i]]
    BY <2>1, <2>2
  <2> QED
    BY <2>3, <2>4, Zenon
<1>5. Sorted(S) = {list}
  <2> HIDE DEF list
  <2> QED
    BY <1>3, <1>4
<1> QED
  BY <1>5, FS_Singleton

-----------------------------------------------------------------------------

\* A list holds a document once, at its rank.
LEMMA RankIs ==
    ASSUME NEW list \in Lists
    PROVE  /\ Len(list) \in Nat /\ Len(list) <= Cardinality(Doc) /\ DOMAIN list = 1..Len(list)
           /\ \A d \in ToSet(list) : RankIn(list, d) \in 1..Len(list) /\ list[RankIn(list, d)] = d
           /\ \A i \in 1..Len(list) : RankIn(list, list[i]) = i
<1>1. Cardinality(Doc) \in Nat
  BY FusionAssumption, FS_CardinalityType
<1>2. PICK n \in 0..Cardinality(Doc) : list \in [1..n -> Doc]
  BY DEF Lists
<1>3. n \in Nat /\ Len(list) = n /\ DOMAIN list = 1..n
  BY <1>1, <1>2
<1>4. IsInjective(list)
  BY DEF Lists
<1>5. ASSUME NEW i \in 1..n  PROVE RankIn(list, list[i]) = i
  <2>1. {j \in DOMAIN list : list[j] = list[i]} = {i}
    BY <1>3, <1>4 DEF IsInjective
  <2>2. Min({i}) = i
    BY DEF Min
  <2> QED
    BY <2>1, <2>2 DEF RankIn
<1>6. \A d \in ToSet(list) : \E i \in 1..n : list[i] = d
  BY <1>3 DEF ToSet
<1> QED
  BY <1>1, <1>3, <1>5, <1>6

\* The share of a rank falls with the rank.
LEMMA ShareFalls ==
    ASSUME NEW a \in 1..Length, NEW b \in 1..Length, NEW weight \in Nat
    PROVE  /\ Share(weight, a) \in Nat
           /\ a <= b => Share(weight, a) >= Share(weight, b)
           /\ a < b /\ weight # 0 => Share(weight, a) > Share(weight, b)
           /\ weight # 0 => Share(weight, a) > 0
<1> DEFINE p == Unit \div (K + a)
           q == Unit \div (K + b)
<1>1. K + a \in Nat \ {0} /\ K + b \in Nat \ {0} /\ Unit \in Nat \ {0}
      /\ Unit % (K + a) = 0 /\ Unit % (K + b) = 0 /\ K \in Nat /\ a \in Nat /\ b \in Nat
  BY FusionAssumption, FS_CardinalityType DEF Length
<1>2. Unit = (K + a) * p /\ p \in Nat /\ Unit = (K + b) * q /\ q \in Nat
  BY <1>1
<1> HIDE DEF p, q
<1>3. p \in Nat \ {0} /\ q \in Nat \ {0}
  BY <1>1, <1>2
<1>4. ASSUME a < b  PROVE p > q
  <2>1. SUFFICES ASSUME p <= q  PROVE FALSE
    BY <1>2
  <2>2. PICK x \in Nat \ {0}, y \in Nat \ {0} : x = K + a /\ y = K + b
    BY <1>1
  <2>3. x < y /\ x * p = y * q
    BY <1>1, <1>2, <1>4, <2>2
  <2>4. x * p <= x * q
    BY <1>3, <2>1, <2>2
  <2>5. x * q < y * q
    BY <1>3, <2>2, <2>3
  <2> QED
    BY <1>3, <2>2, <2>3, <2>4, <2>5
<1>5. a = b => p = q
  BY DEF p, q
<1>6. Share(weight, a) = weight * p /\ Share(weight, b) = weight * q
  BY DEF Share, p, q
<1>7. weight * p \in Nat /\ (weight # 0 => weight * p > 0)
  BY <1>3
<1>8. p >= q => weight * p >= weight * q
  BY <1>3
<1>9. p > q /\ weight # 0 => weight * p > weight * q
  BY <1>3
<1>10. (a <= b => p >= q) /\ (a < b => p > q)
  BY <1>1, <1>3, <1>4, <1>5
<1> QED
  BY <1>6, <1>7, <1>8, <1>9, <1>10

-----------------------------------------------------------------------------

Found(bm25, vec) == {Entry(bm25, vec, weights, d) : d \in ToSet(bm25) \cup ToSet(vec)}

\* The rank a list gives a document, that behind both lists where it does not.
Placed(list, missing, d) == IF d \in ToSet(list) THEN RankIn(list, d) ELSE missing

\* The entries of two lists, and what each says.
LEMMA EntryIs ==
    ASSUME weights \in WeightPair, NEW bm25 \in Lists, NEW vec \in Lists, NEW d \in ToSet(bm25) \cup ToSet(vec)
    PROVE  LET e == Entry(bm25, vec, weights, d)
               missing == MissingRank(bm25, vec)
               b == Placed(bm25, missing, d)
               v == Placed(vec, missing, d)
           IN  /\ e \in EntryType /\ e.doc = d /\ e.hits = 1
               /\ e.both = (d \in ToSet(bm25) /\ d \in ToSet(vec))
               /\ e.score = Share(weights[1], b) + Share(weights[2], v)
               /\ e.bm25 = IF d \in ToSet(bm25) THEN Length + 1 - b ELSE 0
               /\ b \in 1..Length /\ v \in 1..Length
               /\ missing \in 1..Length /\ Len(bm25) < missing /\ Len(vec) < missing
<1> DEFINE e == Entry(bm25, vec, weights, d)
           missing == MissingRank(bm25, vec)
           b == Placed(bm25, missing, d)
           v == Placed(vec, missing, d)
<1>1. Cardinality(Doc) \in Nat /\ Length = Cardinality(Doc) + 1
  BY FusionAssumption, FS_CardinalityType DEF Length
<1>2. /\ Len(bm25) \in Nat /\ Len(bm25) <= Cardinality(Doc)
      /\ Len(vec) \in Nat /\ Len(vec) <= Cardinality(Doc)
  BY RankIs
<1>3. missing \in 1..Length /\ Len(bm25) < missing /\ Len(vec) < missing
  <2>1. PICK m : m = Max({Len(bm25), Len(vec)})
    OBVIOUS
  <2>2. m \in {Len(bm25), Len(vec)} /\ m >= Len(bm25) /\ m >= Len(vec)
    <3>1. \E x \in {Len(bm25), Len(vec)} : \A y \in {Len(bm25), Len(vec)} : x >= y
      BY <1>2
    <3> QED
      BY <2>1, <3>1 DEF Max
  <2>3. missing = m + 1
    BY <2>1 DEF MissingRank
  <2> QED
    BY <1>1, <1>2, <2>2, <2>3
<1>4. b \in 1..Length /\ v \in 1..Length
  <2>1. d \in ToSet(bm25) => RankIn(bm25, d) \in 1..Len(bm25)
    BY RankIs
  <2>2. d \in ToSet(vec) => RankIn(vec, d) \in 1..Len(vec)
    BY RankIs
  <2> QED
    BY <1>1, <1>2, <1>3, <2>1, <2>2 DEF Placed
<1>5. e = [doc |-> d, score |-> Share(weights[1], b) + Share(weights[2], v), hits |-> 1,
           both |-> d \in ToSet(bm25) /\ d \in ToSet(vec),
           bm25 |-> IF d \in ToSet(bm25) THEN Length + 1 - b ELSE 0]
  BY DEF Entry, Placed
<1> HIDE DEF e, b, v, missing
<1>6. weights[1] \in Nat /\ weights[2] \in Nat
  BY FusionAssumption
<1>7. Share(weights[1], b) \in Nat /\ Share(weights[2], v) \in Nat
  BY <1>4, <1>6, ShareFalls
<1>8. (IF d \in ToSet(bm25) THEN Length + 1 - b ELSE 0) \in Nat
  BY <1>1, <1>4
<1>9. d \in Doc
  <2>1. \A list \in Lists : ToSet(list) \subseteq Doc
    BY DEF Lists, ToSet
  <2> QED
    BY <2>1
<1>10. Share(weights[1], b) + Share(weights[2], v) \in Nat
  BY <1>7
<1>11. e \in EntryType
  BY <1>5, <1>8, <1>9, <1>10 DEF EntryType
<1>12. /\ e.doc = d /\ e.hits = 1
       /\ e.both = (d \in ToSet(bm25) /\ d \in ToSet(vec))
       /\ e.score = Share(weights[1], b) + Share(weights[2], v)
       /\ e.bm25 = IF d \in ToSet(bm25) THEN Length + 1 - b ELSE 0
  BY <1>5
<1> QED
  BY <1>3, <1>4, <1>11, <1>12 DEF e, b, v, missing

\* A set of entries, one of each document.
LEMMA EntriesAre ==
    ASSUME NEW D \in SUBSET Doc, NEW f \in [D -> EntryType], \A d \in D : f[d].doc = d
    PROVE  Entries({f[d] : d \in D})
<1> DEFINE S == {f[d] : d \in D}
<1>1. IsFiniteSet(D)
  BY FusionAssumption, FS_Subset
<1>2. f \in Surjection(D, S)
  BY DEF Surjection
<1>3. IsFiniteSet(S)
  BY <1>1, <1>2, FS_Surjection
<1> QED
  BY <1>3 DEF Entries

\* The entries a fusion of two lists sorts.
LEMMA FoundEntries ==
    ASSUME weights \in WeightPair, NEW bm25 \in Lists, NEW vec \in Lists
    PROVE  Entries(Found(bm25, vec))
<1> DEFINE D == ToSet(bm25) \cup ToSet(vec)
           f == [d \in D |-> Entry(bm25, vec, weights, d)]
<1>1. D \subseteq Doc
  <2>1. \A list \in Lists : ToSet(list) \subseteq Doc
    BY DEF Lists, ToSet
  <2> QED
    BY <2>1
<1>2. \A d \in D : Entry(bm25, vec, weights, d) \in EntryType /\ Entry(bm25, vec, weights, d).doc = d
  BY EntryIs
<1>3. f \in [D -> EntryType] /\ \A d \in D : f[d].doc = d
  BY <1>2
<1>4. Found(bm25, vec) = {f[d] : d \in D}
  BY DEF Found
<1> HIDE DEF f, D
<1> QED
  BY <1>1, <1>3, <1>4, EntriesAre

\* Of two documents the one both lists rank no lower comes first.
LEMMA HigherComesFirst ==
    ASSUME weights \in WeightPair, bm25List \in Lists, vecList \in Lists, weights[2] # 0 \/ vecList = <<>>,
           NEW c \in ToSet(bm25List) \cup ToSet(vecList), NEW d \in ToSet(bm25List) \cup ToSet(vecList), c # d,
           (IF c \in ToSet(bm25List) THEN RankIn(bm25List, c) ELSE Length)
             <= (IF d \in ToSet(bm25List) THEN RankIn(bm25List, d) ELSE Length),
           (IF c \in ToSet(vecList) THEN RankIn(vecList, c) ELSE Length)
             <= (IF d \in ToSet(vecList) THEN RankIn(vecList, d) ELSE Length)
    PROVE  Before(Entry(bm25List, vecList, weights, c), Entry(bm25List, vecList, weights, d))
<1> DEFINE missing == MissingRank(bm25List, vecList)
           x == Entry(bm25List, vecList, weights, c)
           y == Entry(bm25List, vecList, weights, d)
           bc == Placed(bm25List, missing, c)
           bd == Placed(bm25List, missing, d)
           vc == Placed(vecList, missing, c)
           vd == Placed(vecList, missing, d)
<1>1. /\ x \in EntryType /\ x.doc = c /\ x.hits = 1
      /\ x.both = (c \in ToSet(bm25List) /\ c \in ToSet(vecList))
      /\ x.score = Share(weights[1], bc) + Share(weights[2], vc)
      /\ x.bm25 = IF c \in ToSet(bm25List) THEN Length + 1 - bc ELSE 0
      /\ bc \in 1..Length /\ vc \in 1..Length
      /\ missing \in 1..Length /\ Len(bm25List) < missing /\ Len(vecList) < missing
  BY EntryIs
<1>2. /\ y \in EntryType /\ y.doc = d /\ y.hits = 1
      /\ y.both = (d \in ToSet(bm25List) /\ d \in ToSet(vecList))
      /\ y.score = Share(weights[1], bd) + Share(weights[2], vd)
      /\ y.bm25 = IF d \in ToSet(bm25List) THEN Length + 1 - bd ELSE 0
      /\ bd \in 1..Length /\ vd \in 1..Length
  BY EntryIs
<1>3. Cardinality(Doc) \in Nat /\ Length = Cardinality(Doc) + 1
  BY FusionAssumption, FS_CardinalityType DEF Length
<1>4. ASSUME NEW list \in Lists, Len(list) < missing,
             (IF c \in ToSet(list) THEN RankIn(list, c) ELSE Length)
               <= (IF d \in ToSet(list) THEN RankIn(list, d) ELSE Length)
      PROVE  /\ d \in ToSet(list) => c \in ToSet(list)
             /\ c \in ToSet(list) => Placed(list, missing, c) < Placed(list, missing, d)
             /\ c \notin ToSet(list) => Placed(list, missing, c) = Placed(list, missing, d)
  <2>1. /\ Len(list) \in Nat /\ Len(list) <= Cardinality(Doc)
        /\ c \in ToSet(list) => RankIn(list, c) \in 1..Len(list) /\ list[RankIn(list, c)] = c
        /\ d \in ToSet(list) => RankIn(list, d) \in 1..Len(list) /\ list[RankIn(list, d)] = d
    BY RankIs
  <2>2. c \in ToSet(list) /\ d \in ToSet(list) => RankIn(list, c) # RankIn(list, d)
    BY <2>1
  <2>3. d \in ToSet(list) => c \in ToSet(list)
    BY <1>3, <1>4, <2>1
  <2>4. c \in ToSet(list) => Placed(list, missing, c) < Placed(list, missing, d)
    BY <1>1, <1>4, <2>1, <2>2 DEF Placed
  <2>5. c \notin ToSet(list) => Placed(list, missing, c) = Placed(list, missing, d)
    BY <2>3 DEF Placed
  <2> QED
    BY <2>3, <2>4, <2>5
<1>5. /\ d \in ToSet(bm25List) => c \in ToSet(bm25List)
      /\ c \in ToSet(bm25List) => bc < bd
      /\ c \notin ToSet(bm25List) => bc = bd
  BY <1>1, <1>4
<1>6. /\ d \in ToSet(vecList) => c \in ToSet(vecList)
      /\ c \in ToSet(vecList) => vc < vd
      /\ c \notin ToSet(vecList) => vc = vd
  BY <1>1, <1>4
<1>7. weights[1] \in Nat /\ weights[2] \in Nat
  BY FusionAssumption
<1> HIDE DEF x, y, bc, bd, vc, vd, missing
<1>8. PICK s1 \in Nat, s2 \in Nat, t1 \in Nat, t2 \in Nat :
        /\ s1 = Share(weights[1], bc) /\ s2 = Share(weights[2], vc)
        /\ t1 = Share(weights[1], bd) /\ t2 = Share(weights[2], vd)
        /\ s1 >= t1 /\ s2 >= t2
        /\ bc < bd /\ weights[1] # 0 => s1 > t1
        /\ vc < vd /\ weights[2] # 0 => s2 > t2
  <2>1. bc <= bd /\ vc <= vd
    BY <1>1, <1>2, <1>5, <1>6
  <2>2. /\ Share(weights[1], bc) \in Nat /\ Share(weights[1], bd) \in Nat
        /\ Share(weights[1], bc) >= Share(weights[1], bd)
        /\ bc < bd /\ weights[1] # 0 => Share(weights[1], bc) > Share(weights[1], bd)
    BY <1>1, <1>2, <1>7, <2>1, ShareFalls
  <2>3. /\ Share(weights[2], vc) \in Nat /\ Share(weights[2], vd) \in Nat
        /\ Share(weights[2], vc) >= Share(weights[2], vd)
        /\ vc < vd /\ weights[2] # 0 => Share(weights[2], vc) > Share(weights[2], vd)
    BY <1>1, <1>2, <1>7, <2>1, ShareFalls
  <2> QED
    BY <2>2, <2>3
<1>9. x.score = s1 + s2 /\ y.score = t1 + t2
  BY <1>1, <1>2, <1>8
<1>10. CASE c \in ToSet(vecList)
  <2>1. weights[2] # 0
    BY <1>10 DEF ToSet
  <2>2. x.score > y.score
    BY <1>6, <1>8, <1>9, <1>10, <2>1
  <2> QED
    BY <1>1, <1>2, <2>2, BeforeIs DEF Lexical, x, y
<1>11. CASE c \notin ToSet(vecList)
  <2>1. c \in ToSet(bm25List) /\ d \notin ToSet(vecList)
    BY <1>6, <1>11
  <2>2. x.score >= y.score /\ x.hits = y.hits
    BY <1>1, <1>2, <1>8, <1>9
  <2>6. ~x.both /\ ~y.both
    BY <1>1, <1>2, <2>1, <1>11, Zenon
  <2>3. x.bm25 > y.bm25
    BY <1>1, <1>2, <1>3, <1>5, <2>1
  <2>4. x.score \in Nat /\ y.score \in Nat
    BY <1>8, <1>9
  <2>5. Lexical(x, y)
    BY <2>2, <2>3, <2>4, <2>6 DEF Lexical
  <2> QED
    BY <1>1, <1>2, <2>5, BeforeIs DEF x, y
<1> QED
  BY <1>10, <1>11

-----------------------------------------------------------------------------

\* A set of naturals has a least one.
LEMMA LeastIsThere == ASSUME NEW S \in SUBSET Nat, S # {}  PROVE \E n \in S : \A m \in S : n <= m
<1>1. PICK n \in S : \A m \in S : ~(<<m, n>> \in OpToRel(<, Nat))
  BY NatLessThanWellFounded, WFMin, Zenon
<1>2. \A m \in S : ~(m < n)
  BY <1>1, Zenon DEF OpToRel
<1>3. \A m \in S : n <= m
  BY <1>2
<1> QED
  BY <1>3

\* The sums of the first terms, one after the other.
LEMMA SumsSoFar ==
    ASSUME NEW N \in Nat, NEW term \in [1..N -> Nat]
    PROVE  \E f \in [0..N -> Nat] : f[0] = 0 /\ \A k \in 1..N : f[k] = f[k - 1] + term[k]
<1> DEFINE Good(n) == \E f \in [0..n -> Nat] : f[0] = 0 /\ \A k \in 1..n : f[k] = f[k - 1] + term[k]
           bad == {n \in 0..N : ~Good(n)}
<1> SUFFICES Good(N)
  OBVIOUS
<1>1. SUFFICES ASSUME bad # {}  PROVE FALSE
  <2> HIDE DEF Good
  <2> QED
    OBVIOUS
<1>2. PICK m \in bad : \A k \in bad : m <= k
  <2>1. bad \in SUBSET Nat
    OBVIOUS
  <2> HIDE DEF bad
  <2> QED
    BY <1>1, <2>1, LeastIsThere
<1>3. m \in 0..N /\ ~Good(m)
  OBVIOUS
<1>4. CASE m = 0
  <2> DEFINE f == [n \in 0..0 |-> 0]
  <2>1. f \in [0..m -> Nat] /\ f[0] = 0 /\ \A k \in 1..m : f[k] = f[k - 1] + term[k]
    BY <1>4
  <2> HIDE DEF f
  <2> QED
    BY <1>3, <2>1
<1>5. CASE m # 0
  <2>1. m - 1 \in 0..N /\ m \in 1..N
    BY <1>3, <1>5
  <2>2. Good(m - 1)
    <3> HIDE DEF Good
    <3>1. ~(m <= m - 1)
      BY <2>1
    <3> QED
      BY <1>2, <2>1, <3>1
  <2>3. PICK f \in [0..(m - 1) -> Nat] : f[0] = 0 /\ \A k \in 1..(m - 1) : f[k] = f[k - 1] + term[k]
    BY <2>2
  <2> DEFINE g == [n \in 0..m |-> IF n = m THEN f[m - 1] + term[m] ELSE f[n]]
  <2>4. f[m - 1] \in Nat /\ term[m] \in Nat
    BY <2>1, <2>3
  <2>5. g \in [0..m -> Nat]
    BY <2>1, <2>3, <2>4
  <2>6. g[0] = 0
    BY <2>1, <2>3
  <2>7. \A k \in 1..m : g[k] = g[k - 1] + term[k]
    <3> SUFFICES ASSUME NEW k \in 1..m  PROVE g[k] = g[k - 1] + term[k]
      OBVIOUS
    <3>1. CASE k = m
      BY <2>1, <3>1
    <3>2. CASE k # m
      BY <2>1, <2>3, <3>2
    <3> QED
      BY <3>1, <3>2
  <2> HIDE DEF g
  <2> QED
    BY <1>3, <2>5, <2>6, <2>7
<1> QED
  BY <1>4, <1>5

\* SumOf is the last of them.
LEMMA SumIs ==
    ASSUME NEW N \in Nat, NEW term \in [1..N -> Nat]
    PROVE  \E f \in [0..N -> Nat] :
              f[0] = 0 /\ SumOf(term, N) = f[N] /\ \A k \in 1..N : f[k] = f[k - 1] + term[k]
<1> DEFINE Sums(f) == f = [i \in 0..N |-> IF i = 0 THEN 0 ELSE f[i - 1] + term[i]]
<1>1. PICK f \in [0..N -> Nat] : f[0] = 0 /\ \A k \in 1..N : f[k] = f[k - 1] + term[k]
  BY SumsSoFar
<1>2. Sums(f)
  BY <1>1
<1> DEFINE g == CHOOSE g : Sums(g)
<1>3. Sums(g)
  BY <1>2, Zenon
<1>4. SumOf(term, N) = g[N]
  BY Zenon DEF SumOf
<1> HIDE DEF g
<1>5. DOMAIN g = 0..N /\ g[0] = 0 /\ \A n \in 1..N : g[n] = g[n - 1] + term[n]
  BY <1>3
<1>6. \A n \in 0..N : g[n] = f[n]
  <2> DEFINE bad == {n \in 0..N : g[n] # f[n]}
  <2>1. SUFFICES ASSUME bad # {}  PROVE FALSE
    OBVIOUS
  <2>2. PICK m \in bad : \A k \in bad : m <= k
    <3>1. bad \in SUBSET Nat
      OBVIOUS
    <3> HIDE DEF bad
    <3> QED
      BY <2>1, <3>1, LeastIsThere
  <2>3. m \in 1..N
    BY <1>1, <1>5
  <2>4. m - 1 \in 0..N /\ m - 1 \notin bad
    BY <2>2, <2>3
  <2> QED
    BY <1>1, <1>5, <2>3, <2>4
<1>7. SumOf(term, N) = f[N]
  BY <1>4, <1>6
<1> QED
  BY <1>1, <1>7

\* A sum of greater terms is greater.
LEMMA SumGrows ==
    ASSUME NEW N \in Nat, NEW p \in [1..N -> Nat], NEW q \in [1..N -> Nat], \A k \in 1..N : p[k] <= q[k]
    PROVE  /\ SumOf(p, N) \in Nat /\ SumOf(q, N) \in Nat
           /\ SumOf(p, N) <= SumOf(q, N)
           /\ (\E k \in 1..N : p[k] < q[k]) => SumOf(p, N) < SumOf(q, N)
<1>1. PICK f \in [0..N -> Nat] : f[0] = 0 /\ SumOf(p, N) = f[N] /\ \A k \in 1..N : f[k] = f[k - 1] + p[k]
  BY SumIs
<1>2. PICK g \in [0..N -> Nat] : g[0] = 0 /\ SumOf(q, N) = g[N] /\ \A k \in 1..N : g[k] = g[k - 1] + q[k]
  BY SumIs
<1> DEFINE Good(n) == f[n] <= g[n] /\ ((\E k \in 1..n : p[k] < q[k]) => f[n] < g[n])
           bad == {n \in 0..N : ~Good(n)}
<1>3. bad = {}
  <2>1. SUFFICES ASSUME bad # {}  PROVE FALSE
    OBVIOUS
  <2>2. PICK m \in bad : \A k \in bad : m <= k
    <3>1. bad \in SUBSET Nat
      OBVIOUS
    <3> HIDE DEF bad
    <3> QED
      BY <2>1, <3>1, LeastIsThere
  <2>3. m \in 0..N /\ ~Good(m)
    OBVIOUS
  <2>4. m # 0
    BY <1>1, <1>2, <2>3
  <2>5. m - 1 \in 0..N /\ m \in 1..N
    BY <2>3, <2>4
  <2>6. Good(m - 1)
    <3> HIDE DEF Good
    <3>1. ~(m <= m - 1)
      BY <2>5
    <3> QED
      BY <2>2, <2>5, <3>1
  <2>7. /\ f[m] = f[m - 1] + p[m] /\ g[m] = g[m - 1] + q[m] /\ p[m] <= q[m]
        /\ f[m - 1] \in Nat /\ g[m - 1] \in Nat /\ p[m] \in Nat /\ q[m] \in Nat
    BY <1>1, <1>2, <2>5
  <2>8. f[m] <= g[m]
    <3>1. f[m - 1] <= g[m - 1]
      BY <2>6
    <3> HIDE DEF Good, bad
    <3>2. f[m - 1] + p[m] <= g[m - 1] + q[m]
      BY <2>7, <3>1
    <3> QED
      BY <2>7, <3>2
  <2>9. ASSUME NEW k \in 1..m, p[k] < q[k]  PROVE f[m] < g[m]
    <3>1. CASE k = m
      BY <2>6, <2>7, <2>9, <3>1
    <3>2. CASE k # m
      <4>1. k \in 1..(m - 1)
        BY <2>5, <3>2
      <4>2. f[m - 1] < g[m - 1]
        BY <2>6, <2>9, <4>1
      <4> QED
        BY <2>7, <4>2
    <3> QED
      BY <3>1, <3>2
  <2> QED
    BY <2>3, <2>8, <2>9
<1>4. Good(N)
  <2>1. \A n \in 0..N : n \notin bad
    <3> HIDE DEF bad
    <3> QED
      BY <1>3
  <2>2. N \in 0..N
    OBVIOUS
  <2> QED
    BY <2>1, <2>2
<1> QED
  BY <1>1, <1>2, <1>4

-----------------------------------------------------------------------------

Answers == [SubQueries -> SubResults]
Answered(lists) == UNION {ToSet(Docs(lists[i])) : i \in DOMAIN lists}
Shares(lists, d) ==
    [i \in DOMAIN lists |-> IF i \in With(lists, d) THEN Share(SubWeight(i), RankIn(Docs(lists[i]), d)) ELSE 0]

\* The documents of a sub-query's results are a list.
LEMMA AnswerIs ==
    ASSUME NEW r \in SubResults
    PROVE  /\ Docs(r) \in Lists /\ DOMAIN Docs(r) = DOMAIN r
           /\ \A k \in DOMAIN r : r[k].bm25 = 0 /\ r[k].both \in BOOLEAN
<1>1. PICK list \in Lists :
        r = [i \in DOMAIN list |-> [doc |-> list[i], score |-> Share(1, i), hits |-> 1,
                                    both |-> i = 1, bm25 |-> 0]]
  BY DEF SubResults
<1>2. \A i \in DOMAIN list : r[i].doc = list[i] /\ r[i].bm25 = 0 /\ r[i].both = (i = 1)
  BY <1>1
<1>3. DOMAIN r = DOMAIN list
  BY <1>1
<1>4. list = [i \in DOMAIN list |-> list[i]]
  BY DEF Lists
<1>5. Docs(r) = list
  BY <1>2, <1>3, <1>4 DEF Docs
<1> QED
  BY <1>2, <1>3, <1>5

\* The entry of a document that sub-queries found.
LEMMA MultiEntryIs ==
    ASSUME NEW lists \in Answers, NEW d \in Answered(lists)
    PROVE  LET e == MultiEntry(lists, d)
               N == Len(SubWeights)
           IN  /\ e \in EntryType /\ e.doc = d /\ N \in Nat /\ DOMAIN lists = 1..N
               /\ e.score = SumOf(Shares(lists, d), N) * (9 + Cardinality(With(lists, d)))
               /\ IsFiniteSet(With(lists, d)) /\ Cardinality(With(lists, d)) \in Nat
               /\ Shares(lists, d) \in [1..N -> Nat]
<1> DEFINE e == MultiEntry(lists, d)
           N == Len(SubWeights)
           with == With(lists, d)
           entry(i) == lists[i][RankIn(Docs(lists[i]), d)]
<1>1. N \in Nat /\ SubQueries = 1..N /\ DOMAIN lists = 1..N /\ \A i \in 1..N : lists[i] \in SubResults
  BY FusionAssumption DEF Answers, SubQueries
<1>2. Len(lists) = N
  BY <1>1
<1>3. with \subseteq 1..N /\ with # {}
  BY <1>1 DEF With, Answered
<1>4. IsFiniteSet(with) /\ Cardinality(with) \in Nat
  <2>1. IsFiniteSet(1..N)
    BY <1>1, FS_Interval
  <2>2. IsFiniteSet(with)
    BY <1>3, <2>1, FS_Subset
  <2> QED
    BY <2>2, FS_CardinalityType
<1>5. ASSUME NEW i \in with
      PROVE  /\ RankIn(Docs(lists[i]), d) \in 1..Length /\ SubWeight(i) \in Nat
             /\ entry(i).bm25 = 0 /\ entry(i).both \in BOOLEAN /\ d \in Doc
  <2>1. lists[i] \in SubResults /\ d \in ToSet(Docs(lists[i]))
    BY <1>1, <1>3 DEF With
  <2>2. Docs(lists[i]) \in Lists
    BY <2>1, AnswerIs
  <2>3. /\ Len(Docs(lists[i])) \in Nat /\ Len(Docs(lists[i])) <= Cardinality(Doc)
        /\ RankIn(Docs(lists[i]), d) \in 1..Len(Docs(lists[i]))
        /\ DOMAIN Docs(lists[i]) = 1..Len(Docs(lists[i]))
    BY <2>1, <2>2, RankIs
  <2>4. RankIn(Docs(lists[i]), d) \in DOMAIN lists[i]
    BY <2>1, <2>3, AnswerIs
  <2>5. Cardinality(Doc) \in Nat /\ Length = Cardinality(Doc) + 1
    BY FusionAssumption, FS_CardinalityType DEF Length
  <2>6. SubWeight(i) \in Nat
    BY <1>1, <1>3, FusionAssumption DEF SubWeight
  <2>7. d \in Doc
    BY <2>1, <2>2 DEF Lists, ToSet
  <2>8. entry(i).bm25 = 0 /\ entry(i).both \in BOOLEAN
    BY <2>1, <2>4, AnswerIs
  <2> QED
    BY <2>3, <2>5, <2>6, <2>7, <2>8
<1>6. Shares(lists, d) \in [1..N -> Nat]
  <2>1. ASSUME NEW i \in with  PROVE Share(SubWeight(i), RankIn(Docs(lists[i]), d)) \in Nat
    BY <1>5, ShareFalls
  <2> QED
    BY <1>1, <2>1 DEF Shares
<1>7. SumOf(Shares(lists, d), N) \in Nat
  BY <1>1, <1>6, SumGrows
<1>8. Max({entry(i).bm25 : i \in with}) = 0
  <2>1. {entry(i).bm25 : i \in with} = {0}
    BY <1>3, <1>5
  <2>2. Max({0}) = 0
    BY DEF Max
  <2> QED
    BY <2>1, <2>2
<1>9. e = [doc |-> d, score |-> SumOf(Shares(lists, d), N) * (9 + Cardinality(with)),
           hits |-> Cardinality(with), both |-> \E i \in with : entry(i).both, bm25 |-> Max({entry(i).bm25 : i \in with})]
  BY <1>2 DEF MultiEntry, Shares
<1> HIDE DEF e, with, entry
<1>10. SumOf(Shares(lists, d), N) * (9 + Cardinality(with)) \in Nat
  BY <1>4, <1>7
<1>11. d \in Doc
  BY <1>3, <1>5
<1>12. e \in EntryType /\ e.doc = d /\ e.score = SumOf(Shares(lists, d), N) * (9 + Cardinality(with))
  BY <1>4, <1>8, <1>9, <1>10, <1>11 DEF EntryType
<1> QED
  BY <1>1, <1>4, <1>6, <1>12 DEF e, with

\* The entries a fusion of sub-queries sorts.
LEMMA AnsweredEntries ==
    ASSUME NEW lists \in Answers
    PROVE  Entries({MultiEntry(lists, d) : d \in Answered(lists)})
<1> DEFINE D == Answered(lists)
           f == [d \in D |-> MultiEntry(lists, d)]
<1>1. \A d \in D : MultiEntry(lists, d) \in EntryType /\ MultiEntry(lists, d).doc = d
  BY MultiEntryIs
<1>2. D \subseteq Doc
  BY <1>1 DEF EntryType
<1>3. f \in [D -> EntryType] /\ \A d \in D : f[d].doc = d
  BY <1>1
<1>4. {MultiEntry(lists, d) : d \in D} = {f[d] : d \in D}
  OBVIOUS
<1> HIDE DEF f, D
<1>5. Entries({f[d] : d \in D})
  BY <1>2, <1>3, EntriesAre
<1> QED
  BY <1>4, <1>5 DEF D

\* A document that every sub-query ranks below another one comes after it.
LEMMA ConsensusAdds ==
    ASSUME NEW lists \in Answers, NEW c \in Answered(lists), NEW d \in Answered(lists), c # d,
           \A i \in SubQueries : c \in ToSet(Docs(lists[i])) =>
              d \in ToSet(Docs(lists[i])) /\ RankIn(Docs(lists[i]), d) <= RankIn(Docs(lists[i]), c)
    PROVE  Before(MultiEntry(lists, d), MultiEntry(lists, c))
<1> DEFINE N == Len(SubWeights)
           p == Shares(lists, c)
           q == Shares(lists, d)
           x == MultiEntry(lists, c)
           y == MultiEntry(lists, d)
           m == Cardinality(With(lists, c))
           n == Cardinality(With(lists, d))
<1>1. /\ x \in EntryType /\ N \in Nat /\ DOMAIN lists = 1..N /\ SubQueries = 1..N
      /\ x.score = SumOf(p, N) * (9 + m) /\ m \in Nat /\ p \in [1..N -> Nat]
  BY MultiEntryIs, FusionAssumption DEF SubQueries
<1>2. /\ y \in EntryType /\ y.score = SumOf(q, N) * (9 + n) /\ n \in Nat /\ q \in [1..N -> Nat]
      /\ IsFiniteSet(With(lists, d))
  BY MultiEntryIs
<1>3. With(lists, c) \subseteq With(lists, d)
  BY <1>1 DEF With
<1>4. m <= n
  BY <1>2, <1>3, FS_Subset
<1>5. ASSUME NEW i \in With(lists, c)  PROVE p[i] < q[i]
  <2>1. /\ i \in SubQueries /\ c \in ToSet(Docs(lists[i])) /\ d \in ToSet(Docs(lists[i])) /\ i \in With(lists, d)
        /\ RankIn(Docs(lists[i]), d) <= RankIn(Docs(lists[i]), c)
    BY <1>1, <1>3 DEF With
  <2>2. Docs(lists[i]) \in Lists
    BY <2>1, AnswerIs DEF Answers
  <2>3. /\ Len(Docs(lists[i])) \in Nat /\ Len(Docs(lists[i])) <= Cardinality(Doc)
        /\ RankIn(Docs(lists[i]), c) \in 1..Len(Docs(lists[i])) /\ Docs(lists[i])[RankIn(Docs(lists[i]), c)] = c
        /\ RankIn(Docs(lists[i]), d) \in 1..Len(Docs(lists[i])) /\ Docs(lists[i])[RankIn(Docs(lists[i]), d)] = d
    BY <2>1, <2>2, RankIs
  <2>4. RankIn(Docs(lists[i]), d) < RankIn(Docs(lists[i]), c)
    BY <2>1, <2>3
  <2>5. Cardinality(Doc) \in Nat /\ Length = Cardinality(Doc) + 1
    BY FusionAssumption, FS_CardinalityType DEF Length
  <2>6. SubWeight(i) \in Nat /\ SubWeight(i) # 0
    BY <1>1, <2>1, FusionAssumption DEF SubWeight
  <2>7. RankIn(Docs(lists[i]), c) \in 1..Length /\ RankIn(Docs(lists[i]), d) \in 1..Length
    BY <2>3, <2>5
  <2>8. Share(SubWeight(i), RankIn(Docs(lists[i]), d)) > Share(SubWeight(i), RankIn(Docs(lists[i]), c))
        /\ Share(SubWeight(i), RankIn(Docs(lists[i]), d)) \in Nat
        /\ Share(SubWeight(i), RankIn(Docs(lists[i]), c)) \in Nat
    BY <2>4, <2>6, <2>7, ShareFalls
  <2>9. p[i] = Share(SubWeight(i), RankIn(Docs(lists[i]), c)) /\ q[i] = Share(SubWeight(i), RankIn(Docs(lists[i]), d))
    BY <1>1, <2>1 DEF Shares
  <2> QED
    BY <2>8, <2>9
<1>6. \A i \in 1..N : p[i] <= q[i]
  <2> TAKE i \in 1..N
  <2>1. CASE i \in With(lists, c)
    <3>1. p[i] \in Nat /\ q[i] \in Nat
      BY <1>1, <1>2
    <3> QED
      BY <1>5, <2>1, <3>1
  <2>2. CASE i \notin With(lists, c)
    <3>1. p[i] = 0 /\ q[i] \in Nat
      BY <1>1, <1>2, <2>2 DEF Shares
    <3> QED
      BY <3>1
  <2> QED
    BY <2>1, <2>2
<1>7. \E i \in 1..N : p[i] < q[i]
  <2>1. PICK i \in With(lists, c) : TRUE
    BY DEF Answered, With
  <2> QED
    BY <1>1, <1>5, <2>1 DEF With
<1> HIDE DEF p, q, x, y, m, n
<1>8. SumOf(p, N) \in Nat /\ SumOf(q, N) \in Nat /\ SumOf(p, N) < SumOf(q, N)
  BY <1>1, <1>2, <1>6, <1>7, SumGrows
<1>9. y.score > x.score
  <2>1. PICK u \in Nat, v \in Nat : u = SumOf(p, N) /\ v = SumOf(q, N)
    BY <1>8
  <2>2. u < v
    BY <1>8, <2>1
  <2>3. u * (9 + m) < v * (9 + m)
    BY <1>1, <2>2
  <2>4. v * (9 + m) <= v * (9 + n)
    BY <1>1, <1>2, <1>4
  <2>5. u * (9 + m) \in Nat /\ v * (9 + m) \in Nat /\ v * (9 + n) \in Nat
    BY <1>1, <1>2
  <2> QED
    BY <1>1, <1>2, <2>1, <2>3, <2>4, <2>5
<1> QED
  BY <1>1, <1>2, <1>9, BeforeIs DEF Lexical, x, y

-----------------------------------------------------------------------------

\* What a sort of entries makes of their documents: each is at its place.
LEMMA DocsArePlaced ==
    ASSUME NEW S, Entries(S), NEW s \in Sorted(S)
    PROVE  /\ \A x \in S : x.doc \in ToSet(Docs(s)) /\ RankIn(Docs(s), x.doc) = Position(S, x)
           /\ \A d \in ToSet(Docs(s)) : \E x \in S : x.doc = d
<1> DEFINE n == Cardinality(S)
<1>1. /\ s \in [1..n -> S] /\ \A e \in S : \E i \in 1..n : s[i] = e
      /\ \A i \in 1..n : i = Position(S, s[i])
  BY SortedList
<1>2. DOMAIN Docs(s) = 1..n /\ \A i \in 1..n : Docs(s)[i] = s[i].doc
  BY <1>1 DEF Docs
<1>3. ASSUME NEW x \in S  PROVE x.doc \in ToSet(Docs(s)) /\ RankIn(Docs(s), x.doc) = Position(S, x)
  <2>1. PICK i \in 1..n : s[i] = x
    BY <1>1
  <2>2. i = Position(S, x) /\ Docs(s)[i] = x.doc
    BY <1>1, <1>2, <2>1
  <2>3. ASSUME NEW j \in 1..n, Docs(s)[j] = x.doc  PROVE j = i
    <3>1. s[j] \in S /\ s[j].doc = x.doc
      BY <1>1, <1>2, <2>3
    <3>2. s[j] = x
      BY <3>1 DEF Entries
    <3> QED
      BY <1>1, <2>2, <3>2
  <2>4. {j \in DOMAIN Docs(s) : Docs(s)[j] = x.doc} = {i}
    BY <1>2, <2>2, <2>3
  <2>5. Min({i}) = i
    BY DEF Min
  <2>6. RankIn(Docs(s), x.doc) = i
    BY <2>4, <2>5 DEF RankIn
  <2>7. x.doc \in ToSet(Docs(s))
    BY <1>2, <2>2 DEF ToSet
  <2> QED
    BY <2>2, <2>6, <2>7
<1>4. ASSUME NEW d \in ToSet(Docs(s))  PROVE \E x \in S : x.doc = d
  <2>1. PICK i \in 1..n : Docs(s)[i] = d
    BY <1>2 DEF ToSet
  <2> QED
    BY <1>1, <1>2, <2>1
<1> QED
  BY <1>3, <1>4

Agreed(lists) == {MultiEntry(lists, d) : d \in Answered(lists)}

\* What a fusion works on, and what it has made of it.
FusionInv ==
    /\ weights \in WeightPair
    /\ bm25List \in Lists /\ vecList \in Lists
    /\ subList \in [SubQueries -> SubResults \cup {Waiting}]
    /\ multiLimit \in 1..2
    /\ fuseStep = "fused" => fused \in Fuse(bm25List, vecList, weights)
    /\ fuseStep = "answered" =>
          /\ \A i \in SubQueries : subList[i] # Waiting
          /\ \E s \in FuseMultiQuery(subList) : fused = SubSeq(s, 1, Min({multiLimit, Len(s)}))

\* The invariant holds at the start, before any list has come.
LEMMA FusionStarts == FusionInit => FusionInv
<1> SUFFICES ASSUME FusionInit  PROVE FusionInv
  OBVIOUS
<1>1. <<>> \in Lists
  <2>1. 0 \in 0..Cardinality(Doc)
    BY FusionAssumption, FS_CardinalityType
  <2>2. <<>> \in [1..0 -> Doc] /\ IsInjective(<<>>)
    BY DEF IsInjective
  <2> QED
    BY <2>1, <2>2 DEF Lists
<1>2. fuseStep # "fused" /\ fuseStep # "answered"
  BY DEF FusionInit
<1>3. weights \in WeightPair /\ bm25List = <<>> /\ vecList = <<>> /\ multiLimit \in 1..2
      /\ subList = [i \in SubQueries |-> Waiting]
  BY Zenon DEF FusionInit
<1>4. subList \in [SubQueries -> SubResults \cup {Waiting}]
  BY <1>3
<1> QED
  BY <1>1, <1>2, <1>3, <1>4, Zenon DEF FusionInv

\* Each search, sub-query and fusion keeps it.
LEMMA FusionKeeps == FusionInv /\ [FusionNext]_fusionVars => FusionInv'
<1> SUFFICES ASSUME FusionInv, [FusionNext]_fusionVars  PROVE FusionInv'
  OBVIOUS
<1>1. ASSUME NEW s \in Lists, SearchBM25(s)  PROVE FusionInv'
  BY <1>1, Zenon DEF SearchBM25, FusionInv
<1>2. ASSUME NEW s \in Lists, SearchVectors(s)  PROVE FusionInv'
  BY <1>2, Zenon DEF SearchVectors, FusionInv
<1>3. CASE FuseLists
  BY <1>3, Zenon DEF FuseLists, FusionInv
<1>4. ASSUME NEW i \in SubQueries, NEW r \in SubResults, FinishSubQuery(i, r)  PROVE FusionInv'
  <2>1. subList' \in [SubQueries -> SubResults \cup {Waiting}]
    BY <1>4 DEF FinishSubQuery, FusionInv
  <2> QED
    BY <1>4, <2>1, Zenon DEF FinishSubQuery, FusionInv
<1>5. CASE FuseSubQueries
  <2>1. /\ fuseStep' = "answered" /\ \A i \in SubQueries : subList'[i] # Waiting
        /\ \E s \in FuseMultiQuery(subList') : fused' = SubSeq(s, 1, Min({multiLimit', Len(s)}))
    BY <1>5, Zenon DEF FuseSubQueries
  <2>2. UNCHANGED <<weights, bm25List, vecList, subList, multiLimit>>
    BY <1>5, Zenon DEF FuseSubQueries
  <2> QED
    BY <2>1, <2>2, Zenon DEF FusionInv
<1>6. CASE UNCHANGED fusionVars
  BY <1>6, Zenon DEF fusionVars, FusionInv
<1> QED
  BY <1>1, <1>2, <1>3, <1>4, <1>5, <1>6, Zenon DEF FusionNext

\* What both lists say of two documents, the fusion says of them.
LEMMA ListsAreRespected == FusionInv => FusionRespectsLists
<1> SUFFICES ASSUME FusionInv, fuseStep = "fused", weights[2] # 0 \/ vecList = <<>>,
                    NEW c \in ToSet(Docs(fused)), NEW d \in ToSet(Docs(fused)), c # d,
                    (IF c \in ToSet(bm25List) THEN RankIn(bm25List, c) ELSE Length)
                      <= (IF d \in ToSet(bm25List) THEN RankIn(bm25List, d) ELSE Length),
                    (IF c \in ToSet(vecList) THEN RankIn(vecList, c) ELSE Length)
                      <= (IF d \in ToSet(vecList) THEN RankIn(vecList, d) ELSE Length)
             PROVE  RankIn(Docs(fused), c) < RankIn(Docs(fused), d)
  BY Zenon DEF FusionRespectsLists
<1> DEFINE S == Found(bm25List, vecList)
           entry(e) == Entry(bm25List, vecList, weights, e)
<1>1. weights \in WeightPair /\ bm25List \in Lists /\ vecList \in Lists /\ fused \in Sorted(S)
  BY Zenon DEF FusionInv, Fuse, Found
<1>2. Entries(S)
  BY <1>1, FoundEntries
<1>3. ASSUME NEW e \in ToSet(Docs(fused))
      PROVE  /\ e \in ToSet(bm25List) \cup ToSet(vecList) /\ entry(e) \in S
             /\ RankIn(Docs(fused), e) = Position(S, entry(e))
  <2>1. PICK x \in S : x.doc = e
    BY <1>1, <1>2, DocsArePlaced
  <2>2. PICK f \in ToSet(bm25List) \cup ToSet(vecList) : x = entry(f)
    BY DEF Found
  <2>3. x.doc = f
    BY <1>1, <2>2, EntryIs
  <2>4. x = entry(e) /\ e \in ToSet(bm25List) \cup ToSet(vecList)
    BY <2>1, <2>2, <2>3
  <2>5. RankIn(Docs(fused), x.doc) = Position(S, x)
    BY <1>1, <1>2, DocsArePlaced
  <2> QED
    BY <2>1, <2>4, <2>5
<1>4. Before(entry(c), entry(d))
  BY <1>1, <1>3, HigherComesFirst
<1> HIDE DEF S, entry
<1>5. Position(S, entry(c)) < Position(S, entry(d))
  BY <1>2, <1>3, <1>4, PositionIsPlace
<1> QED
  BY <1>3, <1>5

\* Once every sub-query has answered, the consensus sorts its entries.
LEMMA AllAnswered ==
    ASSUME subList \in [SubQueries -> SubResults \cup {Waiting}], \A i \in SubQueries : subList[i] # Waiting
    PROVE  /\ subList \in Answers /\ FuseMultiQuery(subList) = Sorted(Agreed(subList))
           /\ Entries(Agreed(subList))
<1>1. subList \in Answers
  BY DEF Answers
<1>2. FuseMultiQuery(subList) = Sorted(Agreed(subList))
  BY Zenon DEF FuseMultiQuery, Agreed, Answered
<1>3. Entries(Agreed(subList))
  BY <1>1, AnsweredEntries DEF Agreed
<1> QED
  BY <1>1, <1>2, <1>3

\* Either fusion has one result.
LEMMA OneAnswer == FusionInv => FusionIsDetermined
<1> SUFFICES ASSUME FusionInv  PROVE FusionIsDetermined
  OBVIOUS
<1>1. Cardinality(Fuse(bm25List, vecList, weights)) = 1
  <2>1. weights \in WeightPair /\ bm25List \in Lists /\ vecList \in Lists
    BY Zenon DEF FusionInv
  <2>2. Fuse(bm25List, vecList, weights) = Sorted(Found(bm25List, vecList))
    BY Zenon DEF Fuse, Found
  <2> QED
    BY <2>1, <2>2, FoundEntries, OneSorting
<1>2. ASSUME \A i \in SubQueries : subList[i] # Waiting  PROVE Cardinality(FuseMultiQuery(subList)) = 1
  <2>1. subList \in [SubQueries -> SubResults \cup {Waiting}]
    BY Zenon DEF FusionInv
  <2>2. FuseMultiQuery(subList) = Sorted(Agreed(subList)) /\ Entries(Agreed(subList))
    BY <1>2, <2>1, AllAnswered
  <2> QED
    BY <2>2, OneSorting
<1> QED
  BY <1>1, <1>2, Zenon DEF FusionIsDetermined

\* Nobody left out by the limit is one whom no sub-query ranks below one let in.
LEMMA ConsensusIsRespected == FusionInv => ConsensusRespectsLists
<1> SUFFICES ASSUME FusionInv, fuseStep = "answered",
                    NEW c \in ToSet(Docs(fused)), NEW d \in Doc \ ToSet(Docs(fused)),
                    ~\E i \in SubQueries :
                        /\ c \in ToSet(Docs(subList[i]))
                        /\ d \in ToSet(Docs(subList[i]))
                              => RankIn(Docs(subList[i]), c) < RankIn(Docs(subList[i]), d)
             PROVE  FALSE
  BY Zenon DEF ConsensusRespectsLists
<1> DEFINE S == Agreed(subList)
           entry(e) == MultiEntry(subList, e)
<1>1. subList \in Answers /\ FuseMultiQuery(subList) = Sorted(S) /\ Entries(S)
  <2>1. subList \in [SubQueries -> SubResults \cup {Waiting}] /\ \A i \in SubQueries : subList[i] # Waiting
    BY Zenon DEF FusionInv
  <2> QED
    BY <2>1, AllAnswered
<1>2. PICK s \in Sorted(S) : fused = SubSeq(s, 1, Min({multiLimit, Len(s)}))
  BY <1>1, Zenon DEF FusionInv
<1>3. PICK n \in Nat : n = Cardinality(S)
  BY <1>1, PositionIsPlace
<1>4. /\ s \in [1..n -> S] /\ \A i \in 1..n : i = Position(S, s[i])
      /\ \A e \in S : \E i \in 1..n : s[i] = e
  BY <1>1, <1>3, SortedList
<1>5. PICK limit \in 0..n : fused = SubSeq(s, 1, limit)
  <2>1. Len(s) = n
    BY <1>4
  <2>2. multiLimit \in 1..2
    BY Zenon DEF FusionInv
  <2>3. Min({multiLimit, n}) \in 0..n
    <3>1. \E x \in {multiLimit, n} : \A y \in {multiLimit, n} : x <= y
      BY <2>2
    <3>2. PICK m : m = Min({multiLimit, n})
      OBVIOUS
    <3>3. m \in {multiLimit, n} /\ m <= n
      BY <3>1, <3>2 DEF Min
    <3> QED
      BY <2>2, <3>2, <3>3
  <2> QED
    BY <1>2, <2>1, <2>3
<1>6. DOMAIN fused = 1..limit /\ \A i \in 1..limit : fused[i] = s[i]
  BY <1>4, <1>5
<1>7. DOMAIN Docs(fused) = 1..limit /\ \A i \in 1..limit : Docs(fused)[i] = s[i].doc
  BY <1>6 DEF Docs
<1>8. PICK i \in 1..limit : s[i].doc = c
  BY <1>7 DEF ToSet
<1>9. i \in 1..n /\ s[i] \in S /\ i = Position(S, s[i])
  BY <1>4
<1>10. \A x \in S : x.doc \in Answered(subList) /\ x = entry(x.doc)
  <2> TAKE x \in S
  <2>1. PICK e \in Answered(subList) : x = entry(e)
    BY DEF Agreed
  <2>2. x.doc = e
    BY <1>1, <2>1, MultiEntryIs
  <2> QED
    BY <2>1, <2>2
<1>11. c \in Answered(subList) /\ s[i] = entry(c)
  BY <1>8, <1>9, <1>10
<1>12. \A k \in SubQueries : c \in ToSet(Docs(subList[k])) =>
          d \in ToSet(Docs(subList[k])) /\ RankIn(Docs(subList[k]), d) <= RankIn(Docs(subList[k]), c)
  <2> TAKE k \in SubQueries
  <2> HAVE c \in ToSet(Docs(subList[k]))
  <2>1. d \in ToSet(Docs(subList[k])) /\ ~(RankIn(Docs(subList[k]), c) < RankIn(Docs(subList[k]), d))
    BY Zenon
  <2>2. Docs(subList[k]) \in Lists
    BY <1>1, AnswerIs DEF Answers
  <2>3. /\ RankIn(Docs(subList[k]), c) \in 1..Len(Docs(subList[k]))
        /\ RankIn(Docs(subList[k]), d) \in 1..Len(Docs(subList[k]))
    BY <2>1, <2>2, RankIs
  <2> QED
    BY <2>1, <2>3
<1>13. d \in Answered(subList) /\ c # d
  <2>1. PICK k \in DOMAIN subList : c \in ToSet(Docs(subList[k]))
    BY <1>11 DEF Answered
  <2>2. k \in SubQueries /\ DOMAIN subList = SubQueries
    BY <1>1, <2>1 DEF Answers
  <2>3. d \in ToSet(Docs(subList[k]))
    BY <1>12, <2>1, <2>2
  <2> QED
    BY <2>1, <2>3 DEF Answered
<1>14. Before(entry(d), entry(c))
  BY <1>1, <1>11, <1>12, <1>13, ConsensusAdds
<1>15. entry(d) \in S /\ entry(d).doc = d
  <2>1. entry(d) \in S
    BY <1>13 DEF Agreed
  <2> QED
    BY <1>1, <1>13, <2>1, MultiEntryIs
<1> HIDE DEF S, entry
<1>16. Position(S, entry(d)) < i
  BY <1>1, <1>9, <1>11, <1>14, <1>15, PositionIsPlace
<1>17. PICK j \in 1..n : s[j] = entry(d)
  BY <1>4, <1>15
<1>18. j < i
  BY <1>4, <1>16, <1>17
<1>19. j \in 1..limit
  BY <1>8, <1>18
<1>20. Docs(fused)[j] = d
  BY <1>7, <1>15, <1>17, <1>19
<1>21. d \in ToSet(Docs(fused))
  BY <1>7, <1>19, <1>20 DEF ToSet
<1> QED
  BY <1>21

\* The lists fused, twice, and their consensus say what the lists said, and say
\* it in one way (fusion.go, multi_fusion.go): whatever the weights, the
\* smoothing constant and the sub-queries.
THEOREM FusionStaysSound == FusionSpec => []FusionIsSound
<1>1. FusionInv => FusionIsSound
  BY ListsAreRespected, OneAnswer, ConsensusIsRespected DEF FusionIsSound
<1> QED
  BY FusionStarts, FusionKeeps, <1>1, PTL DEF FusionSpec

=============================================================================
