----------------------------- MODULE GraphQuery -----------------------------
(***************************************************************************)
(* Questions asked of the graph: Query, ExpandContext, Neighbors and Path, *)
(* each of which reads the status, the nodes and the edges one after the   *)
(* other, and for a pack the chunks of the index, while both are written.  *)
(*                                                                         *)
(* A node is [id, kind, key, src, name, dir, lang, lines], an edge [id,    *)
(* kind, from, to, src, conf, heur, stale], its confidence in hundredths,  *)
(* a chunk [id, lines].  Texts are compared by Likeness and Distance.  The *)
(* orders list nodes, edges, ids, paths and relations as the code sorts    *)
(* them.                                                                   *)
(***************************************************************************)
EXTENDS Integers, Sequences, FiniteSets, SequencesExt, FiniteSetsExt

CONSTANTS NodeOrder, EdgeOrder, IdOrder, SourceOrder, KindOrder,
          Likeness(_, _),     \* of a text to a query: equal, folded, within, no
          Distance(_, _),     \* edits between a query and the name of a node
          LooksLikePath(_), Unsafe(_),
          LanguageOf(_, _),   \* what the text and the type of a query tell
          CodeLanguages,      \* languages known to the registry
          Marks(_),           \* of a path: test, pm, archive, entry, main, mcp
          Size(_),            \* of a result, in the unit of the token budget
          Defaults, Policy, Configured, \* budgets: built in, their limits, of the project
          CandidateLimit, HintLimit, MaxDistance,
          Project,            \* the files
          PartsOf(_),         \* what a file may contribute: nodes, edges, chunks
          Requests

BudgetNames == {"results", "nodes", "perKind", "tokens", "depth"}
Listing(order) == order \in Seq(ToSet(order))

\* The orders list what the edges speak of; what is asked is one of four questions;
\* budgets are numbers.
ASSUME QuestionAssumption ==
    /\ Listing(EdgeOrder) /\ Listing(IdOrder) /\ Listing(SourceOrder)
    /\ \A e \in ToSet(EdgeOrder) :
          e.conf \in 0..100 /\ e.from \in ToSet(IdOrder) /\ e.to \in ToSet(IdOrder) /\ e.src \in ToSet(SourceOrder)
    /\ \A r \in Requests : r.op \in {"query", "expand", "neighbors", "path"}
    /\ Policy \in [BudgetNames -> Nat] /\ Configured.policy \in [BudgetNames -> Int]
    /\ \A mode \in DOMAIN Defaults :
          Defaults[mode] \in [BudgetNames -> Nat] /\ Configured.modes[mode] \in [BudgetNames -> Int]

VARIABLES indexed,    \* what each file contributes to the index
          stored,     \* the graph: nodes, edges, status
          request,    \* the question under way
          at,         \* how far it is: idle, asked, nodes, packed, answered
          nodesRead, response,
          disturbed   \* the graph was written between the reads

queryVars == <<indexed, stored, request, at, nodesRead, response, disturbed>>

Place(order, x) == CHOOSE i \in DOMAIN order : order[i] = x
InOrder(nodes) == SelectSeq(NodeOrder, LAMBDA n : n \in nodes)
ById(nodes) == LET ids == SelectSeq(IdOrder, LAMBDA id : \E n \in nodes : n.id = id)
               IN  [i \in DOMAIN ids |-> CHOOSE n \in nodes : n.id = ids[i]]
Named(nodes, id) == {n \in nodes : n.id = id}
TheNode(nodes, id) == CHOOSE n \in nodes : n.id = id
OfKind(nodes, kind) == {n \in nodes : n.kind = kind}
First(s, n) == SubSeq(s, 1, Min({n, Len(s)}))

\* What a list has at some places, in its order.
Chosen(s, places) ==
    LET upto[n \in 0..Len(s)] ==
            IF n = 0 THEN <<>> ELSE IF n \in places THEN Append(upto[n - 1], s[n]) ELSE upto[n - 1]
    IN  upto[Len(s)]

FileKinds == {"file", "test_file", "doc", "config_file"}
Extracted == {"go", "typescript", "javascript", "python"}
DocKinds  == {"doc_mentions_file", "doc_mentions_symbol", "doc_mentions_config_key"}

-----------------------------------------------------------------------------
\* Which node a question is about.

NoScore == 99

\* nodeMatchScore: the first field that is the query; else the first that differs
\* in case only, or contains it.
Score(n, q) ==
    LET text  == <<n.key, n.src, n.name, n.id>>
        of(kinds) == {i \in 1..4 : text[i] # "" /\ Likeness(text[i], q) \in kinds}
        equal == of({"equal"})
        loose == of({"folded", "within"})
    IN  CASE equal # {} -> Min(equal) - 1
          [] equal = {} /\ loose # {} ->
                Min(loose) - 1 + IF Likeness(text[Min(loose)], q) = "folded" THEN 4 ELSE 8
          [] OTHER -> NoScore

\* matchNodes: by score, then as they sort.
Matching(nodes, q) ==
    FlattenSeq([i \in 1..12 |-> InOrder({n \in nodes : Score(n, q) = i - 1})])

\* nearestSubjectHints
Hints(nodes, q) ==
    First(FlattenSeq([d \in 1..(MaxDistance + 1) |-> InOrder({n \in nodes : Distance(q, n) = d - 1})]), HintLimit)

\* seedScope: a file stands for everything in it.
SeedScope(n, nodes) ==
    IF n.kind \in FileKinds /\ n.src # "" THEN ById({m \in nodes : m.src = n.src}) ELSE <<n>>

Unresolved(outcome, candidates, total) ==
    [outcome |-> outcome, seeds |-> <<>>, candidates |-> candidates, total |-> total]

\* resolutionFromMatchedNodes, the end of resolveSubject: one match, several, none.
Resolved(matched, nodes, hinted, q) ==
    LET n == Cardinality(matched)
    IN  CASE n = 1 -> [outcome |-> "resolved", seeds |-> SeedScope(InOrder(matched)[1], nodes),
                       candidates |-> <<>>, total |-> 0]
          [] n > 1 -> Unresolved("disambiguation_required", First(InOrder(matched), CandidateLimit), n)
          [] n = 0 -> Unresolved("subject_not_found", Hints(hinted, q), 0)

\* resolveSubject: the nodes of the best score.
ResolveSubject(nodes, q, mode) ==
    LET eligible == IF mode = "explain_symbol" THEN OfKind(nodes, "symbol") ELSE nodes
        best     == Min({Score(n, q) : n \in eligible} \cup {NoScore})
    IN  Resolved({n \in eligible : best # NoScore /\ Score(n, q) = best}, nodes, eligible, q)

\* resolvePathSubject
ResolvePath(nodes, q) ==
    LET files == {n \in nodes : n.kind \in FileKinds}
    IN  Resolved({n \in files : Likeness(n.src, q) = "equal"}, nodes, files, q)

\* resolvePackageSubject: by key or name, by directory, by either but for case.
ResolvePackage(nodes, q) ==
    LET packages == OfKind(nodes, "package")
        like(kind, n, fields) == \E text \in fields : Likeness(text, q) = kind
        exact  == {n \in packages : like("equal", n, {n.key, n.name})}
        dir    == {n \in packages : like("equal", n, {n.dir})}
        folded == {n \in packages : like("folded", n, {n.key, n.name, n.dir})}
    IN  Resolved(IF exact # {} THEN exact ELSE IF dir # {} THEN dir ELSE folded, nodes, packages, q)

\* resolveSubjectByType, resolveAutoSubject, resolveResultIDSubject
ResolveByType(nodes, q, mode, type) ==
    CASE type = "path"      -> ResolvePath(nodes, q)
      [] type = "symbol"    -> ResolveSubject(OfKind(nodes, "symbol"), q, mode)
      [] type = "package"   -> ResolvePackage(nodes, q)
      [] type = "result_id" -> Resolved({n \in nodes : Likeness(n.id, q) = "equal"}, nodes, {}, q)
      [] type = "auto"      ->
            IF mode # "explain_symbol" /\ LooksLikePath(q) /\ ResolvePath(nodes, q).outcome = "resolved"
            THEN ResolvePath(nodes, q) ELSE ResolveSubject(nodes, q, mode)

\* resolveQueryTargetLanguage, graphLanguageNeedsUnsupportedWarning
Unsupported(r, seeds) ==
    LET langs == {n.lang : n \in ToSet(seeds)}
        lang  == IF Cardinality(langs) = 1 /\ "" \notin langs THEN CHOOSE l \in langs : TRUE
                 ELSE LanguageOf(r.query, r.type)
    IN  lang \in CodeLanguages \ Extracted

-----------------------------------------------------------------------------
\* What is around it.

\* outgoingRole, incomingRole, as they sort
Roles == <<"chunk_of", "config_key_defined_by", "covered_by_test", "declared_by", "declares_package",
           "defined_by", "defines", "defines_config_key", "has_chunk", "imported_by", "imports",
           "mentioned_by_doc", "mentions_path", "related", "test_covers">>
OutgoingRole(kind) ==
    CASE kind = "file_declares_package"      -> "declares_package"
      [] kind = "file_imports"               -> "imports"
      [] kind = "file_defines_symbol"        -> "defines"
      [] kind = "symbol_has_chunk"           -> "has_chunk"
      [] kind = "file_defines_config_key"    -> "defines_config_key"
      [] kind = "test_covers_implementation" -> "test_covers"
      [] kind \in DocKinds                   -> "mentions_path"
      [] OTHER                               -> "related"
IncomingRole(kind) ==
    CASE kind = "file_declares_package"      -> "declared_by"
      [] kind = "file_imports"               -> "imported_by"
      [] kind = "file_defines_symbol"        -> "defined_by"
      [] kind = "symbol_has_chunk"           -> "chunk_of"
      [] kind = "file_defines_config_key"    -> "config_key_defined_by"
      [] kind = "test_covers_implementation" -> "covered_by_test"
      [] kind \in DocKinds                   -> "mentioned_by_doc"
      [] OTHER                               -> "related"

\* confidenceLabelFor, confidenceRank; pathConfidenceLabel: the least of a path.
Label(conf) == CASE conf = 100 -> "exact" [] conf \in 90..99 -> "high"
                 [] conf \in 70..89 -> "medium" [] conf < 70 -> "low"
Weakest(hops) == IF hops = <<>> THEN "high" ELSE Label(Min({h.edge.conf : h \in ToSet(hops)}))

\* graphPathExplanation, preferredNodeLabel: its length.
Spelled(seed, hops) ==
    LET label(n) == Len(IF n.name # "" THEN n.name ELSE n.key)
    IN  FoldLeft(LAMBDA l, h : l + 7 + Len(h.role) + Len(h.edge.kind) + Len(Label(h.edge.conf)) + label(h.node),
                 label(seed), hops)

Before(a, b) == \E i \in DOMAIN a : a[i] < b[i] /\ \A j \in 1..(i - 1) : a[j] = b[j]
Bit(b) == IF b THEN 1 ELSE 0

\* preferEdge, preferResult: the more confident, then the one not heuristic, then
\* the shorter explanation, the source, the relation.
EdgeRank(e)   == <<100 - e.conf, Bit(e.heur), Place(EdgeOrder, e)>>
ResultRank(r) == <<100 - r.conf, Bit(r.heur), Spelled(r.seed, r.hops), Place(SourceOrder, r.src),
                   Place(KindOrder, r.rel)>>

\* mergeCompetingEdges: of the edges of one kind between two nodes the best, where
\* the first was.
MergeCompeting(edges) ==
    LET same(e) == {f \in ToSet(edges) : f.from = e.from /\ f.to = e.to /\ f.kind = e.kind}
        best(e) == CHOOSE f \in same(e) : \A g \in same(e) \ {f} : Before(EdgeRank(f), EdgeRank(g))
        firsts  == Chosen(edges, {i \in DOMAIN edges : \A j \in 1..(i - 1) : edges[j] \notin same(edges[i])})
    IN  [i \in DOMAIN firsts |-> best(firsts[i])]

\* queryResultFromAdjacencyPath, the results of relatedResults
ResultOf(seed, hops, src) ==
    LET edge == Last(hops).edge
    IN  [id |-> Last(hops).node.id, src |-> src, rel |-> edge.kind, conf |-> edge.conf, heur |-> edge.heur,
         stale |-> edge.stale, seed |-> seed, hops |-> hops, more |-> 0, others |-> {}]
Hop(e, node, role) == [edge |-> e, node |-> node, role |-> role]

\* relationshipForMode: an edge from a seed, or to one unless the impact is asked.
Relevant(e, seeds, mode) ==
    \/ Named(seeds, e.from) # {}
    \/ mode # "impact_analysis" /\ Named(seeds, e.to) # {}
RelationTo(e, seeds, nodes) ==
    IF Named(seeds, e.from) # {}
    THEN ResultOf(TheNode(seeds, e.from), <<Hop(e, TheNode(nodes, e.to), OutgoingRole(e.kind))>>, e.src)
    ELSE ResultOf(TheNode(seeds, e.to), <<Hop(e, TheNode(nodes, e.from), IncomingRole(e.kind))>>, e.src)

\* relatedResults, a turn of its loop: until one more node would be too many.
Related(acc, r, maxNodes) ==
    CASE acc.exhausted -> acc
      [] ~acc.exhausted /\ r.id \notin acc.seen /\ Cardinality(acc.seen) >= maxNodes ->
            [acc EXCEPT !.exhausted = TRUE]
      [] OTHER ->
            [results |-> IF \E x \in ToSet(acc.results) : <<x.rel, x.id, x.seed.id>> = <<r.rel, r.id, r.seed.id>>
                         THEN acc.results ELSE Append(acc.results, r),
             seen |-> acc.seen \cup {r.id}, exhausted |-> FALSE]

Gathered(found, maxNodes) ==
    LET after[n \in 0..Len(found)] ==
            IF n = 0 THEN [results |-> <<>>, seen |-> {}, exhausted |-> FALSE]
            ELSE Related(after[n - 1], found[n], maxNodes)
    IN  after[Len(found)]

\* relatedResults: in the order of the edges.
RelatedResults(nodes, edges, seeds, mode, maxNodes) ==
    LET known(e) == \/ Named(seeds, e.from) # {} /\ Named(nodes, e.to) # {}
                    \/ Named(seeds, e.from) = {} /\ Named(nodes, e.from) # {}
        relevant == Chosen(edges, {i \in DOMAIN edges : Relevant(edges[i], seeds, mode) /\ known(edges[i])})
    IN  Gathered([i \in DOMAIN relevant |-> RelationTo(relevant[i], seeds, nodes)], maxNodes)

\* deduplicateResultsByTarget, a turn of its loop: a relation once suppressed stays
\* listed when its like wins later.
Join(best, r) ==
    LET winner == IF Before(ResultRank(r), ResultRank(best)) THEN r ELSE best
        loser  == IF Before(ResultRank(r), ResultRank(best)) THEN best ELSE r
    IN  [winner EXCEPT !.more = best.more + 1,
                       !.others = best.others \cup ({loser.rel} \ {winner.rel})]

\* deduplicateResultsByTarget: the best of the results for a node, and what else
\* led there.
Joined(results) ==
    LET upto[n \in 1..Len(results)] == IF n = 1 THEN results[1] ELSE Join(upto[n - 1], results[n])
    IN  upto[Len(results)]
Deduplicated(results) ==
    LET to(id) == Chosen(results, {i \in DOMAIN results : results[i].id = id})
        firsts == Chosen(results, {i \in DOMAIN results : \A j \in 1..(i - 1) : results[j].id # results[i].id})
    IN  [i \in DOMAIN firsts |-> Joined(to(firsts[i].id))]

BestFirst(results) ==
    LET rank(r)  == <<100 - r.conf, Place(SourceOrder, r.src), Place(IdOrder, r.id)>>
        ahead(i) == {j \in DOMAIN results : Before(rank(results[j]), rank(results[i]))}
    IN  [k \in DOMAIN results |-> results[CHOOSE i \in DOMAIN results : Cardinality(ahead(i)) = k - 1]]

-----------------------------------------------------------------------------
\* Budgets.

\* NormalizeGraphTraversalConfig: what is not given is the default.
Filled(budget, default) == [b \in DOMAIN default |-> IF budget[b] <= 0 THEN default[b] ELSE budget[b]]

\* ValidateGraphTraversalConfig
ValidConfig(cfg) ==
    LET policy == Filled(cfg.policy, Policy)
    IN  \A b \in DOMAIN Policy :
            /\ policy[b] <= Policy[b]
            /\ \A mode \in DOMAIN Defaults : Filled(cfg.modes[mode], Defaults[mode])[b] <= policy[b]

\* resolveTraversalBudgets, validateQueryRequest: what is asked for is within the
\* policy; a limit replaces the number of results.
PolicyOf == Filled(Configured.policy, Policy)
Budget(r) ==
    LET given == [b \in DOMAIN Policy |->
                    IF b \in DOMAIN r.overrides THEN r.overrides[b]
                    ELSE Filled(Configured.modes[r.mode], Defaults[r.mode])[b]]
    IN  IF r.limit > 0 THEN [given EXCEPT !.results = r.limit] ELSE given
ValidQuery(r) ==
    /\ r.mode \in DOMAIN Defaults
    /\ r.type \in {"auto", "path", "symbol", "package", "result_id"}
    /\ r.query # "" /\ ~Unsafe(r.query)
    /\ r.limit \in 0..PolicyOf.results
    /\ \A b \in DOMAIN r.overrides : r.overrides[b] \in 1..PolicyOf[b]

\* capResultsPerEdgeKind
PerKind(results, max) ==
    LET before(i) == {j \in 1..i : results[j].rel = results[i].rel}
    IN  Chosen(results, {i \in DOMAIN results : Cardinality(before(i)) <= max})

\* estimateResultsJSONBytes; capResultsByTokens: as many as fit, and always one.
Tokens(results) == FoldLeft(LAMBDA t, r : t + Size(r), 0, results)
ByTokens(results, max) ==
    LET fits == {n \in 1..Len(results) : Tokens(First(results, n)) <= max}
    IN  First(results, Max(fits \cup {1}))

\* Mutation of Capped: what the tokens cut is not reported.
CappedQuietly(results, budget) ==
    LET kinds  == PerKind(results, budget.perKind)
        tokens == ByTokens(kinds, budget.tokens)
    IN  [results |-> First(tokens, budget.results),
         warnings |-> {w \in {"per_edge_kind", "results"} :
            \/ w = "per_edge_kind" /\ kinds # results
            \/ w = "results" /\ Len(tokens) > budget.results}]

\* applyTraversalBudgets
Capped(results, budget) ==
    LET kinds  == PerKind(results, budget.perKind)
        tokens == ByTokens(kinds, budget.tokens)
    IN  [results |-> First(tokens, budget.results),
         warnings |-> {w \in {"per_edge_kind", "tokens", "results"} :
            \/ w = "per_edge_kind" /\ kinds # results
            \/ w = "tokens" /\ (tokens # kinds \/ (kinds # <<>> /\ Size(kinds[1]) > budget.tokens))
            \/ w = "results" /\ Len(tokens) > budget.results}]

-----------------------------------------------------------------------------
\* Answers.

\* newGraphIndex: what is next to a node, as adjacencySortKey sorts it.
Adjacent(nodes, edges, id) ==
    LET out == {Hop(e, TheNode(nodes, e.to), OutgoingRole(e.kind)) : e \in {f \in ToSet(edges) : f.from = id}}
        in  == {Hop(e, TheNode(nodes, e.from), IncomingRole(e.kind)) : e \in {f \in ToSet(edges) : f.to = id}}
        rank(h) == <<Place(Roles, h.role), Place(SourceOrder, h.edge.src), Place(KindOrder, h.edge.kind),
                     Place(IdOrder, h.node.id), Place(EdgeOrder, h.edge)>>
    IN  SetToSortSeq(out \cup in, LAMBDA a, b : Before(rank(a), rank(b)))

\* newGraphIndex: an edge without its nodes is an error.
Indexable(nodes, edges) == \A e \in ToSet(edges) : Named(nodes, e.from) # {} /\ Named(nodes, e.to) # {}

Ends(start, hops) == IF hops = <<>> THEN start ELSE Last(hops).node
Visited(start, hops) == {start.id} \cup {h.node.id : h \in ToSet(hops)}

\* findPaths: every path that visits no node twice, the shorter first; a node
\* that is its own target has none but itself.
PathsFrom(nodes, edges, from, targets, depth) ==
    LET beyond(hops) == SelectSeq(Adjacent(nodes, edges, Ends(from, hops).id),
                                  LAMBDA h : h.node.id \notin Visited(from, hops))
        level[k \in 0..depth] ==
            IF k = 0 THEN << <<>> >>
            ELSE FlattenSeq([i \in DOMAIN level[k - 1] |->
                    LET hops == level[k - 1][i]
                    IN  [j \in DOMAIN beyond(hops) |-> Append(hops, beyond(hops)[j])]])
    IN  IF from.id \in targets THEN << <<>> >>
        ELSE SelectSeq(FlattenSeq([k \in 1..depth |-> level[k]]), LAMBDA hops : Last(hops).node.id \in targets)

\* walkNeighbors: the nodes around one seed, nearest first; those of the seeds
\* before are not visited again.  Every turn of its loop takes a node from the queue.
Walk(acc, nodes, edges, limit, depth) ==
    LET hops == Head(acc.queue)
        visit(a, h) ==
            CASE a.full \/ h.node.id \in a.visited -> a
              [] ~a.full /\ h.node.id \notin a.visited /\ Len(a.evidence) >= limit -> [a EXCEPT !.full = TRUE]
              [] OTHER -> [a EXCEPT !.evidence = Append(@, h.node.id), !.visited = @ \cup {h.node.id},
                                    !.queue = Append(@, Append(hops, h))]
        popped == [acc EXCEPT !.queue = Tail(@)]
    IN  IF acc.full \/ acc.queue = <<>> THEN acc
        ELSE IF Len(hops) >= depth THEN popped
             ELSE FoldLeft(visit, popped, Adjacent(nodes, edges, Ends(acc.seed, hops).id))
Walked(start, nodes, edges, limit, depth) ==
    LET after[n \in 0..Cardinality(nodes)] ==
            IF n = 0 THEN start ELSE Walk(after[n - 1], nodes, edges, limit, depth)
    IN  after[Cardinality(nodes)]

\* Neighbors
NeighborsOf(nodes, edges, seeds, limit, depth) ==
    LET add(acc, s) ==
            CASE acc.full -> acc
              [] ~acc.full /\ Len(acc.evidence) >= limit -> [acc EXCEPT !.full = TRUE]
              [] OTHER -> Walked([acc EXCEPT !.evidence = Append(@, s.id), !.visited = @ \cup {s.id},
                                             !.seed = s, !.queue = << <<>> >>], nodes, edges, limit, depth)
        none == [evidence |-> <<>>, visited |-> {}, queue |-> <<>>, full |-> FALSE, seed |-> <<>>]
    IN  FoldLeft(add, none, seeds)

\* collectMultiHopResults: for each seed what is two steps away or more, as far as
\* the budget goes.
Turned(acc, nodes, edges, depth, budget) ==
    LET hops == Head(acc.queue)
        popped == [acc EXCEPT !.queue = Tail(@)]
        visit(a, h) ==
            LET path == Append(hops, h)
                new  == Len(path) >= 2 /\ h.node.id \notin a.seen
                b    == IF new THEN [a EXCEPT !.results = Append(@, ResultOf(a.seed, path, h.node.src)),
                                              !.seen = @ \cup {h.node.id}] ELSE a
            IN  CASE a.hit \/ h.node.id = a.seed.id -> a
                  [] ~a.hit /\ h.node.id # a.seed.id /\ new /\ Len(a.results) >= budget ->
                        [a EXCEPT !.hit = TRUE, !.exhausted = TRUE]
                  [] OTHER ->
                        IF h.node.id \in b.visited THEN b
                        ELSE [b EXCEPT !.visited = @ \cup {h.node.id}, !.queue = Append(@, path)]
    IN  IF acc.hit \/ acc.queue = <<>> \/ Len(acc.results) >= budget THEN acc
        ELSE IF Len(hops) >= depth THEN popped
             ELSE FoldLeft(visit, popped, Adjacent(nodes, edges, Ends(acc.seed, hops).id))
Hopped(start, nodes, edges, depth, budget) ==
    LET after[n \in 0..Cardinality(nodes)] ==
            IF n = 0 THEN start ELSE Turned(after[n - 1], nodes, edges, depth, budget)
    IN  after[Cardinality(nodes)]

\* Mutation of MultiHop: the depth is one short.
MultiHopShallow(nodes, edges, seeds, depth, budget, seen) ==
    LET none == [results |-> <<>>, seen |-> seen, exhausted |-> FALSE, hit |-> FALSE,
                 queue |-> <<>>, visited |-> {}, seed |-> <<>>]
    IN  IF depth <= 2 \/ budget <= 0 THEN none
        ELSE FoldLeft(LAMBDA acc, s : Hopped([acc EXCEPT !.seed = s, !.queue = << <<>> >>, !.visited = {s.id}],
                                             nodes, edges, depth - 1, budget), none, seeds)

MultiHop(nodes, edges, seeds, depth, budget, seen) ==
    LET add(acc, s) ==
            LET end == Hopped([acc EXCEPT !.seed = s, !.queue = << <<>> >>, !.visited = {s.id}, !.hit = FALSE],
                              nodes, edges, depth, budget)
            IN  [end EXCEPT !.exhausted = @ \/ (end.queue # <<>> /\ Len(end.results) >= budget)]
        none == [results |-> <<>>, seen |-> seen, exhausted |-> FALSE, hit |-> FALSE,
                 queue |-> <<>>, visited |-> {}, seed |-> <<>>]
    IN  IF depth <= 1 \/ budget <= 0 THEN none ELSE FoldLeft(add, none, seeds)

-----------------------------------------------------------------------------
\* Packs.

\* importAnchorID: a file or a package, or the file that defines the seed.
Anchor(seed, hops) ==
    LET definers == {h.edge.from : h \in {g \in ToSet(hops) :
                        g.edge.kind = "file_defines_symbol" /\ g.edge.to = seed.id}}
    IN  IF seed.kind \in {"file", "package"} \/ definers = {} THEN seed.id ELSE CHOOSE id \in definers : TRUE

\* ClassifyContextRoles: from the target, its path, and every edge on the way.
ContextRoles(r) ==
    LET target == Last(r.hops).node
        marks  == Marks(target.src)
        way(kinds) == \E h \in ToSet(r.hops) : h.edge.kind \in kinds
        mentioned(mark) == \E h \in ToSet(r.hops) : h.edge.kind \in DocKinds /\ mark \in Marks(h.edge.src)
        from(kinds, id) == \E h \in ToSet(r.hops) :
                                h.edge.kind \in kinds /\ h.edge.to = id /\ h.edge.from = target.id
        is(role) ==
            CASE role = "caller" -> \/ \E h \in ToSet(r.hops) : /\ h.edge.kind = "symbol_calls" /\ ~h.edge.heur
                                                                /\ h.edge.to = r.seed.id /\ h.edge.from = target.id
                                    \/ from({"file_imports", "package_imports"}, Anchor(r.seed, r.hops))
              [] role = "implementation" -> /\ target.kind # "test_file" /\ "test" \notin marks
                                            /\ way({"file_defines_symbol", "symbol_has_chunk"})
              [] role = "test" -> \/ target.kind = "test_file" \/ "test" \in marks
                                  \/ way({"test_covers_implementation"})
              [] role = "doc_or_adr" -> way(DocKinds)
              [] role = "config" -> target.kind = "config_key"
                                    \/ way({"file_defines_config_key", "doc_mentions_config_key"})
              [] role = "related_pm_memory"  -> mentioned("pm")
              [] role = "related_doc_memory" -> mentioned("archive")
              [] role = "entrypoint" -> \/ "entry" \in marks
                                        \/ target.name = "main" /\ "main" \in marks
                                        \/ target.name = "registerTools" /\ "mcp" \in marks
    IN  {role \in {"caller", "implementation", "test", "doc_or_adr", "config", "related_pm_memory",
                   "related_doc_memory", "entrypoint"} : is(role)}

\* packItemsFromResults, contentRefForNode
PackItem(r) ==
    LET target == Last(r.hops).node
    IN  [id |-> r.id, src |-> target.src, lines |-> target.lines, roles |-> ContextRoles(r), hops |-> r.hops,
         seed |-> r.seed, ref |-> IF target.kind = "chunk" THEN target.key ELSE "", content |-> ""]

\* collectExpandResults: the direct results, then what is further away.
Expanded(nodes, edges, seeds, r) ==
    LET direct == RelatedResults(nodes, edges, ToSet(seeds), "find_references", r.limit)
        ids    == {x.id : x \in ToSet(direct.results)}
        beyond == MultiHop(nodes, edges, seeds, r.depth, r.limit - Cardinality(ids), ids)
    IN  [results  |-> direct.results \o beyond.results,
         warnings |-> IF direct.exhausted \/ beyond.exhausted THEN {"nodes"} ELSE {}]

\* lineOverlap, bestChunkForItem: the chunk that shares most lines, the first of equals.
Shared(a, b) ==
    LET lo == Max({a[1], b[1]})
        hi == Min({a[2], b[2]})
    IN  IF a[1] <= 0 \/ b[1] <= 0 \/ hi < lo THEN 0 ELSE hi - lo + 1
BestChunk(chunks, lines) ==
    LET best == Max({Shared(lines, chunks[i].lines) : i \in DOMAIN chunks})
    IN  IF lines[1] <= 0 THEN chunks[1] ELSE chunks[Min({i \in DOMAIN chunks : Shared(lines, chunks[i].lines) = best})]

\* hydrateExpandContextOutput: the chunk a node stands for, or one of its file.
Hydrated(item) ==
    LET chunks(p) == indexed[p].chunks
        held == \E p \in Project : \E c \in ToSet(chunks(p)) : c.id = item.ref
        best == BestChunk(chunks(item.src), item.lines)
    IN  CASE item.ref # "" /\ held -> [item EXCEPT !.content = item.ref]
          [] ~(item.ref # "" /\ held) /\ item.src \in Project /\ chunks(item.src) # <<>> ->
                [item EXCEPT !.ref = best.id, !.content = best.id]
          [] OTHER -> item

-----------------------------------------------------------------------------
\* Asking, and writing meanwhile.

Usable == {"fresh", "stale", "partial"}      \* QueryServable; QueryAvailable has "failed" too, never recorded
Answer(outcome, results, candidates, warnings) ==
    [outcome |-> outcome, results |-> results, candidates |-> candidates, warnings |-> warnings,
     of |-> [nodes |-> {}, edges |-> <<>>, seeds |-> <<>>, targets |-> {}]]
NoAnswer == Answer("none", <<>>, <<>>, {})

QueryInit ==
    /\ indexed \in [Project -> UNION {PartsOf(p) : p \in Project}] /\ \A p \in Project : indexed[p] \in PartsOf(p)
    /\ stored = [nodes |-> UNION {indexed[p].nodes : p \in Project},
                 edges |-> UNION {indexed[p].edges : p \in Project}, status |-> "fresh"]
    /\ request = <<>> /\ at = "idle" /\ nodesRead = {} /\ response = NoAnswer /\ disturbed = FALSE

\* validateQueryRequest, validateExpandContextRequest, validateNeighborRequest,
\* validatePathRequest, validateBounds. A limit or a depth that is not given is the
\* default, which a request names here; a project's name and the lengths of texts
\* are taken for right.
Valid(r) ==
    LET bounded == /\ r.limit \in 1..PolicyOf.results /\ r.depth \in 1..PolicyOf.depth
    IN  CASE r.op = "query"     -> ValidQuery(r)
          [] r.op = "expand"    -> /\ r.query # "" /\ ~Unsafe(r.query) /\ bounded
                                   /\ r.type \in {"auto", "path", "symbol", "result_id"}
          [] r.op = "neighbors" -> r.query # "" /\ bounded
          [] r.op = "path"      -> r.query # "" /\ r.to # "" /\ bounded

\* The request is checked and the status of the graph read.
Ask(r) ==
    /\ at = "idle" /\ request' = r /\ disturbed' = FALSE
    /\ at' = IF Valid(r) /\ ValidConfig(Configured) /\ stored.status \in Usable THEN "asked" ELSE "answered"
    /\ response' = IF Valid(r) /\ ValidConfig(Configured) THEN Answer("unavailable", <<>>, <<>>, {"unavailable"})
                   ELSE Answer("invalid", <<>>, <<>>, {})
    /\ UNCHANGED <<indexed, stored, nodesRead>>

ReadNodes ==
    /\ at = "asked" /\ at' = "nodes" /\ nodesRead' = stored.nodes
    /\ UNCHANGED <<indexed, stored, request, response, disturbed>>

\* What an answer was made of is kept with it, to state what it must be.
Made(answer, edges, seeds, targets) ==
    [answer EXCEPT !.of = [nodes |-> nodesRead, edges |-> edges, seeds |-> seeds, targets |-> targets]]

\* Query, after its reads
QueryAnswer(r, edges) ==
    LET subject == ResolveByType(nodesRead, r.query, r.mode, r.type)
        budget  == Budget(r)
        related == RelatedResults(nodesRead, MergeCompeting(edges), ToSet(subject.seeds), r.mode, budget.nodes)
        capped  == Capped(BestFirst(Deduplicated(related.results)), budget)
        warned  == IF Unsupported(r, subject.seeds) THEN {"unsupported_language"} ELSE {}
    IN  IF subject.outcome = "resolved"
        THEN Made(Answer("resolved", capped.results, <<>>,
                         capped.warnings \cup warned \cup IF related.exhausted THEN {"nodes"} ELSE {}),
                  edges, subject.seeds, {})
        ELSE Answer(subject.outcome, <<>>, subject.candidates,
                    warned \cup IF subject.total > Len(subject.candidates) THEN {"candidates"} ELSE {})

\* ExpandContext, after its reads: the index of the graph is built of what was
\* read, and an edge newer than the nodes is an error.
ExpandAnswer(r, edges) ==
    LET subject  == ResolveByType(nodesRead, r.query, "find_references", r.type)
        merged   == MergeCompeting(edges)
        expanded == Expanded(nodesRead, merged, subject.seeds, r)
        sorted   == BestFirst(Deduplicated(expanded.results))
        pack     == First(sorted, r.limit)
    IN  CASE subject.outcome # "resolved" ->
                Answer(subject.outcome, <<>>, subject.candidates,
                       IF subject.total > Len(subject.candidates) THEN {"candidates"} ELSE {})
          [] subject.outcome = "resolved" /\ r.depth > 1 /\ ~Indexable(nodesRead, merged) ->
                Answer("error", <<>>, <<>>, {})
          [] OTHER ->
                Made(Answer("packed", [i \in DOMAIN pack |-> PackItem(pack[i])], <<>>,
                            expanded.warnings \cup IF Len(sorted) > r.limit THEN {"results"} ELSE {}),
                     edges, subject.seeds, {})

NeighborsAnswer(r, edges) ==
    LET seeds == Matching(nodesRead, r.query)
        walk  == NeighborsOf(nodesRead, edges, seeds, r.limit, r.depth)
    IN  IF ~Indexable(nodesRead, edges) THEN Answer("error", <<>>, <<>>, {})
        ELSE Made(Answer("neighbors", walk.evidence, <<>>,
                         IF walk.full \/ Len(seeds) > Len(walk.evidence) THEN {"truncated"} ELSE {}),
                  edges, seeds, {})

\* Path
PathAnswer(r, edges) ==
    LET from    == Matching(nodesRead, r.query)
        targets == {n.id : n \in ToSet(Matching(nodesRead, r.to))}
        paths   == FlattenSeq([i \in DOMAIN from |->
                        LET found == PathsFrom(nodesRead, edges, from[i], targets, r.depth)
                        IN  [j \in DOMAIN found |-> [from |-> from[i], hops |-> found[j]]]])
    IN  IF ~Indexable(nodesRead, edges) THEN Answer("error", <<>>, <<>>, {})
        ELSE Made(Answer("paths", First(paths, r.limit), <<>>, IF Len(paths) > r.limit THEN {"truncated"} ELSE {}),
                  edges, from, targets)

\* ListEdges, and the rest of the handler.
ReadEdges ==
    LET r     == request
        edges == Chosen(EdgeOrder, {i \in DOMAIN EdgeOrder :
                            EdgeOrder[i] \in stored.edges /\ (r.stale \/ ~EdgeOrder[i].stale)})
    IN  /\ at = "nodes"
        /\ response' = CASE r.op = "query"     -> QueryAnswer(r, edges)
                         [] r.op = "expand"    -> ExpandAnswer(r, edges)
                         [] r.op = "neighbors" -> NeighborsAnswer(r, edges)
                         [] r.op = "path"      -> PathAnswer(r, edges)
        /\ at' = IF response'.outcome = "packed" THEN "packed" ELSE "answered"
        /\ UNCHANGED <<indexed, stored, request, nodesRead, disturbed>>

Hydrate ==
    /\ at = "packed" /\ at' = "answered"
    /\ response' = [response EXCEPT !.results = [i \in DOMAIN @ |-> Hydrated(@[i])]]
    /\ UNCHANGED <<indexed, stored, request, nodesRead, disturbed>>

\* A file is indexed; then its part of the graph is written, which deletes no node.
IndexPart(p) ==
    /\ \E part \in PartsOf(p) \ {indexed[p]} : indexed' = [indexed EXCEPT ![p] = part]
    /\ UNCHANGED <<stored, request, at, nodesRead, response, disturbed>>

WritePart(p) ==
    LET part  == indexed[p]
        ids   == {n.id : n \in part.nodes}
    IN  /\ stored' = [nodes  |-> {n \in stored.nodes : n.id \notin ids} \cup part.nodes,
                      edges  |-> {e \in stored.edges : e.src # p} \cup part.edges,
                      status |-> "fresh"]
        /\ stored' # stored
        /\ disturbed' = TRUE
        /\ UNCHANGED <<indexed, request, at, nodesRead, response>>

\* A rebuild begins with nothing; a failure leaves the graph partial.
ResetGraph ==
    /\ stored' = [nodes |-> {}, edges |-> {}, status |-> "empty"] /\ disturbed' = TRUE
    /\ UNCHANGED <<indexed, request, at, nodesRead, response>>
FailUpdate ==
    /\ stored' = [stored EXCEPT !.status = "partial"] /\ stored' # stored
    /\ UNCHANGED <<indexed, request, at, nodesRead, response, disturbed>>

Asking  == (at = "idle" /\ \E r \in Requests : Ask(r)) \/ ReadNodes \/ ReadEdges \/ Hydrate
Writing == (\E p \in Project : IndexPart(p) \/ WritePart(p)) \/ ResetGraph \/ FailUpdate
QuerySpec == QueryInit /\ [][Asking \/ Writing]_queryVars
-----------------------------------------------------------------------------
Answered(outcome) == at = "answered" /\ response.outcome = outcome
Read == response.of
\* A node that is one edge away from the subject of a query and not in its answer
\* is missing because of a budget that the answer names; and unless the budget of
\* nodes cut the search itself, nothing left out is more certain than what was kept
\* of its relation, but for two nodes that refer to each other by edges of one kind:
\* of these the code takes the one that sorts first (relatedResults,
\* deduplicateResultsByTarget, applyTraversalBudgets).
NothingDroppedSilently ==
    Answered("resolved") =>
        LET seeds == {s.id : s \in ToSet(Read.seeds)}
            edges == ToSet(Read.edges)
            kept  == ToSet(response.results)
            to(e) == IF e.from \in seeds THEN e.to ELSE e.from
            leading(id) == {e \in edges : /\ to(e) = id
                                          /\ e.from \in seeds \/ (request.mode # "impact_analysis" /\ e.to \in seeds)}
            missing == {id \in {n.id : n \in Read.nodes} : leading(id) # {} /\ \A r \in kept : r.id # id}
            mutual(e, id) == \E f \in leading(id) : f.from = e.to /\ f.to = e.from /\ f.from # e.from
        IN  /\ missing # {} => response.warnings \cap {"nodes", "per_edge_kind", "tokens", "results"} # {}
            /\ \A id \in missing, r \in kept :
                    ("nodes" \notin response.warnings /\ \A e \in leading(id) : e.kind = r.rel)
                        => \A e \in leading(id) : mutual(e, id) \/ e.conf <= r.conf

\* The nodes at most d steps from some.
Touching(ids) == ids \cup UNION {{e.from, e.to} : e \in {f \in ToSet(Read.edges) : f.from \in ids \/ f.to \in ids}}
Within(ids, d) == LET ball[k \in 0..d] == IF k = 0 THEN ids ELSE Touching(ball[k - 1]) IN ball[d]
Chain(start, hops) ==
    \A i \in DOMAIN hops :
        /\ hops[i].edge \in ToSet(Read.edges)
        /\ {hops[i].edge.from, hops[i].edge.to} = {Ends(start, SubSeq(hops, 1, i - 1)).id, hops[i].node.id}

\* Unless it was cut short, an answer about paths has one between every two nodes
\* that are near enough and none between others, and an answer about the neighbours
\* of one node names those within its depth; every path is a chain of edges
\* (findPaths, walkNeighbors).
PathsAreAll ==
    /\ Answered("paths") =>
        /\ \A p \in ToSet(response.results) : Chain(p.from, p.hops) /\ Ends(p.from, p.hops).id \in Read.targets
        /\ "truncated" \notin response.warnings =>
            \A s \in ToSet(Read.seeds), t \in Read.targets :
                s.id \notin Read.targets =>
                    ((\E p \in ToSet(response.results) : p.from = s /\ Ends(s, p.hops).id = t)
                        <=> t \in Within({s.id}, request.depth))
    /\ (Answered("neighbors") /\ "truncated" \notin response.warnings) =>
        LET seeds == {s.id : s \in ToSet(Read.seeds)}
        IN  /\ ToSet(response.results) \subseteq Within(seeds, request.depth)
            /\ (Cardinality(seeds) <= 1 \/ request.depth = 1) =>
                    ToSet(response.results) = Within(seeds, request.depth)

\* Every item of a pack is at the end of a chain of edges from a seed, none longer
\* than the depth asked, and is there once; its content, if any, is of its own file;
\* what is of a test is labelled so and nothing of a test as implementation.  A pack
\* not as long as its limit has all that is near enough.  It fails only when the
\* graph was written between the reads (collectMultiHopResults, newGraphIndex,
\* hydrateExpandContextOutput).
PackIsConnected ==
    /\ at = "answered" /\ response.outcome = "error" => disturbed
    /\ Answered("packed") =>
        LET pack  == response.results
            seeds == {s.id : s \in ToSet(Read.seeds)}
            near  == (Within(seeds, request.depth) \ seeds) \cap {n.id : n \in Read.nodes}
        IN  /\ \A i \in DOMAIN pack :
                /\ Chain(pack[i].seed, pack[i].hops) /\ Ends(pack[i].seed, pack[i].hops).id = pack[i].id
                /\ pack[i].seed.id \in seeds /\ Len(pack[i].hops) <= request.depth
                /\ \A j \in DOMAIN pack : i # j => pack[i].id # pack[j].id
                /\ pack[i].content # "" => \E part \in PartsOf(pack[i].src) : \E c \in ToSet(part.chunks) : c.id = pack[i].content
                /\ (Last(pack[i].hops).node.kind = "test_file" \/ "test" \in Marks(pack[i].src))
                        => "test" \in pack[i].roles /\ "implementation" \notin pack[i].roles
            /\ Len(pack) < request.limit => near \subseteq {item.id : item \in ToSet(pack)}
=============================================================================
