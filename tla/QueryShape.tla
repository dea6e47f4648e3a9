----------------------------- MODULE QueryShape -----------------------------
(***************************************************************************)
(* What the search engine makes of a query before it searches: its class   *)
(* and the fusion weights, whether it is decomposed and into which         *)
(* sub-queries, how many candidates are fetched, whether the reranker      *)
(* runs.  A query is its number of words and the set of the patterns it    *)
(* matches, so each operator is the order in which the code tries them.    *)
(***************************************************************************)
EXTENDS Naturals, Sequences, SequencesExt

\* The regular expressions and tests the code applies to a query.
Pattern == {"quoted", "path", "error", "identifier", "declaration", "adr", "natural",
            "flow", "impact", "retry", "how", "noun", "pdf", "technical"}

Has(q, ps) == q.has \cap ps # {}

\* shouldPreserveExactLexicalQuery: identifiers are single words.
PreservesExact(q) ==
    \/ Has(q, {"declaration", "quoted", "path", "error"})
    \/ q.words = 1 /\ Has(q, {"identifier"})

\* PatternClassifier.classifyQuery
ClassifyQuery(q) ==
    IF Has(q, {"adr", "error", "quoted", "path"}) \/ (q.words = 1 /\ Has(q, {"identifier"}))
    THEN "lexical"
    ELSE IF Has(q, {"natural"}) \/ q.words >= 3 THEN "semantic" ELSE "mixed"

\* PatternDecomposer.ShouldDecompose
ShouldDecompose(q) ==
    /\ q.words > 1
    /\ ~Has(q, {"path", "quoted"})
    /\ \/ Has(q, {"flow", "impact", "retry"})
       \/ Has(q, {"how"})
       \/ q.words < 4 /\ Has(q, {"noun"})

Sub(text, hint, weight) == [text |-> text, hint |-> hint, weight |-> weight]

\* PatternDecomposer.Decompose: the sub-queries, in order, with their hints and
\* weights in tenths.  A text that names a file is "path", any other is "words".
Decompose(q) ==
    CASE ~ShouldDecompose(q) -> <<Sub("words", "", 10)>>
      [] ShouldDecompose(q) /\ Has(q, {"noun"}) ->
            [i \in 1..7 |-> Sub("words", "code", <<15, 14, 12, 11, 10, 9, 8>>[i])]
      [] ShouldDecompose(q) /\ ~Has(q, {"noun"}) /\ Has(q, {"how"}) ->
            <<Sub("words", "", 10), Sub("path", "code", 11), Sub("words", "code", 10)>>
      [] OTHER -> <<Sub("words", "code", 2), Sub("path", "code", 60), Sub("path", "code", 40)>>

\* hasPostRetrievalContentFilter
FiltersContent(opts) == opts.filter \in {"code", "docs"}

\* candidateLimitForOptions: how many candidates each index is asked for.
CandidateLimit(q, opts) ==
    LET broad == opts.search \in {"decisions", "decision-history"} \/ PreservesExact(q)
                     \/ FiltersContent(opts)
        base  == opts.limit >= 50 /\ FiltersContent(opts) /\ ~PreservesExact(q)
                     /\ ~Has(q, {"adr"})
    IN  IF broad /\ ~base
        THEN IF opts.limit * 10 < 50 THEN 50 ELSE opts.limit * 10
        ELSE opts.limit * 2

\* DecideRerankerPolicy: whether the reranker is asked, for a classified query.
AppliesReranker(policy, q, class) ==
    \/ policy = "always"
    \/ policy = "auto" /\ class \in {"semantic", "mixed"}

\* exactMatchNeedle and addExactSymbolCandidates: the symbol table is asked
\* for the whole query, or for the name in "type Name struct".
AsksSymbols(q) == \/ Has(q, {"declaration"})
                  \/ PreservesExact(q) /\ ~Has(q, {"quoted", "path"})

\* shouldAddADRReferenceCandidates
AsksADR(q, opts) == Has(q, {"adr"}) /\ opts.filter = "code"

\* addSubQueryPathCandidates
AsksPaths(subs, opts) ==
    FiltersContent(opts) /\ \E i \in DOMAIN subs : subs[i].text = "path"

\* shouldAddPDFContentCandidates
AsksPDF(q, opts) ==
    /\ Has(q, {"pdf"}) /\ Has(q, {"natural"}) /\ ~Has(q, {"technical"})
    /\ opts.filter \in {"", "all", "docs"}

=============================================================================
