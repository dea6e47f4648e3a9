------------------------------- MODULE Fusion -------------------------------
(***************************************************************************)
(* Reciprocal rank fusion of the two indexes' result lists, and of the     *)
(* results of several sub-queries that run in parallel, some of which may  *)
(* fail.  Chunk identifiers are numbers in their lexicographic order;      *)
(* scores are exact, in units of 1/Unit, and not divided by the greatest   *)
(* one, which changes no order.                                            *)
(***************************************************************************)
EXTENDS Naturals, Integers, Sequences, FiniteSets, SequencesExt, FiniteSetsExt, Functions

CONSTANTS
    Doc,            \* chunk identifiers
    K,              \* the smoothing constant
    WeightPair,     \* the pairs of weights <<BM25, semantic>> of a fusion
    SubWeights,     \* the weights of the sub-queries in tenths, in order
    Unit            \* a common multiple of the ranks' denominators

Length == Cardinality(Doc) + 1     \* the greatest rank there is

ASSUME FusionAssumption ==
    /\ Doc \subseteq Nat /\ IsFiniteSet(Doc)
    /\ K \in Nat \ {0}
    /\ WeightPair \subseteq Nat \X Nat
    /\ SubWeights \in Seq(Nat)
    /\ Unit \in Nat \ {0} /\ \A r \in 1..Length : Unit % (K + r) = 0

Share(weight, rank) == weight * (Unit \div (K + rank))

\* Result lists hold a document once.
Lists == {s \in UNION {[1..n -> Doc] : n \in 0..Cardinality(Doc)} : IsInjective(s)}

RankIn(list, d) == Min({i \in DOMAIN list : list[i] = d})

\* calculateMissingRank
MissingRank(bm25, vec) == Max({Len(bm25), Len(vec)}) + 1

\* getOrCreate and the three loops of Fuse: a document's entry.  The keyword
\* score falls with the rank.
Entry(bm25, vec, w, d) ==
    LET inB == d \in ToSet(bm25)
        inV == d \in ToSet(vec)
        b   == IF inB THEN RankIn(bm25, d) ELSE MissingRank(bm25, vec)
        v   == IF inV THEN RankIn(vec, d) ELSE MissingRank(bm25, vec)
    IN  [doc |-> d, score |-> Share(w[1], b) + Share(w[2], v), hits |-> 1,
         both |-> inB /\ inV, bm25 |-> IF inB THEN Length + 1 - b ELSE 0]

\* Mutation of Before: ties are left to the order of the map.
BeforeInScore(a, b) ==
    \/ a.score > b.score
    \/ a.score = b.score /\ a.hits > b.hits

\* What compare looks at, of both fusions: score, sub-query hits, both lists,
\* keyword score, identifier.
Keys(e) == <<e.score, e.hits, IF e.both THEN 1 ELSE 0, e.bm25, 0 - e.doc>>

\* compare: the first of these that differs decides.
Before(a, b) ==
    \E k \in 1..5 : Keys(a)[k] > Keys(b)[k] /\ \A j \in 1..(k - 1) : Keys(a)[j] = Keys(b)[j]

\* toSortedSlice: the lists a sort by Before can produce from the map.
Sorted(entries) ==
    {s \in SetToSeqs(entries) : \A i, j \in DOMAIN s : i < j => ~Before(s[j], s[i])}

\* RRFFusion.Fuse
Fuse(bm25, vec, w) ==
    Sorted({Entry(bm25, vec, w, d) : d \in ToSet(bm25) \cup ToSet(vec)})

Docs(entries) == [i \in DOMAIN entries |-> entries[i].doc]

\* The sum of the first n terms.
SumOf(term, n) == LET upTo[i \in 0..n] == IF i = 0 THEN 0 ELSE upTo[i - 1] + term[i]
                  IN  upTo[n]

\* A sub-query without a weight has the weight one.
SubWeight(i) == IF SubWeights[i] = 0 THEN 10 ELSE SubWeights[i]

\* The sub-queries that found a document.
With(lists, d) == {i \in DOMAIN lists : d \in ToSet(Docs(lists[i]))}

\* FuseMultiQuery, a document's entry: the shares of the sub-queries that have
\* it, a tenth more for each one after the first, and the best of the rest.
MultiEntry(lists, d) ==
    LET with  == With(lists, d)
        at(i) == lists[i][RankIn(Docs(lists[i]), d)]
        share == [i \in DOMAIN lists |->
                    IF i \in with THEN Share(SubWeight(i), RankIn(Docs(lists[i]), d)) ELSE 0]
    IN  [doc |-> d, score |-> SumOf(share, Len(lists)) * (9 + Cardinality(with)),
         hits |-> Cardinality(with), both |-> \E i \in with : at(i).both,
         bm25 |-> Max({at(i).bm25 : i \in with})]

FuseMultiQuery(lists) ==
    Sorted({MultiEntry(lists, d) : d \in UNION {ToSet(Docs(lists[i])) : i \in DOMAIN lists}})

-----------------------------------------------------------------------------
(* One fusion of each kind, its inputs arriving in any order.              *)

VARIABLES
    fuseStep,   \* "bm25", "vec", "fuse", "fused"; "subs", "multi", "answered"
    weights,
    bm25List,
    vecList,
    fused,      \* the result of the last fusion
    subList,    \* [sub-query -> its results, or Waiting]: by position, so that
    multiLimit       \* completion order does not show; the number of results asked for

fusionVars == <<fuseStep, weights, bm25List, vecList, fused, subList, multiLimit>>

Waiting   == <<[doc |-> 0, score |-> 0, hits |-> 0, both |-> FALSE, bm25 |-> 0]>>
SubQueries == DOMAIN SubWeights

FusionInit ==
    /\ fuseStep \in {"bm25", "subs"}
    /\ weights \in WeightPair
    /\ bm25List = <<>> /\ vecList = <<>>
    /\ fused = <<>>
    /\ subList = [i \in SubQueries |-> Waiting]
    /\ multiLimit \in 1..2

\* The two searches of parallelSearch; a failed one leaves its list empty.
SearchBM25(s) ==
    /\ fuseStep = "bm25" /\ bm25List' = s /\ fuseStep' = "vec"
    /\ UNCHANGED <<weights, vecList, fused, subList, multiLimit>>

SearchVectors(s) ==
    /\ fuseStep = "vec" /\ vecList' = s /\ fuseStep' = "fuse"
    /\ UNCHANGED <<weights, bm25List, fused, subList, multiLimit>>

FuseLists ==
    /\ fuseStep = "fuse" /\ fused' \in Fuse(bm25List, vecList, weights)
    /\ fuseStep' = "fused"
    /\ UNCHANGED <<weights, bm25List, vecList, subList, multiLimit>>

\* What a sub-query may bring: a fused list of some of the documents.
SubResults == {[i \in DOMAIN s |-> [doc |-> s[i], score |-> Share(1, i), hits |-> 1,
                                    both |-> i = 1, bm25 |-> 0]] : s \in Lists}

\* parallelSubSearch, one goroutine: a failed search is an empty list.
FinishSubQuery(i, list) ==
    /\ fuseStep = "subs" /\ subList[i] = Waiting
    /\ subList' = [subList EXCEPT ![i] = list]
    /\ UNCHANGED <<fuseStep, weights, bm25List, vecList, fused, multiLimit>>

\* g.Wait, FuseMultiQuery and the limit.
FuseSubQueries ==
    /\ fuseStep = "subs" /\ \A i \in SubQueries : subList[i] # Waiting
    /\ \E s \in FuseMultiQuery(subList) :
          fused' = SubSeq(s, 1, Min({multiLimit, Len(s)}))
    /\ fuseStep' = "answered"
    /\ UNCHANGED <<weights, bm25List, vecList, subList, multiLimit>>

FusionNext ==
    \/ \E s \in Lists : SearchBM25(s) \/ SearchVectors(s)
    \/ FuseLists
    \/ \E i \in SubQueries, s \in SubResults : FinishSubQuery(i, s)
    \/ FuseSubQueries

FusionSpec == FusionInit /\ [][FusionNext]_fusionVars

-----------------------------------------------------------------------------

\* A document that both lists rank above another one is above it in the fusion,
\* and so is one that both sides rank no lower when they cannot tell the two
\* apart otherwise: being absent from a list is worse than being last in it.  A
\* list of no weight says nothing of its own, unless the keyword score does.
FusionRespectsLists ==
    fuseStep = "fused" /\ (weights[2] # 0 \/ vecList = <<>>) =>
        LET rank(list, d) == IF d \in ToSet(list) THEN RankIn(list, d) ELSE Length
            at(d) == RankIn(Docs(fused), d)
        IN  \A c, d \in ToSet(Docs(fused)) :
                (/\ c # d
                 /\ rank(bm25List, c) <= rank(bm25List, d)
                 /\ rank(vecList, c) <= rank(vecList, d)) => at(c) < at(d)

\* There is one answer: neither the order of a Go map nor ties decide it.
FusionIsDetermined ==
    /\ fuseStep = "fuse" => Cardinality(Fuse(bm25List, vecList, weights)) = 1
    /\ fuseStep = "subs" /\ (\A i \in SubQueries : subList[i] # Waiting)
            => Cardinality(FuseMultiQuery(subList)) = 1

\* Nobody is passed by a document that no sub-query ranks higher: consensus
\* only adds, and truncation drops the last ones.
ConsensusRespectsLists ==
    fuseStep = "answered" =>
        \A c \in ToSet(Docs(fused)), d \in Doc \ ToSet(Docs(fused)) :
            \E i \in SubQueries :
                /\ c \in ToSet(Docs(subList[i]))
                /\ d \in ToSet(Docs(subList[i]))
                        => RankIn(Docs(subList[i]), c) < RankIn(Docs(subList[i]), d)

\* The lists fused, twice, and their consensus say what the lists said (fusion.go,
\* multi_fusion.go).
FusionIsSound == FusionRespectsLists /\ FusionIsDetermined /\ ConsensusRespectsLists

=============================================================================
