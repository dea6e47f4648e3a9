------------------------------ MODULE MCSearch ------------------------------
\* The read path of the search engine: one search with its stores failing under
\* it, the fusion of result lists, and the metadata that decide what is
\* eligible; three machines that share no state, one of which runs in each
\* behaviour.
EXTENDS Retrieval, Fusion

VARIABLE machine

Init ==
    /\ machine \in {"retrieval", "fusion", "source"}
    /\ IF machine = "retrieval" THEN RetrievalInit
       ELSE /\ request = CHOOSE r \in Request : TRUE
            /\ live = {} /\ bornLive = {} /\ at = "classify" /\ mismatch = FALSE
            /\ class = "none" /\ found = {} /\ sub = <<>> /\ down = {} /\ unmatched = FALSE
    /\ IF machine = "fusion" THEN FusionInit
       ELSE /\ fuseStep = "bm25" /\ weights = CHOOSE w \in WeightPair : TRUE
            /\ bm25List = <<>> /\ vecList = <<>> /\ fused = <<>>
            /\ subList = [i \in SubQueries |-> Waiting] /\ multiLimit = 1
    /\ SourceInit

Next ==
    /\ UNCHANGED machine
    /\ \/ machine = "retrieval" /\ RetrievalNext /\ UNCHANGED <<fusionVars, sourceVars>>
       \/ machine = "fusion"    /\ FusionNext    /\ UNCHANGED <<retrievalVars, sourceVars>>
       \/ machine = "source"    /\ SourceNext    /\ UNCHANGED <<retrievalVars, fusionVars>>

Spec == Init /\ [][Next]_<<machine, retrievalVars, fusionVars, sourceVars>>

-----------------------------------------------------------------------------
\* Instances.

Src(place, kind, flags, status, decision) ==
    [place |-> place, kind |-> kind, log |-> "log" \in flags, adr |-> "adr" \in flags,
     test |-> "test" \in flags, item |-> "item" \in flags,
     superseded |-> "superseded" \in flags, status |-> status, decision |-> decision]

Flags == {{}, {"item"}, {"adr"}, {"adr", "superseded"}, {"log"}, {"log", "item"}, {"test"},
          {"adr", "item"}, {"log", "adr"}}

\* Front matter and decisions are read from Markdown, by their names.
MCSource ==
    {Src(p, "markdown", f, s, d) :
        p \in Place \ {"rootconfig", "configs", "code"}, f \in Flags \ {{"test"}},
        s \in {"none", "closed", "active", "urgent"}, d \in {"unknown", "accepted", "deprecated",
                                                               "proposed"}}
    \cup {Src(p, k, f, "none", "unknown") :
        p \in Place, k \in {"code", "config", "pdf", "text"}, f \in {{}, {"test"}, {"log"}}}

MCChunk == 1..4
MCSourceOf == <<
    Src("code", "code", {}, "none", "unknown"),
    Src("docs", "markdown", {"adr", "superseded"}, "none", "accepted"),
    Src("docs", "pdf", {}, "none", "unknown"),
    Src("archive", "markdown", {}, "none", "unknown")>>
MCSymbolChunk == {1, 4}
MCSymbolRank == [c \in MCSymbolChunk |-> IF c = 4 THEN 0 ELSE 1]
MCADRChunk    == {1, 3}
MCPathChunk   == {1}

Q(words, has) == [words |-> words, has |-> has]
Ask(query, filter, search, profile, limit, bm25Only) ==
    [query |-> query, filter |-> filter, search |-> search, profile |-> profile,
     limit |-> limit, bm25Only |-> bm25Only]

MCRequest == {
    Ask(Q(1, {"identifier"}), "all", "", "", 3, FALSE),              \* getUserById
    Ask(Q(1, {"identifier"}), "all", "", "archive", 2, TRUE),
    Ask(Q(3, {"declaration"}), "code", "", "", 2, FALSE),            \* type Engine struct
    Ask(Q(3, {"declaration"}), "code", "", "", 1, FALSE),
    Ask(Q(1, {"path"}), "all", "", "", 1, FALSE),                    \* internal/a.go
    Ask(Q(2, {"quoted"}), "docs", "", "", 1, FALSE),                 \* "exact words"
    Ask(Q(5, {"adr", "natural"}), "code", "", "", 2, FALSE),         \* how is ADR-4 ...
    Ask(Q(2, {"adr"}), "all", "decision-history", "", 1, FALSE),
    Ask(Q(2, {"adr"}), "all", "decisions", "", 1, FALSE),
    Ask(Q(5, {"pdf", "natural"}), "docs", "", "", 1, FALSE),         \* what does the pdf say
    Ask(Q(1, {}), "all", "", "", 1, FALSE),                          \* authentication
    Ask(Q(2, {"noun"}), "all", "", "", 2, FALSE),                    \* Search function
    Ask(Q(4, {"how", "natural"}), "docs", "", "", 1, FALSE),         \* How does RRF work
    Ask(Q(5, {"flow", "adr"}), "code", "", "", 1, FALSE)}            \* ... ADR-4 flow to ...

MCWeightPair == {<<35, 65>>, <<65, 35>>, <<50, 50>>, <<100, 0>>}
MCSubWeights == <<15, 0>>
MCDoc == 1..3
=============================================================================
