------------------------------- MODULE MCGraph -------------------------------
(* A small project for the graph: a Go file whose symbol moves, a             *)
(* configuration file that may not parse, a document that mentions both; and  *)
(* a small graph to question: a Go file, its test, a document about them, a   *)
(* file in a language without extractor.                                      *)
EXTENDS GraphOverlay, GraphQuery

MCPath == {"a.go", "b.go", "c.yaml", "d.md"}
MCOrder == <<"a.go", "b.go", "c.yaml", "d.md">>
MCShape ==
    [p \in MCPath |->
        CASE p = "a.go"   -> [dir |-> <<>>, stem |-> "a", mark |-> "", ext |-> ".go"]
          [] p = "b.go"   -> [dir |-> <<>>, stem |-> "b", mark |-> "", ext |-> ".go"]
          [] p = "c.yaml" -> [dir |-> <<>>, stem |-> "c", mark |-> "", ext |-> ".yaml"]
          [] p = "d.md"   -> [dir |-> <<>>, stem |-> "d", mark |-> "", ext |-> ".md"]]
MCTextOf == [p \in MCPath |-> CASE p = "a.go"   -> {"one", "two", "none", "secret"}
                                [] p = "b.go"   -> {"one"}
                                [] p = "c.yaml" -> {"one", "bad"}
                                [] p = "d.md"   -> {"one"}]
\* A row without chunks; the chunks of both texts.
MCHalfOf == [p \in MCPath |-> IF p = "a.go" THEN {"hollow", "both"} ELSE IF p \in {"b.go", "d.md"} THEN {"hollow"} ELSE {}]
L(t, v, d) == [t |-> t, v |-> v, d |-> d]
Sym(name, from, to) == [name |-> name, kind |-> "function", from |-> from, to |-> to]

Lines(p, t) ==
    CASE p = "a.go" /\ t = "one" -> <<L("package", <<"m">>, 0), L("import", <<"x">>, 0)>>
      [] p = "a.go" /\ t = "two" -> <<L("", <<>>, 0), L("package", <<"m">>, 0)>>
      [] p = "b.go" /\ t = "one" -> <<L("package", <<"m">>, 0), L("import", <<"x">>, 0)>>
      [] p = "c.yaml" /\ t = "one" -> <<L("key", <<"k">>, 0)>>
      [] p = "c.yaml" /\ t = "bad" -> <<L("malformed", <<>>, 0)>>
      [] p = "d.md" /\ t = "one" -> <<L("code", <<"f">>, 0), L("link", <<"a.go">>, 0), L("link", <<"b.go">>, 0), L("code", <<"k">>, 0)>>
      [] OTHER -> <<>>
Chunks1 == <<[id |-> "a1", syms |-> <<Sym("f", 2, 2)>>]>>
Chunks2 == <<[id |-> "a2", syms |-> <<Sym("f", 3, 3)>>]>>
Chunks(p, t) ==
    CASE p = "a.go" /\ t = "one" -> Chunks1
      [] p = "a.go" /\ t = "two" -> Chunks2
      [] p = "a.go" /\ t = "both" -> Chunks1 \o Chunks2
      [] p = "b.go" /\ t = "one" -> <<[id |-> "b1", syms |-> <<>>]>>
      [] p = "d.md" /\ t = "one" -> <<[id |-> "d1", syms |-> <<>>]>>
      [] OTHER -> <<>>
MCSource(p, text, chunks) ==
    [path |-> p, lang |-> IF p \in {"a.go", "b.go"} THEN "go" ELSE "",
     ctype |-> CASE p \in {"a.go", "b.go"} -> "code" [] p = "c.yaml" -> "config" [] p = "d.md" -> "markdown",
     lines |-> Lines(p, text), chunks |-> Chunks(p, chunks)]
-----------------------------------------------------------------------------
N(id, kind, key, src, name, dir, lang, lines) ==
    [id |-> id, kind |-> kind, key |-> key, src |-> src, name |-> name, dir |-> dir, lang |-> lang, lines |-> lines]
E(id, kind, from, to, src, conf, heur, stale) ==
    [id |-> id, kind |-> kind, from |-> from, to |-> to, src |-> src, conf |-> conf, heur |-> heur, stale |-> stale]

File == N("file:m/a.go", "file", "m/a.go", "m/a.go", "a.go", "", "go", <<0, 0>>)
Rust == N("file:b.rs", "file", "b.rs", "b.rs", "b.rs", "", "rust", <<0, 0>>)
Pkg  == N("package:m#m", "package", "m#m", "m/a.go", "m", "m", "go", <<1, 1>>)
SymF == N("symbol:m/a.go#f:2", "symbol", "m/a.go#f:2", "m/a.go", "f", "", "go", <<2, 2>>)
SymG == N("symbol:b.rs#f:1", "symbol", "b.rs#f:1", "b.rs", "f", "", "rust", <<1, 1>>)
Chk  == N("chunk:a1", "chunk", "a1", "m/a.go", "", "", "go", <<0, 0>>)
Test == N("test_file:m/a_test.go", "test_file", "m/a_test.go", "m/a_test.go", "a_test.go", "", "go", <<0, 0>>)
Doc  == N("doc:d.md", "doc", "d.md", "d.md", "d.md", "", "", <<0, 0>>)
Other == N("doc:e.md", "doc", "e.md", "e.md", "e.md", "", "", <<0, 0>>)

Declares == E(1, "file_declares_package", File.id, Pkg.id, "m/a.go", 100, FALSE, FALSE)
Defines  == E(2, "file_defines_symbol", File.id, SymF.id, "m/a.go", 95, FALSE, FALSE)
HasChunk == E(3, "symbol_has_chunk", SymF.id, Chk.id, "m/a.go", 100, FALSE, FALSE)
Covers   == E(4, "test_covers_implementation", Test.id, File.id, "m/a_test.go", 72, TRUE, FALSE)
Links    == E(5, "doc_mentions_file", Doc.id, File.id, "d.md", 90, FALSE, FALSE)
LinksT   == E(6, "doc_mentions_file", Doc.id, Test.id, "d.md", 72, FALSE, FALSE)
Mentions  == E(7, "doc_mentions_symbol", Doc.id, SymF.id, "d.md", 72, TRUE, TRUE)
Forth    == E(9, "doc_mentions_file", Doc.id, Other.id, "d.md", 72, FALSE, FALSE)
Back     == E(10, "doc_mentions_file", Other.id, Doc.id, "e.md", 90, FALSE, FALSE)
Rusts    == E(8, "file_defines_symbol", Rust.id, SymG.id, "b.rs", 95, FALSE, FALSE)

MCNodeOrder == <<Rust, File, Pkg, SymG, SymF, Chk, Doc, Other, Test>>
MCIdOrder == <<"chunk:a1", "doc:d.md", "doc:e.md", "file:b.rs", "file:m/a.go", "package:m#m", "symbol:b.rs#f:1",
               "symbol:m/a.go#f:2", "test_file:m/a_test.go">>
MCSourceOrder == <<"", "b.rs", "d.md", "e.md", "m/a.go", "m/a_test.go">>
MCKindOrder == <<"doc_mentions_file", "doc_mentions_symbol", "file_declares_package", "file_defines_symbol",
                 "symbol_has_chunk", "test_covers_implementation">>
MCEdgeOrder == <<Rusts, Links, Forth, LinksT, Mentions, Back, Declares, Defines, HasChunk, Covers>>

MCLikeness(text, q) ==
    CASE text = q -> "equal"
      [] <<text, q>> \in {<<"f", "F">>, <<"m", "M">>, <<"m/a.go", "M/A.go">>} -> "folded"
      [] <<text, q>> \in {<<"m/a.go", "a.go">>, <<"m/a_test.go", "a_t">>} -> "within"
      [] OTHER -> "no"
MCDistance(q, n) == IF q = "g" /\ n.name = "f" THEN 1 ELSE IF q = "g" /\ n.name = "m" THEN 2 ELSE 9
MCLooksLikePath(q) == q \in {"m/a.go", "m/no.rs"}
MCUnsafe(q) == q = "../f"
MCLanguageOf(q, type) == IF q = "m/no.rs" THEN "rust" ELSE ""
MCMarks(p) == CASE p = "m/a_test.go" -> {"test"} [] p = "d.md" -> {"pm"} [] p = "m/a.go" -> {"entry"} [] OTHER -> {}
MCSize(r) == 10 + Len(r.hops)

Nums(results, nodes, perKind, tokens, depth) ==
    [results |-> results, nodes |-> nodes, perKind |-> perKind, tokens |-> tokens, depth |-> depth]
MCPolicy == Nums(6, 8, 4, 100, 3)
MCDefaults == [find_references |-> Nums(5, 8, 4, 90, 3), explain_symbol |-> Nums(5, 8, 4, 90, 1),
               impact_analysis |-> Nums(5, 8, 4, 90, 2)]
MCConfigured == [policy |-> Nums(0, 0, 0, 0, 0),
                 modes |-> [question \in DOMAIN MCDefaults |-> Nums(0, 0, 0, IF question = "impact_analysis" THEN 30 ELSE 0, 0)]]

MCProject == {"m/a.go", "m/a_test.go", "d.md", "e.md", "b.rs"}
Empty == [nodes |-> {}, edges |-> {}, chunks |-> <<>>]
MCPartsOf(p) ==
    CASE p = "m/a.go" -> {Empty, [nodes |-> {File, Pkg, SymF, Chk}, edges |-> {Declares, Defines, HasChunk},
                                  chunks |-> <<[id |-> "a0", lines |-> <<1, 1>>], [id |-> "a1", lines |-> <<2, 4>>]>>]}
      [] p = "m/a_test.go" -> {[nodes |-> {File, Test}, edges |-> {Covers}, chunks |-> <<[id |-> "t1", lines |-> <<1, 2>>]>>]}
      [] p = "d.md" -> {[nodes |-> {File, Test, SymF, Doc, Other}, edges |-> {Links, LinksT, Forth, Mentions}, chunks |-> <<[id |-> "d1", lines |-> <<1, 2>>]>>],
                        [nodes |-> {Doc, File}, edges |-> {Links}, chunks |-> <<>>]}
      [] p = "e.md" -> {[nodes |-> {Doc, Other}, edges |-> {Back}, chunks |-> <<[id |-> "e1", lines |-> <<1, 1>>]>>]}
      [] p = "b.rs" -> {[nodes |-> {Rust, SymG}, edges |-> {Rusts}, chunks |-> <<>>]}

Q(question, type, query, limit, overrides) ==
    [op |-> "query", mode |-> question, type |-> type, query |-> query, limit |-> limit, stale |-> FALSE, overrides |-> overrides]
X(type, query, limit, depth) ==
    [op |-> "expand", type |-> type, query |-> query, limit |-> limit, depth |-> depth, stale |-> FALSE]
MCRequests ==
    LET none == <<>>
        set(b, n) == [x \in {b} |-> n]
    IN  {Q("find_references", "auto", "m/a.go", 0, o) : o \in {none, set("nodes", 2), set("perKind", 1),
            set("tokens", 5), set("tokens", 25), set("results", 2), set("results", 9), set("depth", 0)}}
        \cup {Q("impact_analysis", "path", "m/a.go", 0, none), Q("impact_analysis", "auto", "a.go", 2, none),
              Q("explain_symbol", "auto", "f", 0, none), Q("explain_symbol", "symbol", "F", 0, none),
              Q("find_references", "package", "m", 0, none), Q("find_references", "package", "M", 0, none),
              Q("find_references", "result_id", Chk.id, 0, none), Q("find_references", "result_id", "x", 0, none),
              Q("find_references", "auto", "g", 0, none), Q("find_references", "auto", "m/no.rs", 0, none),
              Q("find_references", "path", "b.rs", 0, none), Q("find_references", "path", "M/A.go", 0, none),
              Q("callers", "auto", "f", 0, none), Q("find_references", "auto", "../f", 0, none),
              Q("find_references", "auto", "d.md", 0, set("perKind", 1)),
              [Q("find_references", "auto", "m/a.go", 0, none) EXCEPT !.stale = TRUE]}
        \cup {X("path", "m/a.go", limit, depth) : limit \in {2, 6}, depth \in 1..3}
        \cup {X("result_id", Chk.id, limit, 3) : limit \in {2, 6}}
        \cup {X("auto", "f", 3, 2), X("auto", "d.md", 6, 2), X("package", "m", 6, 2)}
        \cup {[op |-> "neighbors", query |-> q, limit |-> limit, depth |-> depth, stale |-> TRUE] :
                q \in {"a.go", "f", "d.md"}, limit \in {2, 6}, depth \in 1..2}
        \cup {[op |-> "path", query |-> q, to |-> to, limit |-> limit, depth |-> depth, stale |-> FALSE] :
                q \in {"a1", "d.md"}, to \in {"f", "m", "a1"}, limit \in {1, 6}, depth \in {1, 3}}
-----------------------------------------------------------------------------
VARIABLES machine,                  \* which of the two moves
          edits, troubles, writes   \* how many there may still be
CONSTANTS MaxEdits, MaxTroubles, MaxWrites
bounds == <<machine, edits, troubles, writes>>

\* Two of the files are there from the start, so that the edits are left for the others.
MCInit == /\ disk = [p \in Path |-> IF p \in {"a.go", "d.md"} THEN "one" ELSE Absent]
          /\ OverlayInit /\ QueryInit /\ machine \in {"overlay", "query"}
          /\ machine = "overlay" => \A p \in Project : p = "b.rs" \/ indexed[p].chunks # <<>>
          /\ edits = MaxEdits /\ troubles = MaxTroubles /\ writes = MaxWrites
OverlayMoves ==
    /\ machine = "overlay" /\ UNCHANGED <<queryVars, machine, writes>>
    /\ \/ edits > 0 /\ edits' = edits - 1 /\ Edits /\ UNCHANGED troubles
       \/ Calm /\ UNCHANGED <<edits, troubles>>
       \/ edits > 0 /\ troubles > 0 /\ edits' = edits - 1 /\ troubles' = troubles - 1 /\ Trouble
QueryMoves ==
    /\ machine = "query" /\ UNCHANGED <<overlayVars, machine, edits, troubles>>
    /\ \/ Asking /\ UNCHANGED writes
       \/ writes > 0 /\ writes' = writes - 1 /\ Writing
MCNext == OverlayMoves \/ QueryMoves
MCSpec == MCInit /\ [][MCNext]_<<overlayVars, queryVars, bounds>>

\* Paths and packs are what the graph has (service.go).
EvidenceIsComplete == PathsAreAll /\ PackIsConnected
=============================================================================
