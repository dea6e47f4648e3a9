--------------------------- MODULE GraphExtraction ---------------------------
(***************************************************************************)
(* The cheap extractors of the graph overlay: the nodes and edges that one *)
(* source file contributes, given the other sources that are known.        *)
(*                                                                         *)
(* A source is [path, lang, ctype, lines, chunks].  A line is [t, v, d]:   *)
(* what the extractors recognise in it, the names it carries and its       *)
(* depth; a chunk is [id, syms], a symbol [name, kind, from, to].  Paths   *)
(* are names; Shape gives the parts of one: its directories, its stem, the *)
(* mark of a test file, its extension.  PathOrder lists paths as they      *)
(* sort.  Confidences are in hundredths.                                   *)
(***************************************************************************)
EXTENDS Naturals, Sequences, FiniteSets, SequencesExt, FiniteSetsExt

CONSTANTS Path, Shape, PathOrder,
          MaxTargets       \* maxTestImplementationTargets

Segment == {"tests", "spec"}
NoPath  == "no path"

\* normalizedLanguage
NormalizedLanguage(f) ==
    CASE f.lang \in {"ts", "tsx"}                               -> "typescript"
      [] f.lang \in {"js", "jsx"}                               -> "javascript"
      [] f.lang = "py"                                          -> "python"
      [] f.lang = "" /\ Shape[f.path].ext \in {".ts", ".tsx"}   -> "typescript"
      [] f.lang = "" /\ Shape[f.path].ext \in {".js", ".mjs"}   -> "javascript"
      [] f.lang = "" /\ Shape[f.path].ext = ".py"               -> "python"
      [] OTHER                                                  -> f.lang

IsMarkdown(f) == f.ctype = "markdown" \/ Shape[f.path].ext = ".md"

IsConfig(f) ==
    \/ f.ctype = "config"
    \/ Shape[f.path].ext \in {".yaml", ".json", ".toml", ".env", ".properties"}

IsTest(f) ==
    LET s       == Shape[f.path]
        testDir == ToSet(s.dir) \cap {"tests", "test", "spec", "__tests__"} # {}
        lang    == NormalizedLanguage(f)
    IN  \/ lang = "go" /\ s.mark = "_test" /\ s.ext = ".go"
        \/ lang = "python" /\ (s.mark = "test_" \/ (s.mark = "_test" /\ s.ext = ".py") \/ testDir)
        \/ lang \in {"typescript", "javascript"} /\ (s.mark \in {".test", ".spec"} \/ testDir)

\* classifySource
Kind(f) == CASE IsMarkdown(f) -> "doc"
             [] IsConfig(f) /\ ~IsMarkdown(f) -> "config_file"
             [] IsTest(f) /\ ~IsMarkdown(f) /\ ~IsConfig(f) -> "test_file"
             [] OTHER -> "file"

Node(kind, key, src, line) == [id |-> <<kind, key>>, src |-> src, line |-> line]
FileNode(f) == Node(Kind(f), <<f.path>>, f.path, 0)

\* The edges a source owns; one per kind and pair of nodes, the last one added.
Edge(kind, from, to, conf, heuristic) ==
    [kind |-> kind, from |-> from.id, to |-> to.id, conf |-> conf, heur |-> heuristic]

\* A part of what is extracted: nodes and edges.
Nothing == [nodes |-> {}, edges |-> {}]
Part(nodes, edges) == [nodes |-> nodes, edges |-> edges]
Merge(parts) == Part(UNION {p.nodes : p \in parts}, UNION {p.edges : p \in parts})

ProjectContainment(f) ==
    LET project == Node("project", <<>>, NoPath, 0)
    IN  Part({project, FileNode(f)},
             {Edge("project_contains_file", project, FileNode(f), 100, FALSE)})

-----------------------------------------------------------------------------
\* Imports.

At(f, i) == f.lines[i]

\* parseGoImports: whether line i is inside an import block.
InBlock(f) ==
    LET open[i \in 0..Len(f.lines)] ==
            /\ i > 0
            /\ \/ At(f, i).t = "import ("
               \/ open[i - 1] /\ At(f, i).t # ")"
    IN  open

\* parseGoImports, quotedImportPath: inside a block every other line with a name
\* is an import, whatever it is.
GoImports(f) ==
    {i \in DOMAIN f.lines :
        /\ At(f, i).t \notin {"import (", ")"} /\ At(f, i).v # <<>>
        /\ (InBlock(f)[i - 1] \/ At(f, i).t = "import")}

\* parseJSImports: the first of the lines of one form that name a module.
JSImports(f) ==
    {i \in DOMAIN f.lines :
        /\ At(f, i).t \in {"import", "export", "require"}
        /\ \A j \in 1..(i - 1) : <<At(f, j).t, At(f, j).v>> # <<At(f, i).t, At(f, i).v>>}

PythonImports(f) == {i \in DOMAIN f.lines : At(f, i).t \in {"import", "from"}}

\* parseLanguageImports
LanguageImports(f) ==
    CASE NormalizedLanguage(f) \in {"typescript", "javascript"} -> JSImports(f)
      [] NormalizedLanguage(f) = "python"                       -> PythonImports(f)
      [] OTHER                                                  -> {}

\* importNodeKey: the language as it is given, none for Go.
ImportNode(f, lang, i) == Node("import", <<lang>> \o At(f, i).v, f.path, i)

\* extractPackageAndImports, extractLanguageImports: a Go file without a package
\* line has neither.
PackageAndImports(f) ==
    LET packages == {i \in DOMAIN f.lines : At(f, i).t = "package"}
        line     == Min(packages)
        package  == Node("package", Shape[f.path].dir \o At(f, line).v, f.path, line)
        imports(lang, from, conf) ==
            Part({ImportNode(f, lang, i) : i \in from},
                 {Edge("file_imports", FileNode(f), ImportNode(f, lang, i), conf, FALSE) : i \in from})
    IN  IF f.lang # "go" THEN imports(f.lang, LanguageImports(f), 90)
        ELSE IF packages = {} THEN Nothing
        ELSE Merge({Part({package}, {Edge("file_declares_package", FileNode(f), package, 100, FALSE)}),
                    imports("", GoImports(f), 95)})

-----------------------------------------------------------------------------
\* Symbols.

\* symbolRangesOverlap
Overlap(a, b) ==
    LET end(s) == IF s.to < s.from THEN s.from ELSE s.to
    IN  a.from <= end(b) /\ b.from <= end(a)

SymbolAt(f, l) == f.chunks[l[1]].syms[l[2]]
Locators(f) ==
    {l \in UNION {{c} \X DOMAIN f.chunks[c].syms : c \in DOMAIN f.chunks} : SymbolAt(f, l).name # ""}

\* canonicalSymbolChunks: of the occurrences of one name and kind, by their first
\* line and then their place, those that overlap none already kept (one set is so).
Canonical(f) ==
    LET earlier(a, b) ==
            LET x == SymbolAt(f, a)
                y == SymbolAt(f, b)
            IN  \/ x.from < y.from
                \/ x.from = y.from /\ a[1] < b[1]
                \/ x.from = y.from /\ a[1] = b[1] /\ a[2] < b[2]
        same(a, b) == /\ SymbolAt(f, a).name = SymbolAt(f, b).name
                      /\ SymbolAt(f, a).kind = SymbolAt(f, b).kind
                      /\ Overlap(SymbolAt(f, a), SymbolAt(f, b))
        clear(kept, l) == \A k \in kept : ~(earlier(k, l) /\ same(k, l))
    IN  UNION {kept \in SUBSET Locators(f) : \A l \in Locators(f) : l \in kept <=> clear(kept, l)}

\* A symbol is known by its file, its name and its first line.
SymbolNode(f, s) == Node("symbol", <<f.path, s.name, s.from>>, f.path, s.from)

\* extractSymbolEdges
SymbolEdges(f) ==
    LET chunkNode(c) == Node("chunk", <<f.chunks[c].id>>, f.path, 0)
    IN  Merge({Part({chunkNode(c)}, {}) : c \in DOMAIN f.chunks} \cup
              {LET s == SymbolNode(f, SymbolAt(f, l))
               IN  Part({s, chunkNode(l[1])},
                             {Edge("file_defines_symbol", FileNode(f), s, 95, FALSE),
                              Edge("symbol_has_chunk", s, chunkNode(l[1]), 100, FALSE)})
                  : l \in Canonical(f)})

-----------------------------------------------------------------------------
\* Configuration keys.

\* collectYAMLKeys, collectJSONKeys: a key under the nearest keys above it.
TreeKey(f, i) ==
    LET above(d) == Max({j \in 1..i : At(f, j).t = "key" /\ At(f, j).d = d})
    IN  [e \in 1..(At(f, i).d + 1) |-> At(f, above(e - 1)).v[1]]

\* collectTOMLKeys: under the last section.
TOMLKey(f, i) ==
    LET sections == {j \in 1..i : At(f, j).t = "section"}
    IN  CASE At(f, i).t = "section" -> At(f, i).v
          [] At(f, i).t # "section" /\ sections = {} -> At(f, i).v
          [] OTHER -> At(f, Max(sections)).v \o At(f, i).v

\* configKeyRefs, collectEnvKeys, collectPropertiesKeys: the lines of keys.
KeyLines(f) ==
    LET is(kinds) == {i \in DOMAIN f.lines : At(f, i).t \in kinds}
        ext       == Shape[f.path].ext
    IN  CASE ext \in {".yaml", ".json", ".env", ".properties"} -> is({"key"})
          [] ext = ".toml"                                     -> is({"key", "section"})
          [] OTHER                                             -> {}
KeyPath(f, i) == CASE Shape[f.path].ext \in {".yaml", ".json"} -> TreeKey(f, i)
                   [] Shape[f.path].ext = ".toml"              -> TOMLKey(f, i)
                   [] OTHER                                    -> At(f, i).v

\* The parsers of YAML and JSON refuse a file; the others refuse none.
Unparsed(f) ==
    /\ Shape[f.path].ext \in {".yaml", ".json"}
    /\ \E i \in DOMAIN f.lines : At(f, i).t = "malformed"

KeyNode(f, i) == Node("config_key", <<f.path, KeyPath(f, i)>>, f.path, i)

\* extractConfigKeys
ConfigKeys(f) ==
    IF ~IsConfig(f) \/ Unparsed(f) THEN Nothing
    ELSE Part({KeyNode(f, i) : i \in KeyLines(f)},
              {Edge("file_defines_config_key", FileNode(f), KeyNode(f, i), 90, FALSE) : i \in KeyLines(f)})

-----------------------------------------------------------------------------
\* What a file contributes whatever the other files are: where it is, its package
\* and imports, its symbols, its configuration keys.
Own(f) == Merge({ProjectContainment(f), PackageAndImports(f), SymbolEdges(f), ConfigKeys(f)})

\* Tests and the files they cover; known is a function from paths to sources.

WithShape(known, shapes) == {p \in DOMAIN known : Shape[p] \in shapes}

\* directImplementationPaths.  A test directly under a leading "tests" keeps that
\* directory: only "tests/" and what follows it is cut.
DirectPaths(f, known) ==
    LET s    == Shape[f.path]
        file(dir) == [s EXCEPT !.dir = dir, !.mark = ""]
        without(i) == SubSeq(s.dir, 1, i - 1) \o SubSeq(s.dir, i + 1, Len(s.dir))
        inner == {i \in 2..Len(s.dir) : s.dir[i] \in Segment \cup {"__tests__"}}
        lead  == IF Len(s.dir) > 1 THEN Tail(s.dir) ELSE s.dir
    IN  IF s.mark = "" THEN {}
        ELSE WithShape(known,
                {file(s.dir)} \cup {file(without(i)) : i \in inner}
                \cup IF s.dir # <<>> /\ s.dir[1] \in Segment
                     THEN {file(lead), file(<<"src">> \o lead)} ELSE {})

\* resolveImportToKnownSources
Resolve(f, v, known) ==
    LET code   == {"", ".go", ".py", ".ts", ".tsx", ".js", ".jsx"}
        at(dir, stem) == {[dir |-> dir, stem |-> stem, mark |-> "", ext |-> e] : e \in code}
        under(dir)    == at(dir \o Front(v), Last(v))
        base   == Shape[f.path].dir \o Tail(v)
    IN  IF v = <<>> THEN {}
        ELSE IF v[1] = "."
             THEN IF Len(v) = 1 THEN WithShape(known, at(base, "index"))
                  ELSE WithShape(known, at(Front(base), Last(base)) \cup at(base, "index"))
             ELSE WithShape(known, under(<<>>) \cup under(<<"src">>))

\* testImplementationCandidates: the name of the test weighs more than an import.
Covered(f, known) ==
    LET file(p) == p # f.path /\ Kind(known[p]) = "file"
        direct  == {p \in DirectPaths(f, known) : file(p)}
        import  == {p \in UNION {Resolve(f, At(f, i).v, known) : i \in LanguageImports(f)} : file(p)}
    IN  [p \in direct \cup import |-> IF p \in direct THEN 72 ELSE 45]

\* sortedSources
Rank(p) == CHOOSE i \in DOMAIN PathOrder : PathOrder[i] = p

\* extractTestImplementationEdge: the first few, as the paths sort.
TestCovers(f, known) ==
    LET covered == Covered(f, known)
        kept    == {p \in DOMAIN covered :
                       Cardinality({q \in DOMAIN covered : Rank(q) < Rank(p)}) < MaxTargets}
    IN  IF ~IsTest(f) THEN Nothing
        ELSE Part({FileNode(known[p]) : p \in kept},
                  {Edge("test_covers_implementation", FileNode(f), FileNode(known[p]), covered[p], TRUE) : p \in kept})

-----------------------------------------------------------------------------
\* What a document mentions.

\* inlineCodeMentionLine
Quotes(f, v) == \E i \in DOMAIN f.lines : At(f, i).t = "code" /\ At(f, i).v = v

\* knownPathMentionLine: as code, as a link, or alone on a line, in that order.
PathMention(f, p) ==
    LET is(kind) == \E i \in DOMAIN f.lines : At(f, i).t = kind /\ At(f, i).v = <<p>>
    IN  CASE is("code") -> 72
          [] ~is("code") /\ is("link") -> 90
          [] ~is("code") /\ ~is("link") /\ is("alone") -> 72
          [] OTHER -> 0

\* knownSymbolsByName: how often a name is defined in the chunks of all sources.
Defined(known, name) ==
    FoldSet(LAMBDA p, n : n + Cardinality({l \in Locators(known[p]) : SymbolAt(known[p], l).name = name}),
            0, DOMAIN known)

\* extractDocMentions, mentionedKnownPaths, mentionedKnownSymbols,
\* mentionedKnownConfigKeys: a name defined twice is not resolved.
DocMentions(f, known) ==
    LET files == {p \in DOMAIN known \ {f.path} : PathMention(f, p) > 0}
        symbols(p) == {SymbolNode(known[p], SymbolAt(known[p], l)) :
            l \in {m \in Locators(known[p]) :
                     /\ Defined(known, SymbolAt(known[p], m).name) = 1
                     /\ Quotes(f, <<SymbolAt(known[p], m).name>>)}}
        keys(p) == IF ~IsConfig(known[p]) \/ Unparsed(known[p]) THEN {}
                   ELSE {KeyNode(known[p], i) :
                           i \in {j \in KeyLines(known[p]) : Quotes(f, KeyPath(known[p], j))}}
        mention(kind, nodes) == Part(nodes, {Edge(kind, FileNode(f), n, 72, TRUE) : n \in nodes})
    IN  IF ~IsMarkdown(f) THEN Nothing
        ELSE Merge({Part({FileNode(known[p]) : p \in files},
                         {Edge("doc_mentions_file", FileNode(f), FileNode(known[p]), PathMention(f, p), FALSE)
                             : p \in files}),
                    mention("doc_mentions_symbol", UNION {symbols(p) : p \in DOMAIN known}),
                    mention("doc_mentions_config_key", UNION {keys(p) : p \in DOMAIN known})})

\* UpdateCheapEdgesWithSummary, for one file: the sources given replace the known
\* ones of the same path.
With(fun, key, value) == [k \in DOMAIN fun \cup {key} |-> IF k = key THEN value ELSE fun[k]]
WithSource(known, f) == With(known, f.path, f)
Extract(f, known) ==
    Merge({Own(f), Part({FileNode(f)}, {}), TestCovers(f, known), DocMentions(f, known)})
=============================================================================
