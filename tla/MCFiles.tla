-------------------------------- MODULE MCFiles --------------------------------
\* What stands before the index, one machine in each behaviour: the watcher, over a
\* file in the root and one in a subdirectory; a small project for the scanner and
\* the .gitignore reconciliation, with a file in a directory the configuration
\* excludes; small files for the chunkers; the setup of the embedder and the
\* download of its model.
EXTENDS Watcher, IgnoreSync, Chunking, ModelDownload

CONSTANT Machines   \* the machines of this run

VARIABLES machine,
          input     \* of the chunkers

vars == <<machine, input, watchVars, ignoreVars, setupVars, downloadVars>>

OneSubDir == [p \in {"a", "d/b"} |-> IF p = "a" THEN "root" ELSE "d"]

Log  == Line(<<{"a.log", "b.log"}>>)
D    == [Line(<<{"d"}>>) EXCEPT !.dirOnly = TRUE]
DLog == Line(<<{"d"}, {"a.log"}>>)
All  == Line(<<{"a.log", "b.log", "m.go", "d", "x", ".gitignore", ".amanmcp.yaml"}>>)
Keep == [Line(<<{"a.log"}>>) EXCEPT !.negation = TRUE]

MCFile      == {<<"a.log">>, <<"m.go">>, <<"d", "a.log">>, <<"d", "x", "b.log">>, <<"d", "x", "m.go">>}
MCIgnoreDir == {<<>>, <<"d">>}
MCContents  == (<<>> :> {<<Log>>, <<D>>, <<Log, DLog>>, <<DLog, Keep>>, <<All>>}) @@ (<<"d">> :> {<<Log>>, <<Keep>>})
MCExcludes  == {Pattern("under", <<"d", "x">>, {})}

MCOtherLines    == {Log, D, DLog, [DLog EXCEPT !.rooted = TRUE], Line(<<AnyDirs, {"x"}, AnyDirs>>),
                    [Line(<<{"d", "x"}, {"x"}>>) EXCEPT !.star = TRUE, !.dirOnly = TRUE],
                    Line(<<{"d"}, AnyDirs \cup {"a.log", "b.log"}>>),       \* d/**.log
                    [Line(<<{"d"}>>) EXCEPT !.git = <<{"x"}>>]}             \* [!d]
MCOtherExcludes == {{Pattern("exact", <<"d">>, {})}, {Pattern("anywhere", <<>>, {"x"})}}

\* A submodule with one in it, and an entry without a path.
MCSubmodules == (<<>> :> {[name |-> <<"lib">>, path |-> <<"d">>], [name |-> <<"gone">>, path |-> <<>>]})
                    @@ (<<"d">> :> {[name |-> <<"lib", "x">>, path |-> <<"x">>]})
MCSubmodulePatterns == {[form |-> "prefix", name |-> <<"lib">>], [form |-> "suffix", name |-> <<"x">>]}

-----------------------------------------------------------------------------
(* Inputs of the chunkers, of at most four lines or blocks.                  *)

Sequences(S, n) == UNION {[1..k -> S] : k \in 1..n}

LineInputs == {[kind |-> "lines", lines |-> [i \in DOMAIN s |-> SourceLine("code", s[i])]] :
                   s \in Sequences({0, 3, 7, 10, 13, 20}, 4)}

\* A class of two methods, the second with a function in it, after a comment.
Tree(named) ==
    LET node(i, first, last, children) ==
            [first |-> first, last |-> last, named |-> i \in named, children |-> children]
    IN  <<node(1, 1, 6, <<2>>), node(2, 2, 6, <<3, 4>>), node(3, 3, 3, <<>>), node(4, 4, 6, <<5>>), node(5, 5, 5, <<>>)>>

TreeInputs == {[kind |-> "tree", tree |-> Tree(named),
                lines |-> [i \in 1..6 |-> SourceLine(IF i = 1 THEN first ELSE "code", s[i])]] :
                   named \in SUBSET (2..5), first \in {"comment", "bare", "blank", "code"}, s \in [1..6 -> {1, 9}]}

\* Sentences of words of these lengths; every word at a place of its own.
Sentences(block, lengths) ==
    [j \in DOMAIN lengths |-> [k \in DOMAIN lengths[j] |->
        [at |-> 1000 * block + 200 * j + 30 * k, length |-> lengths[j][k]]]]

Shapes == {[header |-> 1, fences |-> 0, atomic |-> "", sentences |-> <<<<3>>>>],
           [header |-> 2, fences |-> 0, atomic |-> "", sentences |-> <<<<3>>>>],
           [header |-> 0, fences |-> 0, atomic |-> "", sentences |-> <<<<4>>>>],
           [header |-> 0, fences |-> 0, atomic |-> "", sentences |-> <<<<3, 13, 4>>, <<2>>, <<5, 6>>>>],
           [header |-> 0, fences |-> 0, atomic |-> "", sentences |-> <<<<3>>, <<3>>, <<3>>>>],
           [header |-> 0, fences |-> 1, atomic |-> "begins", sentences |-> <<<<5>>>>],
           [header |-> 0, fences |-> 1, atomic |-> "", sentences |-> <<<<6>>>>],
           [header |-> 0, fences |-> 0, atomic |-> "holds", sentences |-> <<<<3, 4>>, <<5>>>>]}

TextInputs == {[kind |-> "text",
                blocks |-> [i \in DOMAIN s |->
                    Block(s[i].header, s[i].fences, s[i].atomic, Sentences(i, s[i].sentences))]] :
                   s \in Sequences(Shapes, 4)}

ChunkInit == input \in LineInputs \cup TreeInputs \cup TextInputs

-----------------------------------------------------------------------------

\* A machine that does not run has one initial state.
Init ==
    /\ machine \in Machines
    /\ WatchInit /\ (machine /= "watcher" => backend = "fsnotify" /\ \A p \in Path : disk[p] = 1)
    /\ IF machine = "ignore" THEN IgnoreInit
       ELSE /\ ignores = Empty /\ index = {} /\ hash = <<>> /\ cache = Empty /\ watch = AllSeen
            /\ queue = <<>> /\ phase = "off" /\ task = Idle /\ edits = 0 /\ starts = 0 /\ unsure = {}
    /\ IF machine = "chunks" THEN ChunkInit ELSE input = <<>>
    /\ SetupInit /\ (machine /= "setup" => server = "absent" /\ models = <<>> /\ env = "")
    /\ DownloadInit /\ (machine /= "download" => model = "none")

Next ==
    /\ UNCHANGED <<machine, input>>
    /\ \/ machine = "watcher"  /\ WatchNext /\ Habits /\ UNCHANGED <<ignoreVars, setupVars, downloadVars>>
       \/ machine = "ignore"   /\ IgnoreNext   /\ UNCHANGED <<watchVars, setupVars, downloadVars>>
       \/ machine = "setup"    /\ SetupNext    /\ UNCHANGED <<watchVars, ignoreVars, downloadVars>>
       \/ machine = "download" /\ DownloadNext /\ UNCHANGED <<watchVars, ignoreVars, setupVars>>

Spec == Init /\ [][Next]_vars /\ WatchFairness

-----------------------------------------------------------------------------

\* Sections lose nothing but headers by themselves, and exceed the limit by one
\* token at most where nothing atomic is in them; pages never do
\* (markdown_chunker.go:76-540, pdf.go:93-330).
KeepsText(blocks) ==
    LET lone(i) == /\ blocks[i].header > 0
                   /\ i = Len(blocks) \/ blocks[i + 1].header > 0
                   /\ i = 1 \/ \E j \in 1..(i - 1) : blocks[j].header > 0
        kept    == SelectSeq([i \in DOMAIN blocks |-> [blocks[i] EXCEPT !.open = ~lone(i)]], LAMBDA b : b.open)
        chunks  == MarkdownChunks(blocks)
        pages   == ChunksForPage([i \in DOMAIN blocks |-> blocks[i].sentences])
    IN  /\ HoldsText(chunks, WordsOf(kept)) /\ HoldsText(pages, WordsOf(blocks))
        /\ (\A i \in DOMAIN blocks : blocks[i].atomic = "") /\ Sections(blocks) /= <<>> =>
              \A k \in DOMAIN chunks : EstimateTokens(chunks[k].length) <= MaxChunkTokens + 1
        /\ \A k \in DOMAIN pages : EstimateTokens(pages[k].length) <= MaxChunkTokens

\* What a file's chunks hold is the file, in pieces of the size asked for.
ChunksHoldTheFile ==
    machine = "chunks" =>
        CASE input.kind = "lines" -> KeepsLines(input.lines, SplitByLines(input.lines, 1, Len(input.lines)))
          [] input.kind = "tree"  -> KeepsSymbols(input.tree, input.lines, CodeChunks(input.tree, input.lines))
          [] input.kind = "text"  -> KeepsText(input.blocks)

=============================================================================
