------------------------------- MODULE Chunking -------------------------------
\* The chunkers of internal/chunk. A source file is a sequence of lines of which
\* only the kind and the length count; its syntax tree is given (tree-sitter). The
\* text of a Markdown or PDF file is words, in sentences, in blocks that blank
\* lines separate; a word is the place and the number of its characters, so that a
\* chunk tells which characters it holds.
EXTENDS Naturals, Sequences, SequencesExt, FiniteSetsExt

CONSTANTS MaxChunkTokens, OverlapTokens,  \* the options of the chunkers
          MaxCASTSplitDepth

ASSUME ChunkingAssumption ==
    MaxChunkTokens \in Nat \ {0} /\ OverlapTokens \in Nat /\ MaxCASTSplitDepth \in Nat

TokensPerChar == 4
EstimateTokens(length) == length \div TokensPerChar
MaxChars == MaxChunkTokens * TokensPerChar
OverlapLines == Max({2, (OverlapTokens * TokensPerChar) \div 80})

SourceLine(kind, length) == [kind |-> kind, length |-> length]

\* The characters of the lines first to last, joined.
Width(lines, first, last) ==
    LET upto[i \in first..last] ==
            IF i = first THEN lines[i].length ELSE upto[i - 1] + 1 + lines[i].length
    IN  upto[last]

\* One chunk of lines, of the symbols that are listed with it.
LineChunk(lines, first, last) ==
    [first |-> first, last |-> last, length |-> Width(lines, first, last), symbols |-> {}]

\* How many parts of at most MaxChars; the last is shorter.
Parts(length) == (length + MaxChars - 1) \div MaxChars
PartLength(length, n) == Min({MaxChars, length - (n - 1) * MaxChars})

\* splitLongLine, splitFallbackLongLine.
SplitLongLine(lines, i) ==
    [n \in 1..Parts(lines[i].length) |->
        [LineChunk(lines, i, i) EXCEPT !.length = PartLength(lines[i].length, n)]]

\* A slip: the line that fills a window is never asked whether it still fits.
WindowEndUnchecked(lines, i, last) ==
    Max({e \in i..last : \A k \in i..(e - 1) : EstimateTokens(Width(lines, i, k)) < MaxChunkTokens})

\* The window that begins at a line: it grows until it is full, or the next line
\* does not fit.
WindowEnd(lines, i, last) ==
    Max({e \in i..last : /\ e = i \/ EstimateTokens(Width(lines, i, e)) <= MaxChunkTokens
                         /\ \A k \in i..(e - 1) : EstimateTokens(Width(lines, i, k)) < MaxChunkTokens})

\* splitByLines, chunkByLines, a turn of the loop: a window, or the parts of a line
\* that is too long for one; and where the next begins, before the end of a window.
NextLines(lines, i, last) ==
    IF EstimateTokens(lines[i].length) > MaxChunkTokens
    THEN [chunks |-> SplitLongLine(lines, i), next |-> i + 1]
    ELSE LET end  == WindowEnd(lines, i, last)
             back == IF end = last \/ end + 1 <= i + OverlapLines THEN 0 ELSE OverlapLines
         IN  [chunks |-> <<LineChunk(lines, i, end)>>, next |-> end + 1 - back]

\* splitByLines, chunkByLines. The place in this sequence is part of a chunk's id.
SplitByLines(lines, first, last) ==
    LET from[i \in first..(last + 1)] ==
            IF i > last THEN <<>> ELSE NextLines(lines, i, last).chunks \o from[NextLines(lines, i, last).next]
    IN  from[first]

-----------------------------------------------------------------------------
(* Code: a tree is a function from nodes to [first, last, named, children];  *)
(* 1 is the root and a child's number is greater than its parent's.          *)

\* collectSymbolNodes, extractSymbol: a node of a symbol's type that has a name
\* hides those in it.
CollectSymbolNodes(tree, n) ==
    LET symbols[m \in DOMAIN tree] ==
            IF tree[m].named THEN <<m>>
            ELSE FlattenSeq([i \in DOMAIN tree[m].children |-> symbols[tree[m].children[i]]])
    IN  symbols[n]

\* findSymbolNodes, findSemanticChildSymbols.
FindSymbolNodes(tree, n) ==
    FlattenSeq([i \in DOMAIN tree[n].children |-> CollectSymbolNodes(tree, tree[n].children[i])])

\* extractDocComment: as many lines as there are comments above, blank lines among
\* them not counted, nor comments without a word ("bare") around those with one.
DocLines(lines, first) ==
    LET code  == Max({0} \cup {i \in 1..(first - 1) : lines[i].kind = "code"})
        words == {i \in (code + 1)..(first - 1) : lines[i].kind = "comment"}
    IN  Cardinality({i \in (code + 1)..(first - 1) :
                        lines[i].kind \in {"comment", "bare"} /\ \E j, k \in words : i \in j..k})

\* getRawContentWithDocComment, and a chunk of all of it.
WithDocComment(tree, lines, n) ==
    LineChunk(lines, Max({1, tree[n].first - DocLines(lines, tree[n].first)}), tree[n].last)

\* A symbol is listed as itself, or as its part number i.
Whole(n) == <<n, 0>>
CreateChunk(tree, lines, n) == [WithDocComment(tree, lines, n) EXCEPT !.symbols = {Whole(n)}]

TooLong(tree, lines, n) == EstimateTokens(WithDocComment(tree, lines, n).length) > MaxChunkTokens

\* The symbols a node is split below, its ancestors.
Ancestors(tree, n) ==
    LET below[m \in DOMAIN tree] == {m} \cup UNION {below[c] : c \in ToSet(tree[m].children)}
    IN  {m \in DOMAIN tree : tree[m].named /\ m /= n /\ n \in below[m]}

\* placeParentSymbolsOnce, on the first chunk.
PlaceParentSymbols(chunks, symbols) ==
    IF chunks = <<>> THEN <<>> ELSE [chunks EXCEPT ![1].symbols = @ \cup symbols]

\* The end of splitSymbolRecursive: the node's lines, without its comment; the
\* first part is listed for the whole symbol too.
SplitNode(tree, lines, n) ==
    LET parts == SplitByLines(lines, tree[n].first, tree[n].last)
    IN  PlaceParentSymbols([i \in DOMAIN parts |-> [parts[i] EXCEPT !.symbols = {<<n, i>>}]],
                           {Whole(m) : m \in {n} \cup Ancestors(tree, n)})

\* splitSymbolRecursive, splitBySemanticChildren: what is in no child is in no chunk.
SplitLargeSymbol(tree, lines, top) ==
    LET split[n \in DOMAIN tree] ==
            LET children == FindSymbolNodes(tree, n)
                produced(c) == IF TooLong(tree, lines, c) THEN split[c] ELSE <<CreateChunk(tree, lines, c)>>
            IN  IF children /= <<>> /\ Cardinality(Ancestors(tree, n)) < MaxCASTSplitDepth
                THEN PlaceParentSymbols(FlattenSeq([i \in DOMAIN children |-> produced(children[i])]),
                                        {Whole(m) : m \in {n} \cup Ancestors(tree, n)})
                ELSE SplitNode(tree, lines, n)
    IN  split[top]

\* createChunksFromNode.
CreateChunksFromNode(tree, lines, n) ==
    IF TooLong(tree, lines, n) THEN SplitLargeSymbol(tree, lines, n) ELSE <<CreateChunk(tree, lines, n)>>

\* Chunk, for a language that is parsed: a file without symbols has no chunks.
CodeChunks(tree, lines) ==
    LET nodes == FindSymbolNodes(tree, 1)
    IN  FlattenSeq([i \in DOMAIN nodes |-> CreateChunksFromNode(tree, lines, nodes[i])])

-----------------------------------------------------------------------------
(* Text: a unit is words with what joins them; joins tells that it may be put *)
(* to what is before it, open that more may be put to it.                    *)

Unit(words) == [words |-> words, length |-> FoldLeft(LAMBDA n, w : n + w.length, Len(words) - 1, words),
                joins |-> TRUE, open |-> TRUE]
Closed(units) == [i \in DOMAIN units |-> [units[i] EXCEPT !.joins = FALSE, !.open = FALSE]]

JoinUnits(a, b, gap) == [b EXCEPT !.words = a.words \o @, !.length = a.length + gap + @, !.joins = a.joins]

\* How each of them asks whether a unit still fits to what it has.
Fits(rule, a, gap, b) ==
    CASE rule = "tokens"    -> EstimateTokens(a + gap + b) <= MaxChunkTokens
      [] rule = "chars"     -> a + gap + b <= MaxChars
      [] rule = "section"   -> EstimateTokens(a + gap) + EstimateTokens(b) <= MaxChunkTokens
      [] rule = "paragraph" -> EstimateTokens(a) + EstimateTokens(b) <= MaxChunkTokens

\* The packing all of them use: a unit is put to the one before it if it fits.
Pack(units, gap, rule) ==
    FoldLeft(LAMBDA done, u :
                 IF done /= <<>> /\ u.joins /\ Last(done).open /\ Fits(rule, Last(done).length, gap, u.length)
                 THEN Append(Front(done), JoinUnits(Last(done), u, gap)) ELSE Append(done, u),
             <<>>, units)

\* splitLongWord.
SplitLongWord(w) ==
    [n \in 1..Parts(w.length) |-> Unit(<<[at |-> w.at + (n - 1) * MaxChars, length |-> PartLength(w.length, n)]>>)]

\* splitOversizedTextByWords, splitLongText.
SplitByWords(words, rule) ==
    Pack(FlattenSeq([i \in DOMAIN words |-> IF words[i].length > MaxChars THEN Closed(SplitLongWord(words[i]))
                                            ELSE <<Unit(<<words[i]>>)>>]),
         1, rule)

\* splitOversizedParagraph: sentences, and the words of one that is too long.
SplitOversizedParagraph(sentences) ==
    Pack(FlattenSeq([i \in DOMAIN sentences |->
            IF EstimateTokens(Unit(sentences[i]).length) > MaxChunkTokens
            THEN Closed(SplitByWords(sentences[i], "tokens"))
            ELSE <<Unit(sentences[i])>>]),
         1, "tokens")

\* A block of Markdown: header is its level, or 0; fences how many ``` are in it;
\* atomic that it "begins" with ``` or a table or "holds" a component, or "".
Block(header, fences, atomic, sentences) ==
    [header |-> header, fences |-> fences, atomic |-> atomic, sentences |-> sentences,
     words |-> FlattenSeq(sentences), joins |-> TRUE, open |-> TRUE,
     length |-> Unit(FlattenSeq(sentences)).length, unclosed |-> fences % 2 = 1]

\* mergeAtomicBlocks: from a block that opens code to the next with ``` in it. How
\* the whole begins is how the first one does; what it holds is what any of them does.
MergeAtomicBlocks(blocks) ==
    FoldLeft(LAMBDA done, b :
                 IF done /= <<>> /\ Last(done).unclosed
                 THEN Append(Front(done), [Last(done) EXCEPT !.sentences = @ \o b.sentences, !.words = @ \o b.words,
                                                             !.length = @ + 2 + b.length, !.unclosed = b.fences = 0,
                                                             !.atomic = IF b.atomic = "holds" THEN "holds" ELSE @])
                 ELSE Append(done, b),
             <<>>, blocks)

\* splitLargeSection: an oversized block is taken apart and begins a chunk.
SplitLargeSection(blocks) ==
    LET merged == MergeAtomicBlocks(blocks)
        units(b) == IF b.atomic /= "" \/ EstimateTokens(b.length) <= MaxChunkTokens THEN <<b>>
                    ELSE LET segments == SplitOversizedParagraph(b.sentences)
                         IN  [i \in DOMAIN segments |-> [segments[i] EXCEPT !.joins = i > 1, !.open = TRUE]]
    IN  Pack(FlattenSeq([i \in DOMAIN merged |-> units(merged[i])]), 2, "section")

\* chunkByParagraphs: without a header nothing is taken apart.
ChunkByParagraphs(blocks) ==
    Pack(blocks, 2, "paragraph")

\* parseSections: what is before the first header is in its section.
Sections(blocks) ==
    LET headers == SetToSortSeq({i \in DOMAIN blocks : blocks[i].header > 0}, <)
    IN  [k \in DOMAIN headers |->
            SubSeq(blocks, IF k = 1 THEN 1 ELSE headers[k],
                   IF k = Len(headers) THEN Len(blocks) ELSE headers[k + 1] - 1)]

\* createSectionChunks: nothing for a header by itself.
CreateSectionChunks(blocks) ==
    IF Len(blocks) = 1 THEN <<>>
    ELSE LET whole == FoldLeft(LAMBDA a, b : JoinUnits(a, b, 2), Head(blocks), Tail(blocks))
         IN  IF EstimateTokens(whole.length) <= MaxChunkTokens THEN <<whole>> ELSE SplitLargeSection(blocks)

\* Chunk of the Markdown chunker, after the front matter.
MarkdownChunks(blocks) ==
    LET sections == Sections(blocks)
    IN  IF sections = <<>> THEN ChunkByParagraphs(blocks)
        ELSE FlattenSeq([k \in DOMAIN sections |-> CreateSectionChunks(sections[k])])

-----------------------------------------------------------------------------

\* splitPDFTextUnits: paragraphs, sentences and words, whatever fits first.
SplitPDFTextUnits(paragraphs) ==
    FlattenSeq([i \in DOMAIN paragraphs |->
        IF Unit(FlattenSeq(paragraphs[i])).length <= MaxChars THEN <<Unit(FlattenSeq(paragraphs[i]))>>
        ELSE FlattenSeq([j \in DOMAIN paragraphs[i] |->
                IF Unit(paragraphs[i][j]).length <= MaxChars THEN <<Unit(paragraphs[i][j])>>
                ELSE LET parts == SplitByWords(paragraphs[i][j], "chars")
                     IN  [k \in DOMAIN parts |-> [parts[k] EXCEPT !.joins = TRUE, !.open = TRUE]]])])

\* splitPDFText.
SplitPDFText(paragraphs) == Pack(SplitPDFTextUnits(paragraphs), 2, "tokens")

\* chunksForPage.
ChunksForPage(paragraphs) ==
    LET units == [i \in DOMAIN paragraphs |-> Unit(FlattenSeq(paragraphs[i]))]
        whole == FoldLeft(LAMBDA a, b : JoinUnits(a, b, 2), Head(units), Tail(units))
    IN  IF EstimateTokens(whole.length) <= MaxChunkTokens THEN <<whole>> ELSE SplitPDFText(paragraphs)

-----------------------------------------------------------------------------

\* The characters in the chunks that begin at a line.
LengthAt(chunks, i) ==
    LET upto[k \in 0..Len(chunks)] ==
            IF k = 0 THEN 0 ELSE upto[k - 1] + IF chunks[k].first = i THEN chunks[k].length ELSE 0
    IN  upto[Len(chunks)]

\* Windows of lines: every line is in a chunk, none is larger than the limit, each
\* begins after the one before it and leaves no gap; a long line is cut in parts
\* that make it up (code_chunker.go:437-590, 745-829).
KeepsLines(lines, chunks) ==
    /\ \A i \in DOMAIN lines : \E k \in DOMAIN chunks : i \in chunks[k].first..chunks[k].last
    /\ \A k \in DOMAIN chunks : EstimateTokens(chunks[k].length) <= MaxChunkTokens
    /\ \A k \in 1..(Len(chunks) - 1) :
          /\ chunks[k + 1].first <= chunks[k].last + 1
          /\ chunks[k + 1].first > chunks[k].first \/ lines[chunks[k].first].length > MaxChars
    /\ \A i \in DOMAIN lines : EstimateTokens(lines[i].length) > MaxChunkTokens =>
          LengthAt(chunks, i) = lines[i].length

\* A symbol the chunker goes into is listed with a chunk, also where it is split
\* into its members or its lines, and the lines of one without members are all in
\* chunks (code_chunker.go:271-436; "Split Symbol Discovery", :495).
KeepsSymbols(tree, lines, chunks) ==
    /\ \A k \in DOMAIN chunks : EstimateTokens(chunks[k].length) <= MaxChunkTokens
    /\ \A n \in {m \in DOMAIN tree : tree[m].named} :
          (\A a \in Ancestors(tree, n) : TooLong(tree, lines, a)) /\ Cardinality(Ancestors(tree, n)) <= MaxCASTSplitDepth =>
             /\ \E k \in DOMAIN chunks : Whole(n) \in chunks[k].symbols
             /\ FindSymbolNodes(tree, n) = <<>> =>
                   \A i \in tree[n].first..tree[n].last : \E k \in DOMAIN chunks : i \in chunks[k].first..chunks[k].last

\* The characters of the chunks, in order.
WordsOf(units) == FlattenSeq([i \in DOMAIN units |-> units[i].words])

\* Nothing of a text is lost, repeated or moved: what the chunks hold, word after
\* word, is the words given, but for those cut in parts.
HoldsText(units, words) ==
    LET held == WordsOf(units)
    IN  /\ \A i \in 1..(Len(held) - 1) : held[i].at + held[i].length <= held[i + 1].at
        /\ UNION {w.at..(w.at + w.length - 1) : w \in ToSet(held)} =
           UNION {w.at..(w.at + w.length - 1) : w \in ToSet(words)}
=============================================================================
