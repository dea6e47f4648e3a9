----------------------------- MODULE GraphProofs -----------------------------
(***************************************************************************)
(* What GraphOverlay keeps, for any files, any texts and any failures: the *)
(* graph speaks of the text that is indexed, and no active edge leads to a *)
(* file it was told is deleted.  And what GraphQuery answers, for any      *)
(* graph, any budgets and any writing between the reads: what an answer to *)
(* a query leaves out, it says.                                            *)
(***************************************************************************)
EXTENDS GraphOverlay, GraphQuery, FiniteSetTheorems, WellFoundedInduction, TLAPS

-----------------------------------------------------------------------------
(* What is extracted from a source.                                        *)

\* The kinds of nodes that belong to one file, whose source each of them names.
PrivateKinds == {"file", "test_file", "doc", "config_file", "symbol", "chunk", "config_key"}

ChunkOwner(id) ==
    CHOOSE p \in Path : \E t \in TextOf[p] \cup HalfOf[p] : \E c \in DOMAIN Source(p, t, t).chunks :
        Source(p, t, t).chunks[c].id = id
Owner(id) == IF id[1] = "chunk" THEN ChunkOwner(id[2][1]) ELSE id[2][1]

IsNode(n) == n = [id |-> n.id, src |-> n.src, line |-> n.line] /\ n.id = <<n.id[1], n.id[2]>>
IsBare(e) == e = [kind |-> e.kind, from |-> e.from, to |-> e.to, conf |-> e.conf, heur |-> e.heur]

\* A node names a file it is about, its owner when it has one.
NodeOf(n, paths) ==
    /\ n.src \in paths \cup {NoPath}
    /\ n.id[1] \in PrivateKinds => n.src = Owner(n.id)

\* A part brings the nodes of its edges, but for that of f; all are about some paths.
PartOf(part, f, paths) ==
    /\ part = [nodes |-> part.nodes, edges |-> part.edges]
    /\ \A n \in part.nodes : NodeOf(n, paths)
    /\ \A e \in part.edges :
          /\ IsBare(e) /\ \E n \in part.nodes : e.to = n.id
          /\ e.from = FileNode(f).id \/ \E n \in part.nodes : e.from = n.id

\* The edges of a part are those a file owns; but for the nodes files share they lead
\* to nodes of that file.
OwnedBy(part, p) ==
    \A e \in part.edges :
        /\ e.kind \in OwnKinds
        /\ e.kind \notin SharedKinds => e.to[1] \in PrivateKinds /\ Owner(e.to) = p

\* A source of a file: its path, and the chunks of one of its texts, or of some.
SourceOf(f, p) ==
    /\ f.path = p
    /\ \E t \in TextOf[p] \cup HalfOf[p] : f.chunks = Source(p, t, t).chunks

\* No other file has a chunk of that name.
LEMMA ChunksHaveOwners ==
    ASSUME NEW p \in Path, NEW f, SourceOf(f, p), NEW c \in DOMAIN f.chunks
    PROVE  ChunkOwner(f.chunks[c].id) = p
<1>1. PICK t \in TextOf[p] \cup HalfOf[p] : f.chunks = Source(p, t, t).chunks
  BY DEF SourceOf
<1> DEFINE Has(q) == \E u \in TextOf[q] \cup HalfOf[q] : \E d \in DOMAIN Source(q, u, u).chunks :
                        Source(q, u, u).chunks[d].id = f.chunks[c].id
<1>2. Has(p)
  BY <1>1
<1>3. ASSUME NEW q \in Path, Has(q)
      PROVE  q = p
  BY <1>1, <1>3, OverlayAssumption DEF OverlayAssumption
<1> HIDE DEF Has
<1>4. (CHOOSE q \in Path : Has(q)) = p
  BY <1>2, <1>3
<1> QED
  BY <1>4 DEF ChunkOwner, Has

LEMMA MergedParts ==
    ASSUME NEW parts, NEW f, NEW paths, \A part \in parts : PartOf(part, f, paths)
    PROVE  PartOf(Merge(parts), f, paths)
BY DEF PartOf, Merge, Part

LEMMA MergedOwn ==
    ASSUME NEW parts, NEW p, \A part \in parts : OwnedBy(part, p)
    PROVE  OwnedBy(Merge(parts), p)
BY DEF OwnedBy, Merge, Part

LEMMA NothingIsPart == \A f, paths, p : PartOf(Nothing, f, paths) /\ OwnedBy(Nothing, p)
BY DEF PartOf, OwnedBy, Nothing

\* The node of a file is its own.
LEMMA FileNodes ==
    ASSUME NEW f
    PROVE  /\ FileNode(f).id = <<Kind(f), <<f.path>> >> /\ FileNode(f).src = f.path
           /\ Kind(f) \in {"file", "test_file", "doc", "config_file"}
           /\ FileNode(f).id[1] \in PrivateKinds
           /\ Owner(FileNode(f).id) = f.path
           /\ NodeOf(FileNode(f), {f.path})
<1>1. Kind(f) \in {"file", "test_file", "doc", "config_file"}
  BY DEF Kind
<1>2. FileNode(f).id = <<Kind(f), <<f.path>> >> /\ FileNode(f).src = f.path
  BY DEF FileNode, Node
<1>3. FileNode(f).id[1] = Kind(f) /\ FileNode(f).id[2][1] = f.path
  BY <1>2
<1> QED
  BY <1>1, <1>2, <1>3 DEF Owner, NodeOf, PrivateKinds

\* Where a file is.
LEMMA ContainmentIsOwn ==
    ASSUME NEW f
    PROVE  PartOf(ProjectContainment(f), f, {f.path}) /\ OwnedBy(ProjectContainment(f), f.path)
<1> DEFINE project == Node("project", <<>>, NoPath, 0)
           edge    == Edge("project_contains_file", project, FileNode(f), 100, FALSE)
<1>1. ProjectContainment(f) = [nodes |-> {project, FileNode(f)}, edges |-> {edge}]
  BY DEF ProjectContainment, Part
<1>2. NodeOf(project, {f.path})
  <2>1. project.src = NoPath /\ project.id[1] = "project"
    BY DEF Node
  <2> QED
    BY <2>1 DEF NodeOf, PrivateKinds
<1>3. NodeOf(FileNode(f), {f.path}) /\ FileNode(f).id[1] \in PrivateKinds
  BY FileNodes
<1>4. IsBare(edge) /\ edge.from = project.id /\ edge.to = FileNode(f).id /\ edge.kind = "project_contains_file"
  BY DEF Edge, IsBare
<1> HIDE DEF project, edge
<1>5. PartOf(ProjectContainment(f), f, {f.path})
  BY <1>1, <1>2, <1>3, <1>4 DEF PartOf
<1>6. OwnedBy(ProjectContainment(f), f.path)
  BY <1>1, <1>3, <1>4, FileNodes DEF OwnedBy, OwnKinds
<1> QED
  BY <1>5, <1>6

\* Nodes of a file, and the edges of the file to them.
LEMMA EdgesToNodes ==
    ASSUME NEW f, NEW kind \in OwnKinds, NEW N, NEW conf,
           \A n \in N : NodeOf(n, {f.path}),
           kind \in SharedKinds \/ \A n \in N : n.id[1] \in PrivateKinds /\ n.src = f.path
    PROVE  LET part == Part(N, {Edge(kind, FileNode(f), n, conf, FALSE) : n \in N})
           IN  PartOf(part, f, {f.path}) /\ OwnedBy(part, f.path)
<1> DEFINE edges == {Edge(kind, FileNode(f), n, conf, FALSE) : n \in N}
<1>1. \A e \in edges : e.kind = kind /\ e.from = FileNode(f).id /\ IsBare(e) /\ \E n \in N : e.to = n.id
  BY DEF Edge, IsBare
<1>2. Part(N, edges) = [nodes |-> N, edges |-> edges]
  BY DEF Part
<1> HIDE DEF edges
<1>3. PartOf(Part(N, edges), f, {f.path})
  BY <1>1, <1>2 DEF PartOf
<1>4. OwnedBy(Part(N, edges), f.path)
  BY <1>1, <1>2 DEF OwnedBy, NodeOf
<1> QED
  BY <1>3, <1>4 DEF edges

LEMMA PackagesAreOwn ==
    ASSUME NEW f
    PROVE  PartOf(PackageAndImports(f), f, {f.path}) /\ OwnedBy(PackageAndImports(f), f.path)
<1> DEFINE imports(lang, from, conf) ==
              Part({ImportNode(f, lang, i) : i \in from},
                   {Edge("file_imports", FileNode(f), ImportNode(f, lang, i), conf, FALSE) : i \in from})
           line    == Min({i \in DOMAIN f.lines : At(f, i).t = "package"})
           package == Node("package", Shape[f.path].dir \o At(f, line).v, f.path, line)
           declares == Part({package}, {Edge("file_declares_package", FileNode(f), package, 100, FALSE)})
<1>1. ASSUME NEW lang, NEW from, NEW conf
      PROVE  PartOf(imports(lang, from, conf), f, {f.path}) /\ OwnedBy(imports(lang, from, conf), f.path)
  <2> DEFINE N == {ImportNode(f, lang, i) : i \in from}
  <2>1. \A n \in N : NodeOf(n, {f.path})
    BY DEF ImportNode, Node, NodeOf, PrivateKinds
  <2>2. {Edge("file_imports", FileNode(f), n, conf, FALSE) : n \in N}
            = {Edge("file_imports", FileNode(f), ImportNode(f, lang, i), conf, FALSE) : i \in from}
    OBVIOUS
  <2>3. "file_imports" \in OwnKinds /\ "file_imports" \in SharedKinds
    BY DEF OwnKinds, SharedKinds
  <2> HIDE DEF N
  <2>4. LET part == Part(N, {Edge("file_imports", FileNode(f), n, conf, FALSE) : n \in N})
        IN  PartOf(part, f, {f.path}) /\ OwnedBy(part, f.path)
    BY <2>1, <2>3, EdgesToNodes
  <2> QED
    BY <2>2, <2>4 DEF N
<1>2. PartOf(declares, f, {f.path}) /\ OwnedBy(declares, f.path)
  <2> DEFINE N == {package}
  <2>1. \A n \in N : NodeOf(n, {f.path})
    BY DEF Node, NodeOf, PrivateKinds
  <2>2. {Edge("file_declares_package", FileNode(f), n, 100, FALSE) : n \in N}
            = {Edge("file_declares_package", FileNode(f), package, 100, FALSE)}
    OBVIOUS
  <2>3. "file_declares_package" \in OwnKinds /\ "file_declares_package" \in SharedKinds
    BY DEF OwnKinds, SharedKinds
  <2> HIDE DEF N
  <2>4. LET part == Part(N, {Edge("file_declares_package", FileNode(f), n, 100, FALSE) : n \in N})
        IN  PartOf(part, f, {f.path}) /\ OwnedBy(part, f.path)
    BY <2>1, <2>3, EdgesToNodes
  <2> QED
    BY <2>2, <2>4 DEF N
<1>3. PackageAndImports(f) \in {imports(f.lang, LanguageImports(f), 90), Nothing,
                               Merge({declares, imports("", GoImports(f), 95)})}
  BY DEF PackageAndImports
<1> HIDE DEF imports, declares
<1> DEFINE both == {declares, imports("", GoImports(f), 95)}
<1>4. \A part \in both : PartOf(part, f, {f.path}) /\ OwnedBy(part, f.path)
  BY <1>1, <1>2
<1>5. PartOf(Merge(both), f, {f.path}) /\ OwnedBy(Merge(both), f.path)
  BY <1>4, MergedParts, MergedOwn
<1> QED
  BY <1>1, <1>3, <1>5, NothingIsPart

LEMMA KeysAreOwn ==
    ASSUME NEW f
    PROVE  PartOf(ConfigKeys(f), f, {f.path}) /\ OwnedBy(ConfigKeys(f), f.path)
<1> DEFINE N == {KeyNode(f, i) : i \in KeyLines(f)}
           keys == Part(N, {Edge("file_defines_config_key", FileNode(f), n, 90, FALSE) : n \in N})
<1>1. ConfigKeys(f) \in {keys, Nothing}
  BY DEF ConfigKeys
<1>2. \A n \in N : n.id[1] \in PrivateKinds /\ n.src = f.path /\ Owner(n.id) = f.path
  BY DEF KeyNode, Node, PrivateKinds, Owner
<1>3. \A n \in N : NodeOf(n, {f.path})
  BY <1>2 DEF NodeOf
<1>4. "file_defines_config_key" \in OwnKinds
  BY DEF OwnKinds
<1> HIDE DEF N
<1>5. LET part == Part(N, {Edge("file_defines_config_key", FileNode(f), n, 90, FALSE) : n \in N})
      IN  PartOf(part, f, {f.path}) /\ OwnedBy(part, f.path)
  BY <1>2, <1>3, <1>4, EdgesToNodes
<1> QED
  BY <1>1, <1>5, NothingIsPart

LEMMA SymbolsAreOwn ==
    ASSUME NEW p \in Path, NEW f, SourceOf(f, p)
    PROVE  PartOf(SymbolEdges(f), f, {f.path}) /\ OwnedBy(SymbolEdges(f), f.path)
<1> DEFINE chunkNode(c) == Node("chunk", <<f.chunks[c].id>>, f.path, 0)
           symbol(l) == SymbolNode(f, SymbolAt(f, l))
           chunks == {Part({chunkNode(c)}, {}) : c \in DOMAIN f.chunks}
           defines(l) == Part({symbol(l), chunkNode(l[1])},
                              {Edge("file_defines_symbol", FileNode(f), symbol(l), 95, FALSE),
                               Edge("symbol_has_chunk", symbol(l), chunkNode(l[1]), 100, FALSE)})
           symbols == {defines(l) : l \in Canonical(f)}
<1>1. SymbolEdges(f) = Merge(chunks \cup symbols)
  BY DEF SymbolEdges
<1>2. ASSUME NEW c \in DOMAIN f.chunks
      PROVE  /\ NodeOf(chunkNode(c), {f.path})
             /\ chunkNode(c).id[1] \in PrivateKinds /\ Owner(chunkNode(c).id) = f.path
  <2>1. ChunkOwner(f.chunks[c].id) = f.path
    BY ChunksHaveOwners DEF SourceOf
  <2>2. chunkNode(c).src = f.path /\ chunkNode(c).id = <<"chunk", <<f.chunks[c].id>> >>
    BY DEF Node
  <2> HIDE DEF chunkNode
  <2>3. chunkNode(c).id[1] = "chunk" /\ chunkNode(c).id[2][1] = f.chunks[c].id
    BY <2>2
  <2> QED
    BY <2>1, <2>2, <2>3 DEF NodeOf, Owner, PrivateKinds
<1>3. ASSUME NEW l
      PROVE  /\ NodeOf(symbol(l), {f.path})
             /\ symbol(l).id[1] \in PrivateKinds /\ Owner(symbol(l).id) = f.path
  <2>1. symbol(l).src = f.path /\ symbol(l).id[1] = "symbol" /\ symbol(l).id[2][1] = f.path
    BY DEF SymbolNode, Node
  <2> HIDE DEF symbol
  <2> QED
    BY <2>1 DEF NodeOf, Owner, PrivateKinds
<1>4. Canonical(f) \subseteq Locators(f)
  BY DEF Canonical
<1>5. \A l \in Canonical(f) : l[1] \in DOMAIN f.chunks
  <2> DEFINE places == UNION {{c} \X DOMAIN f.chunks[c].syms : c \in DOMAIN f.chunks}
  <2>1. \A l \in places : l[1] \in DOMAIN f.chunks
    OBVIOUS
  <2>2. Locators(f) \subseteq places
    BY DEF Locators
  <2> QED
    BY <1>4, <2>1, <2>2
<1> HIDE DEF chunkNode, symbol
<1>6. ASSUME NEW c \in DOMAIN f.chunks
      PROVE  LET part == Part({chunkNode(c)}, {})
             IN  PartOf(part, f, {f.path}) /\ OwnedBy(part, f.path)
  <2>1. Part({chunkNode(c)}, {}) = [nodes |-> {chunkNode(c)}, edges |-> {}]
    BY DEF Part
  <2>2. NodeOf(chunkNode(c), {f.path})
    BY <1>2
  <2> DEFINE part == Part({chunkNode(c)}, {})
  <2>3. part = [nodes |-> part.nodes, edges |-> part.edges] /\ part.nodes = {chunkNode(c)} /\ part.edges = {}
    BY <2>1
  <2> HIDE DEF part
  <2>4. PartOf(part, f, {f.path})
    BY <2>2, <2>3 DEF PartOf
  <2>5. OwnedBy(part, f.path)
    BY <2>3 DEF OwnedBy
  <2> QED
    BY <2>4, <2>5 DEF part
<1>7. ASSUME NEW l \in Canonical(f)
      PROVE  PartOf(defines(l), f, {f.path}) /\ OwnedBy(defines(l), f.path)
  <2> DEFINE e1 == Edge("file_defines_symbol", FileNode(f), symbol(l), 95, FALSE)
             e2 == Edge("symbol_has_chunk", symbol(l), chunkNode(l[1]), 100, FALSE)
  <2>1. defines(l) = [nodes |-> {symbol(l), chunkNode(l[1])}, edges |-> {e1, e2}]
    BY DEF Part
  <2>2. IsBare(e1) /\ e1.from = FileNode(f).id /\ e1.to = symbol(l).id /\ e1.kind = "file_defines_symbol"
    BY DEF Edge, IsBare
  <2>3. IsBare(e2) /\ e2.from = symbol(l).id /\ e2.to = chunkNode(l[1]).id /\ e2.kind = "symbol_has_chunk"
    BY DEF Edge, IsBare
  <2> HIDE DEF e1, e2
  <2>4. NodeOf(symbol(l), {f.path}) /\ NodeOf(chunkNode(l[1]), {f.path})
    BY <1>2, <1>3, <1>5
  <2> HIDE DEF defines
  <2>5. PartOf(defines(l), f, {f.path})
    BY <2>1, <2>2, <2>3, <2>4 DEF PartOf
  <2>6. OwnedBy(defines(l), f.path)
    BY <1>2, <1>3, <1>5, <2>1, <2>2, <2>3 DEF OwnedBy, OwnKinds
  <2> QED
    BY <2>5, <2>6
<1> HIDE DEF defines
<1>8. \A part \in chunks \cup symbols : PartOf(part, f, {f.path}) /\ OwnedBy(part, f.path)
  BY <1>6, <1>7
<1> HIDE DEF chunks, symbols
<1> QED
  BY <1>1, <1>8, MergedParts, MergedOwn

\* All that a file contributes by itself is its own.
LEMMA OwnIsOwn ==
    ASSUME NEW p \in Path, NEW f, SourceOf(f, p)
    PROVE  PartOf(Own(f), f, {f.path}) /\ OwnedBy(Own(f), f.path)
<1> DEFINE parts == {ProjectContainment(f), PackageAndImports(f), SymbolEdges(f), ConfigKeys(f)}
<1>1. \A part \in parts : PartOf(part, f, {f.path}) /\ OwnedBy(part, f.path)
  BY ContainmentIsOwn, PackagesAreOwn, SymbolsAreOwn, KeysAreOwn
<1> HIDE DEF parts
<1> QED
  BY <1>1, MergedParts, MergedOwn DEF Own, parts

-----------------------------------------------------------------------------
(* What it says of other files, given sources of theirs.                   *)

\* Each source is known under its own path.
Sources(ks) == \A p \in DOMAIN ks : ks[p].path = p

\* Edges to nodes of known files, of a kind that is not a file's own.
LEMMA MentionsOfNodes ==
    ASSUME NEW f, NEW paths, NEW N, NEW edges,
           \A n \in N : NodeOf(n, paths),
           \A e \in edges : /\ IsBare(e) /\ e.kind \notin OwnKinds
                            /\ e.from = FileNode(f).id /\ \E n \in N : e.to = n.id
    PROVE  /\ PartOf(Part(N, edges), f, paths)
           /\ \A e \in Part(N, edges).edges : e.kind \notin OwnKinds
<1>1. Part(N, edges) = [nodes |-> N, edges |-> edges]
  BY DEF Part
<1> QED
  BY <1>1 DEF PartOf

LEMMA NodesOfKnown ==
    ASSUME NEW ks, Sources(ks), NEW p \in DOMAIN ks, NEW paths, DOMAIN ks \subseteq paths
    PROVE  /\ NodeOf(FileNode(ks[p]), paths)
           /\ \A s : NodeOf(SymbolNode(ks[p], s), paths)
           /\ \A i : NodeOf(KeyNode(ks[p], i), paths)
<1>1. ks[p].path = p /\ p \in paths
  BY DEF Sources
<1>2. NodeOf(FileNode(ks[p]), paths)
  BY <1>1, FileNodes DEF NodeOf
<1>3. ASSUME NEW s PROVE NodeOf(SymbolNode(ks[p], s), paths)
  <2>1. SymbolNode(ks[p], s).src = p /\ SymbolNode(ks[p], s).id = <<"symbol", <<p, s.name, s.from>> >>
    BY <1>1 DEF SymbolNode, Node
  <2>2. SymbolNode(ks[p], s).id[1] = "symbol" /\ SymbolNode(ks[p], s).id[2][1] = p
    BY <2>1
  <2> QED
    BY <1>1, <2>1, <2>2 DEF NodeOf, Owner
<1>4. ASSUME NEW i PROVE NodeOf(KeyNode(ks[p], i), paths)
  <2>1. KeyNode(ks[p], i).src = p /\ KeyNode(ks[p], i).id = <<"config_key", <<p, KeyPath(ks[p], i)>> >>
    BY <1>1 DEF KeyNode, Node
  <2>2. KeyNode(ks[p], i).id[1] = "config_key" /\ KeyNode(ks[p], i).id[2][1] = p
    BY <2>1
  <2> QED
    BY <1>1, <2>1, <2>2 DEF NodeOf, Owner
<1> QED
  BY <1>2, <1>3, <1>4

LEMMA CoveredAreKnown ==
    ASSUME NEW f, NEW ks
    PROVE  DOMAIN Covered(f, ks) \subseteq DOMAIN ks
<1>1. DirectPaths(f, ks) \subseteq DOMAIN ks
  BY DEF DirectPaths, WithShape
<1>2. \A v : Resolve(f, v, ks) \subseteq DOMAIN ks
  BY DEF Resolve, WithShape
<1> QED
  BY <1>1, <1>2 DEF Covered

LEMMA TestsArePart ==
    ASSUME NEW f, NEW ks, Sources(ks), NEW paths, DOMAIN ks \subseteq paths
    PROVE  /\ PartOf(TestCovers(f, ks), f, paths)
           /\ \A e \in TestCovers(f, ks).edges : e.kind \notin OwnKinds
<1> DEFINE covered == Covered(f, ks)
           kept    == {p \in DOMAIN covered :
                         Cardinality({q \in DOMAIN covered : Rank(q) < Rank(p)}) < MaxTargets}
           N       == {FileNode(ks[p]) : p \in kept}
           edges   == {Edge("test_covers_implementation", FileNode(f), FileNode(ks[p]), covered[p], TRUE) : p \in kept}
<1>1. TestCovers(f, ks) \in {Nothing, Part(N, edges)}
  BY DEF TestCovers
<1>2. kept \subseteq DOMAIN ks
  BY CoveredAreKnown
<1> HIDE DEF kept
<1>3. \A n \in N : NodeOf(n, paths)
  BY <1>2, NodesOfKnown
<1>4. \A e \in edges : /\ IsBare(e) /\ e.kind \notin OwnKinds
                       /\ e.from = FileNode(f).id /\ \E n \in N : e.to = n.id
  BY DEF Edge, IsBare, OwnKinds
<1> HIDE DEF N, edges
<1>5. /\ PartOf(Part(N, edges), f, paths)
      /\ \A e \in Part(N, edges).edges : e.kind \notin OwnKinds
  BY <1>3, <1>4, MentionsOfNodes
<1>6. Nothing.edges = {}
  BY DEF Nothing
<1> QED
  BY <1>1, <1>5, <1>6, NothingIsPart

LEMMA MentionsArePart ==
    ASSUME NEW f, NEW ks, Sources(ks), NEW paths, DOMAIN ks \subseteq paths
    PROVE  /\ PartOf(DocMentions(f, ks), f, paths)
           /\ \A e \in DocMentions(f, ks).edges : e.kind \notin OwnKinds
<1> DEFINE files == {p \in DOMAIN ks \ {f.path} : PathMention(f, p) > 0}
           symbols(p) == {SymbolNode(ks[p], SymbolAt(ks[p], l)) :
               l \in {m \in Locators(ks[p]) :
                        /\ Defined(ks, SymbolAt(ks[p], m).name) = 1
                        /\ Quotes(f, <<SymbolAt(ks[p], m).name>>)}}
           keys(p) == IF ~IsConfig(ks[p]) \/ Unparsed(ks[p]) THEN {}
                      ELSE {KeyNode(ks[p], i) :
                              i \in {j \in KeyLines(ks[p]) : Quotes(f, KeyPath(ks[p], j))}}
           mention(kind, nodes) == Part(nodes, {Edge(kind, FileNode(f), n, 72, TRUE) : n \in nodes})
           N     == {FileNode(ks[p]) : p \in files}
           links == {Edge("doc_mentions_file", FileNode(f), FileNode(ks[p]), PathMention(f, p), FALSE)
                        : p \in files}
           S     == UNION {symbols(p) : p \in DOMAIN ks}
           K     == UNION {keys(p) : p \in DOMAIN ks}
           parts == {Part(N, links), mention("doc_mentions_symbol", S), mention("doc_mentions_config_key", K)}
<1>1. DocMentions(f, ks) \in {Nothing, Merge(parts)}
  BY DEF DocMentions
<1>2. \A n \in N : NodeOf(n, paths)
  BY NodesOfKnown
<1>3. ASSUME NEW n \in S  PROVE NodeOf(n, paths)
  <2>1. PICK p \in DOMAIN ks : \E s : n = SymbolNode(ks[p], s)
    OBVIOUS
  <2> QED
    BY <2>1, NodesOfKnown
<1>4. ASSUME NEW n \in K  PROVE NodeOf(n, paths)
  <2>1. PICK p \in DOMAIN ks : \E i : n = KeyNode(ks[p], i)
    OBVIOUS
  <2> QED
    BY <2>1, NodesOfKnown
<1>5. \A e \in links : /\ IsBare(e) /\ e.kind \notin OwnKinds
                       /\ e.from = FileNode(f).id /\ \E n \in N : e.to = n.id
  BY DEF Edge, IsBare, OwnKinds
<1> HIDE DEF N, links, S, K
<1>6. ASSUME NEW kind \in {"doc_mentions_symbol", "doc_mentions_config_key"}, NEW nodes,
             \A n \in nodes : NodeOf(n, paths)
      PROVE  /\ PartOf(mention(kind, nodes), f, paths)
             /\ \A e \in mention(kind, nodes).edges : e.kind \notin OwnKinds
  <2> DEFINE edges == {Edge(kind, FileNode(f), n, 72, TRUE) : n \in nodes}
  <2>1. \A e \in edges : /\ IsBare(e) /\ e.kind \notin OwnKinds
                         /\ e.from = FileNode(f).id /\ \E n \in nodes : e.to = n.id
    BY DEF Edge, IsBare, OwnKinds
  <2> HIDE DEF edges
  <2>2. /\ PartOf(Part(nodes, edges), f, paths)
        /\ \A e \in Part(nodes, edges).edges : e.kind \notin OwnKinds
    BY <1>6, <2>1, MentionsOfNodes
  <2> QED
    BY <2>2 DEF edges
<1>7. /\ PartOf(Part(N, links), f, paths)
      /\ \A e \in Part(N, links).edges : e.kind \notin OwnKinds
  BY <1>2, <1>5, MentionsOfNodes
<1> HIDE DEF mention
<1>8. \A part \in parts : PartOf(part, f, paths) /\ \A e \in part.edges : e.kind \notin OwnKinds
  BY <1>3, <1>4, <1>6, <1>7
<1> HIDE DEF parts
<1>9. PartOf(Merge(parts), f, paths) /\ \A e \in Merge(parts).edges : e.kind \notin OwnKinds
  <2>1. \A part \in parts : PartOf(part, f, paths)
    BY <1>8
  <2>2. PartOf(Merge(parts), f, paths)
    BY <2>1, MergedParts
  <2>3. \A e \in Merge(parts).edges : \E part \in parts : e \in part.edges
    BY DEF Merge, Part
  <2> QED
    BY <1>8, <2>2, <2>3
<1>10. Nothing.edges = {}
  BY DEF Nothing
<1> QED
  BY <1>1, <1>9, <1>10, NothingIsPart

\* What is extracted of a file: edges whose nodes come with them, to nodes that name
\* their owner; those of a file's own kinds are its own, whatever the other sources.
LEMMA ExtractIsPart ==
    ASSUME NEW p \in Path, NEW f, SourceOf(f, p), NEW ks, Sources(ks),
           NEW paths, DOMAIN ks \subseteq paths, p \in paths
    PROVE  /\ PartOf(Extract(f, ks), f, paths)
           /\ \A e \in Extract(f, ks).edges : \E n \in Extract(f, ks).nodes : e.from = n.id
           /\ {e \in Extract(f, ks).edges : e.kind \in OwnKinds} = Own(f).edges
           /\ OwnedBy(Own(f), p)
<1> DEFINE self  == Part({FileNode(f)}, {})
           parts == {Own(f), self, TestCovers(f, ks), DocMentions(f, ks)}
<1>1. f.path = p
  BY DEF SourceOf
<1>2. PartOf(Own(f), f, {p}) /\ OwnedBy(Own(f), p)
  BY <1>1, OwnIsOwn
<1>3. PartOf(Own(f), f, paths)
  BY <1>2 DEF PartOf, NodeOf
<1>4. self = [nodes |-> {FileNode(f)}, edges |-> {}]
  BY DEF Part
<1>5. PartOf(self, f, paths)
  <2>1. self = [nodes |-> self.nodes, edges |-> self.edges] /\ self.nodes = {FileNode(f)} /\ self.edges = {}
    BY <1>4
  <2>2. NodeOf(FileNode(f), paths)
    BY <1>1, FileNodes DEF NodeOf
  <2> HIDE DEF self
  <2> QED
    BY <2>1, <2>2 DEF PartOf
<1>6. /\ PartOf(TestCovers(f, ks), f, paths) /\ PartOf(DocMentions(f, ks), f, paths)
      /\ \A e \in TestCovers(f, ks).edges : e.kind \notin OwnKinds
      /\ \A e \in DocMentions(f, ks).edges : e.kind \notin OwnKinds
  BY TestsArePart, MentionsArePart
<1>7. self.edges = {} /\ FileNode(f) \in self.nodes
  BY <1>4
<1> HIDE DEF self
<1>8. \A part \in parts : PartOf(part, f, paths)
  BY <1>3, <1>5, <1>6
<1>9. Extract(f, ks) = Merge(parts)
  BY DEF Extract, self
<1>10. /\ Extract(f, ks).edges
              = Own(f).edges \cup self.edges \cup TestCovers(f, ks).edges \cup DocMentions(f, ks).edges
       /\ self.nodes \subseteq Extract(f, ks).nodes
  BY <1>9 DEF Merge, Part
<1> HIDE DEF parts
<1>11. PartOf(Extract(f, ks), f, paths)
  BY <1>8, <1>9, MergedParts
<1>12. \A e \in Extract(f, ks).edges : \E n \in Extract(f, ks).nodes : e.from = n.id
  BY <1>7, <1>10, <1>11 DEF PartOf
<1>13. {e \in Extract(f, ks).edges : e.kind \in OwnKinds} = Own(f).edges
  BY <1>2, <1>6, <1>7, <1>10 DEF OwnedBy
<1> QED
  BY <1>2, <1>11, <1>12, <1>13

-----------------------------------------------------------------------------
(* The invariant.                                                          *)

IsStored(e) == e = [kind |-> e.kind, from |-> e.from, to |-> e.to, conf |-> e.conf, heur |-> e.heur,
                    src |-> e.src, stale |-> e.stale, at |-> e.at]

\* The nodes of an edge are there; a private node names its owner; the edges of a
\* file's own kinds lead to nodes of that file, but for those that files share.
GraphOk(g) ==
    /\ g = [nodes |-> g.nodes, edges |-> g.edges, runs |-> g.runs, builds |-> g.builds, last |-> g.last]
    /\ \A e \in g.edges : IsStored(e) /\ Anchored(g.nodes, e)
    /\ \A e \in g.edges : e.kind \in OwnKinds \ SharedKinds => e.to[1] \in PrivateKinds /\ Owner(e.to) = e.src
    /\ \A id \in DOMAIN g.nodes : id[1] \in PrivateKinds => g.nodes[id].src = Owner(id)

\* No active edge leads to a node last written for one of some files.
Clear(g, paths) == \A e \in g.edges : ~e.stale => g.nodes[e.to].src \notin paths

TypeOk == /\ disk \in [Path -> Text \cup {Absent}] /\ \A p \in Path : disk[p] \in TextOf[p] \cup {Absent}
          /\ index \in [Path -> Content] /\ \A p \in Path : index[p] \in TextOf[p] \cup HalfOf[p] \cup {Absent}
          /\ gone \subseteq Path

\* What is indexed of a file whose last change was handled.
IndexFollowsDisk ==
    \A p \in Path \ changed :
        \/ disk[p] \in Blocked
        \/ index[p] = disk[p]
        \/ disk[p] \in Chunkless /\ index[p] = Absent

\* Sources of indexed files, with the chunks of the index.
IndexHas(source, p, ix) ==
    /\ p \in Path /\ ix[p] # Absent
    /\ source.path = p /\ source.chunks = Source(p, ix[p], ix[p]).chunks
OfIndex(sources, ix) == \A p \in DOMAIN sources : IndexHas(sources[p], p, ix)
\* They miss no file, but for those changed since and those that may not be read.
MissesNone(sources, ix, dk, ch) ==
    \A p \in Path : ix[p] # Absent => p \in DOMAIN sources \cup ch \/ dk[p] \in Blocked

RebuildOk ==
    /\ mode = "down" => rebuild.by # "server"
    /\ Busy => /\ Locked \/ mode = "down"
               /\ rebuild = [by |-> rebuild.by, left |-> rebuild.left, sources |-> rebuild.sources]
               /\ OfIndex(rebuild.sources, index) /\ rebuild.left \subseteq DOMAIN rebuild.sources
               /\ Locked => MissesNone(rebuild.sources, index, disk, changed)
               /\ \A p \in DOMAIN rebuild.sources :
                     \/ p \in changed \/ disk[p] \in Blocked
                     \/ rebuild.sources[p] = Source(p, index[p], index[p])

\* The cache of sources keeps to the index, but for files changed since or blocked: a
\* handler that failed left those as they were.
Agrees(sources, ix, dk, ch) ==
    \A p \in DOMAIN sources :
        /\ p \in Path /\ sources[p].path = p
        /\ p \in ch \/ dk[p] \in Blocked \/ IndexHas(sources[p], p, ix)
KnownHas(sources, ix, dk, ch, told) ==
    Agrees(sources, ix, dk, ch) /\ MissesNone(sources, ix, dk, ch) /\ told \cap DOMAIN sources = {}

KnownOk == /\ mode = "down" => ~known.loaded
           /\ known.loaded => KnownHas(known.sources, index, disk, changed, gone)

GoneOk == \A p \in gone : index[p] = Absent

Sound == TypeOk /\ IndexFollowsDisk /\ GoneOk /\ RebuildOk /\ KnownOk

-----------------------------------------------------------------------------
(* What the transactions of the repository keep.                           *)

LEMMA EmptyIsOk == GraphOk(EmptyGraph) /\ EmptyGraph.edges = {}
BY DEF GraphOk, EmptyGraph

\* The nodes there were stay; those written anew name the file of one that is new.
LEMMA Upserted ==
    ASSUME NEW nodes, NEW new
    PROVE  /\ DOMAIN nodes \subseteq DOMAIN Upsert(nodes, new)
           /\ \A n \in new : /\ n.id \in DOMAIN Upsert(nodes, new)
                             /\ \E m \in new : m.id = n.id /\ Upsert(nodes, new)[n.id].src = m.src
           /\ \A id \in DOMAIN Upsert(nodes, new) :
                 \/ \E n \in new : n.id = id
                 \/ id \in DOMAIN nodes /\ Upsert(nodes, new)[id] = nodes[id]
<1> DEFINE of(id) == {n \in new : n.id = id}
           row(id) == [src |-> (CHOOSE n \in of(id) : TRUE).src, line |-> Max({n.line : n \in of(id)})]
<1>1. Upsert(nodes, new)
        = [id \in {n.id : n \in new} \cup DOMAIN nodes |-> IF of(id) # {} THEN row(id) ELSE nodes[id]]
  BY DEF Upsert
<1>2. \A id \in {n.id : n \in new} : of(id) # {} /\ (CHOOSE n \in of(id) : TRUE) \in of(id)
  OBVIOUS
<1>3. \A id : row(id).src = (CHOOSE n \in of(id) : TRUE).src
  OBVIOUS
<1>4. \A id : id \notin {n.id : n \in new} => of(id) = {}
  OBVIOUS
<1> HIDE DEF row
<1> QED
  BY <1>1, <1>2, <1>3, <1>4

\* An edge stored is the edge given, with its owner.
StoredFrom(s, e, path) ==
    /\ IsStored(s) /\ s.src = path /\ s.kind = e.kind /\ s.from = e.from /\ s.to = e.to
    /\ Bare(s) = Bare(e) /\ (IsBare(e) => Bare(s) = e)

LEMMA StoredEdges ==
    \A e, path, now : /\ StoredFrom(Stored(e, path, now), e, path) /\ ~Stored(e, path, now).stale
                     /\ StoredFrom(Outdated(e, now), e, e.src) /\ Outdated(e, now).stale
BY DEF StoredFrom, Outdated, IsBare, IsStored, Bare, Stored

\* What is written of a file replaces its edges, and no others.
LEMMA Replaced ==
    ASSUME NEW g, GraphOk(g), NEW p, NEW f, NEW part, NEW paths, NEW run, NEW now,
           PartOf(part, f, paths),
           \A e \in part.edges : \E n \in part.nodes : e.from = n.id,
           OwnedBy([nodes |-> {}, edges |-> {e \in part.edges : e.kind \in OwnKinds}], p)
    PROVE  LET h == ReplaceEdges(g, p, part, run, now)
           IN  /\ GraphOk(h)
               /\ h.edges = {e \in g.edges : e.src # p} \cup {Stored(e, p, now) : e \in part.edges}
               /\ \A D : Clear(g, D) /\ D \cap (paths \cup {NoPath}) = {} => Clear(h, D)
<1> DEFINE nodes == Upsert(g.nodes, part.nodes)
           new   == {Stored(e, p, now) : e \in part.edges}
           edges == {e \in g.edges : e.src # p} \cup new
           h == ReplaceEdges(g, p, part, run, now)
<1>1. /\ DOMAIN g.nodes \subseteq DOMAIN nodes
      /\ \A n \in part.nodes : /\ n.id \in DOMAIN nodes
                               /\ \E m \in part.nodes : m.id = n.id /\ nodes[n.id].src = m.src
      /\ \A id \in DOMAIN nodes :
            \/ \E n \in part.nodes : n.id = id
            \/ id \in DOMAIN g.nodes /\ nodes[id] = g.nodes[id]
  BY Upserted
<1> HIDE DEF nodes
<1>2. \A e \in part.edges : Anchored(nodes, e)
  BY <1>1 DEF PartOf, Anchored
<1>3. /\ h = [nodes |-> nodes, edges |-> edges, runs |-> With(g.runs, p, run), builds |-> g.builds, last |-> g.last]
  BY <1>2 DEF ReplaceEdges, GraphOk, nodes
<1>4. h.nodes = nodes /\ h.edges = edges
      /\ h = [nodes |-> h.nodes, edges |-> h.edges, runs |-> h.runs, builds |-> h.builds, last |-> h.last]
  BY <1>3
<1> HIDE DEF h
<1>5. \A s \in new : \E e \in part.edges :
          /\ IsStored(s) /\ s.src = p /\ s.kind = e.kind /\ s.from = e.from /\ s.to = e.to
  <2>1. \A e \in part.edges : IsBare(e)
    BY DEF PartOf
  <2> QED
    BY <2>1, StoredEdges DEF StoredFrom
<1> HIDE DEF new
<1>6. \A e \in edges : IsStored(e) /\ Anchored(nodes, e)
  BY <1>1, <1>2, <1>5 DEF GraphOk, Anchored
<1>7. \A e \in edges : e.kind \in OwnKinds \ SharedKinds => e.to[1] \in PrivateKinds /\ Owner(e.to) = e.src
  BY <1>5 DEF GraphOk, OwnedBy
<1>8. \A id \in DOMAIN nodes : id[1] \in PrivateKinds => nodes[id].src = Owner(id)
  BY <1>1 DEF GraphOk, PartOf, NodeOf
<1>9. GraphOk(h)
  BY <1>4, <1>6, <1>7, <1>8 DEF GraphOk
<1>10. \A n \in part.nodes : nodes[n.id].src \in paths \cup {NoPath}
  BY <1>1 DEF PartOf, NodeOf
<1>11. ASSUME NEW D, Clear(g, D), D \cap (paths \cup {NoPath}) = {}
       PROVE  Clear(h, D)
  <2>1. \A e \in new : \E n \in part.nodes : e.to = n.id
    BY <1>5 DEF PartOf
  <2>2. \A e \in g.edges : e.to \in DOMAIN g.nodes
    BY DEF GraphOk, Anchored
  <2>3. \A e \in new : nodes[e.to].src \notin D
    BY <1>10, <1>11, <2>1
  <2>4. \A e \in g.edges : ~e.stale => nodes[e.to].src \notin D
    BY <1>1, <1>10, <1>11, <2>2 DEF Clear
  <2> QED
    BY <1>4, <2>3, <2>4 DEF Clear
<1> QED
  BY <1>4, <1>9, <1>11 DEF h, new

LEMMA NewEdges ==
    ASSUME NEW g, NEW E,
           g = [nodes |-> g.nodes, edges |-> g.edges, runs |-> g.runs, builds |-> g.builds, last |-> g.last]
    PROVE  [g EXCEPT !.edges = E]
             = [nodes |-> g.nodes, edges |-> E, runs |-> g.runs, builds |-> g.builds, last |-> g.last]
<1> DEFINE n == g.nodes
           e == g.edges
           r == g.runs
           b == g.builds
           l == g.last
<1> HIDE DEF n, e, r, b, l
<1>1. g = [nodes |-> n, edges |-> e, runs |-> r, builds |-> b, last |-> l]
  BY DEF n, e, r, b, l
<1> QED
  BY <1>1

\* Marking edges changes none but the active ones to the nodes of that path.
LEMMA Marked ==
    ASSUME NEW g, GraphOk(g), NEW p, NEW now
    PROVE  LET h == MarkEdgesToSourceStale(g, p, now)
           IN  /\ GraphOk(h)
               /\ \A e \in h.edges : \E d \in g.edges :
                     /\ Bare(d) = Bare(e) /\ d.src = e.src /\ d.kind = e.kind
                     /\ e.stale \/ e = d
               /\ \A d \in g.edges : ~d.stale /\ g.nodes[d.to].src # p => d \in h.edges
               /\ \A D : Clear(g, D) => Clear(h, D \cup {p})
<1> DEFINE h == MarkEdgesToSourceStale(g, p, now)
           into(e) == ~e.stale /\ e.to \in DOMAIN g.nodes /\ g.nodes[e.to].src = p
           mark(e) == Outdated(e, now)
           edges == {IF into(e) THEN mark(e) ELSE e : e \in g.edges}
<1>1. h = [nodes |-> g.nodes, edges |-> edges, runs |-> g.runs, builds |-> g.builds, last |-> g.last]
  BY NewEdges DEF MarkEdgesToSourceStale, GraphOk
<1> HIDE DEF edges
<1>2. h.nodes = g.nodes /\ h.edges = edges
      /\ h = [nodes |-> h.nodes, edges |-> h.edges, runs |-> h.runs, builds |-> h.builds, last |-> h.last]
  BY <1>1
<1>3. ASSUME NEW e \in g.edges
      PROVE  /\ IsStored(mark(e)) /\ Bare(mark(e)) = Bare(e) /\ mark(e).stale
             /\ mark(e).src = e.src /\ mark(e).kind = e.kind /\ mark(e).from = e.from /\ mark(e).to = e.to
  BY StoredEdges DEF StoredFrom
<1> HIDE DEF h, mark, into
<1>4. \A e \in edges : \E d \in g.edges : (e = d /\ ~into(d)) \/ (e = mark(d) /\ into(d))
  BY DEF edges
<1>5. \A d \in g.edges : ~into(d) => d \in edges
  BY DEF edges
<1>6. \A e \in edges : IsStored(e) /\ Anchored(g.nodes, e)
  BY <1>3, <1>4 DEF GraphOk, Anchored
<1>7. \A e \in edges : e.kind \in OwnKinds \ SharedKinds => e.to[1] \in PrivateKinds /\ Owner(e.to) = e.src
  BY <1>3, <1>4 DEF GraphOk
<1>8. GraphOk(h)
  BY <1>2, <1>6, <1>7 DEF GraphOk
<1>9. \A e \in edges : \E d \in g.edges :
          Bare(d) = Bare(e) /\ d.src = e.src /\ d.kind = e.kind /\ (e.stale \/ e = d)
  BY <1>3, <1>4
<1>10. \A e \in g.edges : e.to \in DOMAIN g.nodes
  BY DEF GraphOk, Anchored
<1>11. ASSUME NEW D, Clear(g, D) PROVE Clear(h, D \cup {p})
  <2>1. \A e \in edges : ~e.stale => e \in g.edges /\ ~into(e)
    BY <1>3, <1>4
  <2> QED
    BY <1>2, <1>10, <1>11, <2>1 DEF Clear, into
<1> QED
  BY <1>2, <1>5, <1>8, <1>9, <1>11 DEF h, into

\* Purging deletes stale edges only.
LEMMA Purged ==
    ASSUME NEW g, GraphOk(g), NEW now
    PROVE  LET h == PurgeStaleEdges(g, now)
           IN  /\ GraphOk(h) /\ h.edges \subseteq g.edges
               /\ \A e \in g.edges : ~e.stale => e \in h.edges
               /\ \A D : Clear(g, D) => Clear(h, D)
<1> DEFINE h == PurgeStaleEdges(g, now)
           edges == {e \in g.edges : ~(e.stale /\ e.at + Retention < now)}
<1>1. h = [nodes |-> g.nodes, edges |-> edges, runs |-> g.runs, builds |-> g.builds, last |-> g.last]
  BY NewEdges DEF PurgeStaleEdges, GraphOk
<1>2. h.nodes = g.nodes /\ h.edges = edges
      /\ h = [nodes |-> h.nodes, edges |-> h.edges, runs |-> h.runs, builds |-> h.builds, last |-> h.last]
  BY <1>1
<1> HIDE DEF h
<1> QED
  BY <1>2 DEF GraphOk, Clear, h

\* A build recorded leaves nodes and edges.
LEMMA Recorded ==
    ASSUME NEW g, GraphOk(g), NEW kind, NEW status, NEW now
    PROVE  LET h == RecordBuild(g, kind, status, now)
           IN  /\ GraphOk(h) /\ h.edges = g.edges /\ h.nodes = g.nodes
               /\ \A D : Clear(g, D) => Clear(h, D)
<1> DEFINE h == RecordBuild(g, kind, status, now)
           B == With(g.builds, kind, [status |-> status, at |-> now])
<1>1. h = [nodes |-> g.nodes, edges |-> g.edges, runs |-> g.runs, builds |-> B, last |-> kind]
  <2> DEFINE n == g.nodes
             e == g.edges
             r == g.runs
             b == g.builds
             l == g.last
  <2>1. g = [nodes |-> n, edges |-> e, runs |-> r, builds |-> b, last |-> l]
    BY DEF GraphOk
  <2>2. h = [g EXCEPT !.builds = B, !.last = kind]
    BY DEF RecordBuild
  <2> HIDE DEF h, B, n, e, r, b, l
  <2>3. h = [nodes |-> n, edges |-> e, runs |-> r, builds |-> B, last |-> kind]
    BY <2>1, <2>2
  <2> QED
    BY <2>3 DEF n, e, r
<1> HIDE DEF B
<1>2. h.nodes = g.nodes /\ h.edges = g.edges
      /\ h = [nodes |-> h.nodes, edges |-> h.edges, runs |-> h.runs, builds |-> h.builds, last |-> h.last]
  BY <1>1
<1> HIDE DEF h
<1> QED
  BY <1>2 DEF GraphOk, Clear, h

LEMMA FailureRecorded ==
    ASSUME NEW g, GraphOk(g), NEW fault
    PROVE  /\ GraphOk(Failed(g, fault)) /\ Failed(g, fault).edges = g.edges
           /\ \A D : Clear(g, D) => Clear(Failed(g, fault), D)
BY Recorded DEF Failed

-----------------------------------------------------------------------------
(* What is indexed, and the sources that are known.                        *)

\* A source is of its path, and has the chunks of its second text.
LEMMA SourceFacts ==
    \A p \in Path, t, u \in Content :
        Source(p, t, u).path = p /\ Source(p, t, u).chunks = Source(p, u, u).chunks
BY OverlayAssumption DEF OverlayAssumption

LEMMA TextFacts == /\ Absent \notin Text /\ Text \cup {Absent} \subseteq Content
                   /\ \A p \in Path : \A t \in TextOf[p] : t \in Text /\ t # Absent
                   /\ \A p \in Path : \A t \in HalfOf[p] : t \in Content /\ t # Absent
<1>1. /\ \A p \in Path : \A t \in TextOf[p] : t \in Text /\ t # Absent /\ t \in Content
      /\ \A p \in Path : \A t \in HalfOf[p] : t \in Content /\ t # Absent
  BY OverlayAssumption DEF OverlayAssumption, Text, Content
<1>2. \A t \in Text : \E p \in Path : t \in TextOf[p]
  BY DEF Text
<1>3. Absent \in Content
  BY DEF Content
<1> QED
  BY <1>1, <1>2, <1>3

\* No rebuild is under way while the server handles a file.
LEMMA ServesIdle == RebuildOk /\ Serves => ~Busy
BY DEF RebuildOk, Serves

\* What the cache is loaded from agrees with the index.
LEMMA KnownFromFacts ==
    ASSUME TypeOk, NEW ix, ix \in [Path -> Content], NEW ch,
           \A p \in Path \ ch : disk[p] \in Blocked \/ ix[p] = disk[p] \/ ix[p] = Absent
    PROVE  OfIndex(KnownFrom(ix), ix) /\ MissesNone(KnownFrom(ix), ix, disk, ch)
<1> DEFINE of  == {q \in Path : ix[q] # Absent /\ (IsRead(q, ix) => disk[q] \notin {Absent} \cup Blocked)}
           text(p) == IF IsRead(p, ix) THEN disk[p] ELSE Absent
<1>1. KnownFrom(ix) = [p \in of |-> Source(p, text(p), ix[p])]
  BY DEF KnownFrom
<1>2. \A p \in Path : text(p) \in Content /\ ix[p] \in Content
  BY TextFacts DEF TypeOk
<1>3. of \subseteq {q \in Path : ix[q] # Absent}
  OBVIOUS
<1>4. \A p \in Path : ix[p] # Absent /\ p \notin of => p \in ch \/ disk[p] \in Blocked
  OBVIOUS
<1> HIDE DEF of, text
<1>5. DOMAIN KnownFrom(ix) = of /\ \A p \in of : KnownFrom(ix)[p] = Source(p, text(p), ix[p])
  BY <1>1
<1>6. OfIndex(KnownFrom(ix), ix)
  BY <1>2, <1>3, <1>5, SourceFacts DEF OfIndex, IndexHas
<1> QED
  BY <1>4, <1>5, <1>6 DEF MissesNone

\* So do the sources of a rebuild of the index.
LEMMA SourcesFromFacts ==
    ASSUME TypeOk, IndexFollowsDisk
    PROVE  /\ OfIndex(SourcesFrom(index), index) /\ MissesNone(SourcesFrom(index), index, disk, changed)
           /\ \A p \in DOMAIN SourcesFrom(index) :
                 \/ p \in changed \/ disk[p] \in Blocked
                 \/ SourcesFrom(index)[p] = Source(p, index[p], index[p])
<1> DEFINE of == {q \in Path : index[q] # Absent /\ disk[q] \notin {Absent} \cup Blocked}
<1>1. DOMAIN SourcesFrom(index) = of /\ \A p \in of : SourcesFrom(index)[p] = Source(p, disk[p], index[p])
  BY DEF SourcesFrom
<1>2. \A p \in Path : disk[p] \in Content /\ index[p] \in Content
  BY TextFacts DEF TypeOk
<1>3. OfIndex(SourcesFrom(index), index)
  BY <1>1, <1>2, SourceFacts DEF OfIndex, IndexHas
<1>4. MissesNone(SourcesFrom(index), index, disk, changed)
  BY <1>1 DEF MissesNone, IndexFollowsDisk
<1>5. \A p \in of : p \in changed \/ index[p] = disk[p]
  BY DEF IndexFollowsDisk
<1> QED
  BY <1>1, <1>3, <1>4, <1>5

\* The source of a file just indexed joins those known.
LEMMA RememberFacts ==
    ASSUME NEW p \in Path, NEW ks, NEW f, f.path = p, NEW ix, NEW ch, NEW next, NEW told,
           IndexHas(f, p, ix) \/ p \in next, ch \subseteq next \cup {p}, p \notin told,
           \A q \in DOMAIN ks \ {p} : /\ q \in Path /\ ks[q].path = q /\ q \notin told
                                      /\ q \in ch \/ disk[q] \in Blocked \/ IndexHas(ks[q], q, ix),
           MissesNone(ks, ix, disk, ch)
    PROVE  KnownHas(WithSource(ks, f), ix, disk, next, told)
<1>1. /\ DOMAIN WithSource(ks, f) = DOMAIN ks \cup {p}
      /\ \A q \in DOMAIN ks \cup {p} : WithSource(ks, f)[q] = IF q = p THEN f ELSE ks[q]
  BY DEF WithSource, With
<1>2. Agrees(WithSource(ks, f), ix, disk, next)
  BY <1>1 DEF Agrees
<1> QED
  BY <1>1, <1>2 DEF MissesNone, KnownHas

\* What the handler of a file leaves as it is.
LEMMA IndexFileSteps ==
    ASSUME Sound, NEW p \in Path, NEW fault, IndexFile(p, fault)
    PROVE  /\ Serves /\ ~Busy /\ p \in changed
           /\ disk[p] \in TextOf[p] /\ disk[p] \notin Chunkless \cup Blocked
           /\ disk[p] \in Text /\ disk[p] # Absent
           /\ index'[p] = disk[p] \/ (index'[p] \in HalfOf[p] /\ p \in changed')
           /\ index'[p] \in Content \ {Absent} /\ index'[p] \in TextOf[p] \cup HalfOf[p]
           /\ DOMAIN index = Path /\ index' \in [Path -> Content]
           /\ \A q \in Path \ {p} : index'[q] = index[q]
           /\ changed \subseteq changed' \cup {p} /\ changed' \subseteq changed /\ gone' = gone \ {p}
           /\ disk' = disk /\ mode' = mode /\ rebuild' = rebuild
           /\ UpdateGraph(p, index', fault)
<1>1. PICK held \in {disk[p]} \cup HalfOf[p] :
          /\ index' = [index EXCEPT ![p] = held] /\ UpdateGraph(p, [index EXCEPT ![p] = held], fault)
          /\ changed' = IF held = disk[p] THEN changed \ {p} ELSE changed
  BY DEF IndexFile
<1>2. /\ Serves /\ p \in changed /\ disk[p] \in Text \ (Chunkless \cup Blocked) /\ gone' = gone \ {p}
      /\ disk' = disk /\ mode' = mode /\ rebuild' = rebuild
  BY DEF IndexFile, Readable
<1>3. disk[p] \in TextOf[p] /\ disk[p] # Absent /\ ~Busy
  BY <1>2, TextFacts, ServesIdle DEF Sound, TypeOk
<1>4. index \in [Path -> Content] /\ held \in Content \ {Absent}
  BY <1>1, <1>2, <1>3, TextFacts DEF Sound, TypeOk
<1>5. /\ DOMAIN index = Path /\ index' \in [Path -> Content] /\ index'[p] = held
      /\ \A q \in Path \ {p} : index'[q] = index[q]
  BY <1>1, <1>4
<1> QED
  BY <1>1, <1>2, <1>3, <1>4, <1>5

LEMMA IndexFileSound ==
    ASSUME Sound, NEW p \in Path, NEW fault, IndexFile(p, fault)
    PROVE  Sound'
<1>1. /\ Serves /\ ~Busy /\ p \in changed
      /\ disk[p] \in TextOf[p] /\ disk[p] \notin Chunkless \cup Blocked
      /\ disk[p] \in Text /\ disk[p] # Absent
      /\ index'[p] = disk[p] \/ (index'[p] \in HalfOf[p] /\ p \in changed')
      /\ index'[p] \in Content \ {Absent} /\ index'[p] \in TextOf[p] \cup HalfOf[p]
      /\ DOMAIN index = Path /\ index' \in [Path -> Content]
      /\ \A q \in Path \ {p} : index'[q] = index[q]
      /\ changed \subseteq changed' \cup {p} /\ changed' \subseteq changed /\ gone' = gone \ {p}
      /\ disk' = disk /\ mode' = mode /\ rebuild' = rebuild
      /\ UpdateGraph(p, index', fault)
  BY IndexFileSteps
<1>2. TypeOk'
  BY <1>1 DEF Sound, TypeOk
<1>3. IndexFollowsDisk'
  BY <1>1 DEF Sound, IndexFollowsDisk
<1>4. GoneOk'
  BY <1>1 DEF Sound, TypeOk, GoneOk
<1>5. RebuildOk'
  BY <1>1 DEF Sound, RebuildOk, Busy, Serves
<1>6. KnownOk'
  <2> DEFINE f == Source(p, disk[p], disk[p])
             cached == IF known.loaded THEN known ELSE Loaded(KnownFrom(index'))
  <2>1. f.path = p /\ (IndexHas(f, p, index') \/ p \in changed')
    BY <1>1, SourceFacts, TextFacts DEF IndexHas
  <2>2. /\ \A q \in DOMAIN cached.sources \ {p} :
              /\ q \in Path /\ cached.sources[q].path = q /\ q \notin gone'
              /\ q \in changed \/ disk[q] \in Blocked \/ IndexHas(cached.sources[q], q, index')
        /\ MissesNone(cached.sources, index', disk, changed)
        /\ cached.loaded
    <3>1. CASE known.loaded
      <4>1. KnownHas(known.sources, index, disk, changed, gone)
        BY <3>1 DEF Sound, KnownOk
      <4>2. \A q \in DOMAIN known.sources \ {p} :
              /\ q \in Path /\ known.sources[q].path = q /\ q \notin gone'
              /\ q \in changed \/ disk[q] \in Blocked \/ IndexHas(known.sources[q], q, index')
        BY <1>1, <4>1 DEF KnownHas, Agrees, IndexHas
      <4>3. MissesNone(known.sources, index', disk, changed)
        BY <1>1, <4>1 DEF KnownHas, MissesNone
      <4> QED
        BY <3>1, <4>2, <4>3
    <3>2. CASE ~known.loaded
      <4>1. \A q \in Path \ changed : disk[q] \in Blocked \/ index'[q] = disk[q] \/ index'[q] = Absent
        BY <1>1 DEF Sound, IndexFollowsDisk
      <4>2. OfIndex(KnownFrom(index'), index') /\ MissesNone(KnownFrom(index'), index', disk, changed)
        BY <1>1, <4>1, KnownFromFacts DEF Sound
      <4>3. cached = [loaded |-> TRUE, sources |-> KnownFrom(index')]
        BY <3>2 DEF Loaded
      <4>4. cached.loaded /\ cached.sources = KnownFrom(index')
        BY <4>3
      <4> HIDE DEF cached
      <4> QED
        BY <1>4, <4>2, <4>4 DEF OfIndex, IndexHas, GoneOk
    <3> QED
      BY <3>1, <3>2
  <2>3. (known' = known /\ ~known.loaded) \/ known' = Loaded(WithSource(cached.sources, f))
    <3>1. cached.loaded /\ Remember(cached, f) = Loaded(WithSource(cached.sources, f))
      BY <2>2 DEF Remember
    <3> QED
      BY <1>1, <3>1 DEF UpdateGraph
  <2> HIDE DEF f, cached
  <2>4. KnownHas(WithSource(cached.sources, f), index', disk, changed', gone')
    BY <1>1, <2>1, <2>2, RememberFacts
  <2>5. mode' # "down"
    BY <1>1 DEF Serves
  <2> QED
    BY <1>1, <2>3, <2>4, <2>5 DEF KnownOk, Loaded
<1> QED
  BY <1>2, <1>3, <1>4, <1>5, <1>6 DEF Sound

\* A handler that failed.
LEMMA FailHandlingSteps ==
    ASSUME Sound, NEW p \in Path, FailHandling(p)
    PROVE  /\ Serves /\ ~Busy /\ p \in changed
           /\ index'[p] \in TextOf[p] \cup HalfOf[p] \cup {Absent} /\ index' \in [Path -> Content]
           /\ \A q \in Path \ {p} : index'[q] = index[q]
           /\ gone' = {q \in gone : index'[q] = Absent}
           /\ UNCHANGED <<disk, graph, known, mode, rebuild, changed, behind, bereft>>
<1>1. PICK held \in HalfOf[p] \cup {Absent, disk[p]} : index' = [index EXCEPT ![p] = held]
  BY DEF FailHandling
<1>2. held \in Content /\ held \in TextOf[p] \cup HalfOf[p] \cup {Absent} /\ index \in [Path -> Content]
  BY TextFacts DEF Sound, TypeOk
<1> QED
  BY <1>1, <1>2, ServesIdle DEF FailHandling, Sound

LEMMA FailHandlingSound ==
    ASSUME Sound, NEW p \in Path, FailHandling(p)
    PROVE  Sound'
<1>1. /\ Serves /\ ~Busy /\ p \in changed
      /\ index'[p] \in TextOf[p] \cup HalfOf[p] \cup {Absent} /\ index' \in [Path -> Content]
      /\ \A q \in Path \ {p} : index'[q] = index[q]
      /\ gone' = {q \in gone : index'[q] = Absent}
      /\ UNCHANGED <<disk, graph, known, mode, rebuild, changed, behind, bereft>>
  BY FailHandlingSteps
<1>2. TypeOk'
  BY <1>1 DEF Sound, TypeOk
<1>3. IndexFollowsDisk' /\ GoneOk'
  BY <1>1 DEF Sound, IndexFollowsDisk, GoneOk
<1>4. RebuildOk'
  BY <1>1 DEF Sound, RebuildOk, Busy, Serves
<1>5. KnownOk'
  <2> SUFFICES ASSUME known.loaded PROVE KnownHas(known.sources, index', disk, changed, gone')
    BY <1>1 DEF Sound, KnownOk
  <2>1. KnownHas(known.sources, index, disk, changed, gone)
    BY DEF Sound, KnownOk
  <2>2. Agrees(known.sources, index', disk, changed) /\ MissesNone(known.sources, index', disk, changed)
    BY <1>1, <2>1 DEF KnownHas, Agrees, MissesNone, IndexHas
  <2> QED
    BY <1>1, <2>1, <2>2 DEF KnownHas
<1> QED
  BY <1>2, <1>3, <1>4, <1>5 DEF Sound

\* A source that is forgotten is of no file of which the cache says anything.
LEMMA ForgetFacts ==
    ASSUME NEW p \in Path, NEW ix, NEW ch, ix[p] = Absent \/ p \in ch, \A q \in Path \ {p} : ix[q] = index[q],
           changed \subseteq ch \cup {p}, NEW told, told \subseteq gone \cup {p}, KnownOk
    PROVE  /\ Forget(known, p).loaded => KnownHas(Forget(known, p).sources, ix, disk, ch, told)
           /\ mode = "down" => ~Forget(known, p).loaded
<1> DEFINE rest == [q \in DOMAIN known.sources \ {p} |-> known.sources[q]]
<1>1. CASE known.loaded
  <2>1. KnownHas(known.sources, index, disk, changed, gone) /\ mode # "down"
    BY <1>1 DEF KnownOk
  <2>2. DOMAIN rest = DOMAIN known.sources \ {p} /\ \A q \in DOMAIN rest : rest[q] = known.sources[q]
    OBVIOUS
  <2>3. Forget(known, p) = Loaded(rest)
    BY <1>1 DEF Forget
  <2> HIDE DEF rest
  <2>4. Agrees(rest, ix, disk, ch)
    BY <2>1, <2>2 DEF KnownHas, Agrees, IndexHas
  <2>5. MissesNone(rest, ix, disk, ch) /\ told \cap DOMAIN rest = {}
    BY <2>1, <2>2 DEF KnownHas, MissesNone
  <2>6. Forget(known, p).sources = rest
    BY <2>3 DEF Loaded
  <2> QED
    BY <2>1, <2>4, <2>5, <2>6 DEF KnownHas
<1>2. CASE ~known.loaded
  BY <1>2 DEF Forget
<1> QED
  BY <1>1, <1>2

\* A file leaves the index, or stays there with its change pending.
LEMMA LeaveSteps ==
    ASSUME Sound, NEW p \in Path, NEW fault, Leave(p, fault)
    PROVE  /\ index' \in [Path -> Content] /\ \A q \in Path \ {p} : index'[q] = index[q]
           /\ index'[p] = Absent \/ (index' = index /\ (p \in changed => p \in changed'))
           /\ changed \subseteq changed' \cup {p} /\ known' = Forget(known, p)
           /\ p \in changed => p \in changed' \/ disk[p] \in {Absent} \cup Chunkless
<1>1. index \in [Path -> Content] /\ Absent \in Content
  BY TextFacts DEF Sound, TypeOk
<1> QED
  BY <1>1 DEF Leave

LEMMA LeavingSound ==
    ASSUME Sound, NEW p \in Path, NEW fault, NEW mark \in BOOLEAN, Serves, p \in changed,
           Leave(p, fault), DropGraph(p, mark, fault), UNCHANGED <<disk, mode, rebuild>>
    PROVE  Sound'
<1>1. /\ index' \in [Path -> Content] /\ \A q \in Path \ {p} : index'[q] = index[q]
      /\ index'[p] = Absent \/ (index' = index /\ p \in changed')
      /\ changed \subseteq changed' \cup {p} /\ known' = Forget(known, p)
      /\ p \in changed' \/ disk[p] \in {Absent} \cup Chunkless
  BY LeaveSteps
<1>2. gone' \subseteq gone \cup {p} /\ (p \in gone' => p \in gone \/ index'[p] = Absent)
  BY DEF DropGraph
<1>3. TypeOk'
  BY <1>1, <1>2 DEF Sound, TypeOk
<1>4. IndexFollowsDisk'
  BY <1>1 DEF Sound, IndexFollowsDisk
<1>5. GoneOk'
  BY <1>1, <1>2 DEF Sound, TypeOk, GoneOk
<1>6. ~Busy
  BY ServesIdle DEF Sound
<1>7. RebuildOk'
  BY <1>6 DEF Sound, RebuildOk, Busy, Serves
<1>8. KnownOk'
  <2>1. /\ known'.loaded => KnownHas(known'.sources, index', disk, changed', gone')
        /\ mode = "down" => ~known'.loaded
    BY <1>1, <1>2, ForgetFacts DEF Sound
  <2> QED
    BY <2>1 DEF KnownOk
<1> QED
  BY <1>3, <1>4, <1>5, <1>7, <1>8 DEF Sound

LEMMA IndexNothingSound ==
    ASSUME Sound, NEW p \in Path, NEW fault, IndexNothing(p, fault)
    PROVE  Sound'
BY LeavingSound DEF IndexNothing

LEMMA RemoveFileSound ==
    ASSUME Sound, NEW p \in Path, NEW fault, RemoveFile(p, fault)
    PROVE  Sound'
BY LeavingSound DEF RemoveFile

LEMMA IgnoreBlockedSound ==
    ASSUME Sound, NEW p \in Path, IgnoreBlocked(p)
    PROVE  Sound'
<1>1. /\ Serves /\ disk[p] \in Blocked /\ changed' = changed \ {p}
      /\ UNCHANGED <<disk, index, known, mode, rebuild, gone>>
  BY DEF IgnoreBlocked
<1>2. TypeOk' /\ IndexFollowsDisk' /\ GoneOk'
  BY <1>1 DEF Sound, TypeOk, IndexFollowsDisk, GoneOk
<1>3. ~Busy
  BY <1>1, ServesIdle DEF Sound
<1>4. RebuildOk'
  BY <1>1, <1>3 DEF Sound, RebuildOk, Busy
<1>5. KnownOk'
  BY <1>1 DEF Sound, KnownOk, KnownHas, Agrees, MissesNone
<1> QED
  BY <1>2, <1>4, <1>5 DEF Sound

LEMMA IndexThenDieSound ==
    ASSUME Sound, NEW p \in Path, IndexThenDie(p)
    PROVE  Sound'
<1> DEFINE text == IF disk[p] \in Chunkless THEN Absent ELSE disk[p]
<1>1. /\ Serves /\ disk[p] \notin Blocked /\ changed' = changed \ {p} /\ gone' = gone \ {p}
      /\ index' = [index EXCEPT ![p] = text]
      /\ mode' = "down" /\ known' = Unloaded /\ disk' = disk /\ rebuild' = rebuild
  BY DEF IndexThenDie
<1>2. /\ index'[p] = text /\ \A q \in Path \ {p} : index'[q] = index[q]
      /\ index' \in [Path -> Content]
  <2>1. text \in Content /\ index \in [Path -> Content]
    BY TextFacts DEF Sound, TypeOk
  <2> HIDE DEF text
  <2> QED
    BY <1>1, <2>1
<1>3. TypeOk' /\ IndexFollowsDisk' /\ GoneOk'
  BY <1>1, <1>2 DEF Sound, TypeOk, IndexFollowsDisk, GoneOk
<1>4. ~Busy
  BY <1>1, ServesIdle DEF Sound
<1>5. RebuildOk'
  BY <1>1, <1>4 DEF RebuildOk, Busy, None
<1>6. KnownOk'
  BY <1>1 DEF KnownOk, Unloaded
<1> QED
  BY <1>3, <1>5, <1>6 DEF Sound

\* A rebuild of what is indexed begins.
LEMMA BeginSound ==
    ASSUME Sound, ~Busy, NEW by \in Rebuilder, by = "server" <=> mode' # "down", mode = "down" \/ mode' # "down",
           rebuild' = [by |-> by, left |-> DOMAIN SourcesFrom(index), sources |-> SourcesFrom(index)],
           UNCHANGED <<disk, index, known, changed, gone>>
    PROVE  Sound'
<1> DEFINE from == SourcesFrom(index)
<1>1. /\ OfIndex(from, index) /\ MissesNone(from, index, disk, changed)
      /\ \A p \in DOMAIN from : p \in changed \/ disk[p] \in Blocked \/ from[p] = Source(p, index[p], index[p])
  BY SourcesFromFacts DEF Sound
<1> HIDE DEF from
<1>2. /\ rebuild'.by = by /\ rebuild'.left = DOMAIN from /\ rebuild'.sources = from
      /\ rebuild' = [by |-> rebuild'.by, left |-> rebuild'.left, sources |-> rebuild'.sources]
  BY DEF from
<1>3. RebuildOk'
  BY <1>1, <1>2 DEF RebuildOk, Busy, Locked
<1>4. TypeOk' /\ IndexFollowsDisk' /\ GoneOk' /\ KnownOk'
  BY DEF Sound, TypeOk, IndexFollowsDisk, GoneOk, KnownOk
<1> QED
  BY <1>3, <1>4 DEF Sound

LEMMA MaintainSound ==
    ASSUME Sound, NEW fault, Maintain(fault)
    PROVE  Sound'
<1>1. /\ Serves /\ ~Busy /\ mode' = "serving" /\ mode # "down"
      /\ UNCHANGED <<disk, index, known, changed, gone>>
  BY DEF Maintain, Serves
<1>2. \/ rebuild' = rebuild
      \/ rebuild' = [by |-> "server", left |-> DOMAIN SourcesFrom(index), sources |-> SourcesFrom(index)]
  BY DEF Maintain, Begin
<1>3. CASE rebuild' = rebuild
  BY <1>1, <1>3 DEF Sound, TypeOk, IndexFollowsDisk, GoneOk, KnownOk, RebuildOk, Busy
<1>4. CASE rebuild' = [by |-> "server", left |-> DOMAIN SourcesFrom(index), sources |-> SourcesFrom(index)]
  <2>1. "server" \in Rebuilder
    BY DEF Rebuilder
  <2> QED
    BY <1>1, <1>4, <2>1, BeginSound
<1> QED
  BY <1>2, <1>3, <1>4

LEMMA BeginGraphOnlySound ==
    ASSUME Sound, BeginGraphOnly
    PROVE  Sound'
<1>1. /\ mode = "down" /\ mode' = mode /\ ~Busy /\ UNCHANGED <<disk, index, known, changed, gone>>
      /\ rebuild' = [by |-> "graph-only", left |-> DOMAIN SourcesFrom(index), sources |-> SourcesFrom(index)]
      /\ "graph-only" \in Rebuilder /\ "graph-only" # "server"
  BY DEF BeginGraphOnly, Begin, Rebuilder
<1> QED
  BY <1>1, BeginSound

LEMMA BeginIndexCommandSound ==
    ASSUME Sound, BeginIndexCommand
    PROVE  Sound'
<1> DEFINE unread == {p \in Path : disk[p] \in {Absent} \cup Blocked}
           from   == [p \in Path \ unread |-> Source(p, disk[p], disk[p])]
<1>1. /\ mode = "down" /\ ~Busy /\ UNCHANGED <<disk, known, mode>>
      /\ index' = [p \in Path |-> IF p \in unread THEN index[p] ELSE disk[p]]
      /\ rebuild' = [by |-> "index", left |-> DOMAIN from, sources |-> from]
      /\ changed' = changed \cap unread /\ gone' = gone \cap unread
  BY DEF BeginIndexCommand
<1>2. \A p \in Path : /\ disk[p] \in TextOf[p] \cup {Absent} /\ disk[p] \in Text \cup {Absent}
                       /\ disk[p] \in Content
  BY TextFacts DEF Sound, TypeOk
<1>3. /\ \A p \in unread : index'[p] = index[p] /\ disk[p] \in {Absent} \cup Blocked
      /\ \A p \in Path \ unread : index'[p] = disk[p] /\ disk[p] # Absent
  BY <1>1
<1>4. DOMAIN from = Path \ unread /\ \A p \in Path \ unread : from[p] = Source(p, index'[p], index'[p])
  BY <1>3
<1>5. index' \in [Path -> Content]
  BY <1>1, <1>2 DEF Sound, TypeOk
<1>6. unread \subseteq Path
  OBVIOUS
<1> HIDE DEF unread, from
<1>7. TypeOk'
  BY <1>1, <1>2, <1>3, <1>5, <1>6 DEF Sound, TypeOk
<1>8. IndexFollowsDisk' /\ GoneOk'
  BY <1>1, <1>3, <1>6 DEF Sound, IndexFollowsDisk, GoneOk
<1>9. OfIndex(from, index')
  BY <1>2, <1>3, <1>4, SourceFacts DEF OfIndex, IndexHas
<1>10. /\ rebuild'.by = "index" /\ rebuild'.left = DOMAIN from /\ rebuild'.sources = from
       /\ rebuild' = [by |-> rebuild'.by, left |-> rebuild'.left, sources |-> rebuild'.sources]
  BY <1>1
<1>11. RebuildOk'
  BY <1>1, <1>4, <1>9, <1>10 DEF RebuildOk, Busy, Locked
<1>12. KnownOk'
  BY <1>1 DEF Sound, KnownOk
<1> QED
  BY <1>7, <1>8, <1>11, <1>12 DEF Sound

LEMMA RebuildSourceSound ==
    ASSUME Sound, NEW fault, RebuildSource(fault)
    PROVE  Sound'
<1>1. /\ Busy /\ UNCHANGED <<disk, index, known, mode, changed, gone>>
      /\ rebuild' = Idle \/ \E p : rebuild' = [rebuild EXCEPT !.left = @ \ {p}]
  BY DEF RebuildSource
<1>2. TypeOk' /\ IndexFollowsDisk' /\ GoneOk' /\ KnownOk'
  BY <1>1 DEF Sound, TypeOk, IndexFollowsDisk, GoneOk, KnownOk
<1>3. CASE rebuild' = Idle
  BY <1>1, <1>2, <1>3 DEF Sound, RebuildOk, Idle, Busy, None
<1>4. ASSUME NEW p, rebuild' = [rebuild EXCEPT !.left = @ \ {p}]
      PROVE  Sound'
  <2> DEFINE by == rebuild.by
             left == rebuild.left
             from == rebuild.sources
  <2>1. rebuild = [by |-> by, left |-> left, sources |-> from]
    BY <1>1 DEF Sound, RebuildOk
  <2>2. rebuild' = [by |-> by, left |-> left \ {p}, sources |-> from]
    <3> HIDE DEF by, left, from
    <3> QED
      BY <1>4, <2>1
  <2>3. /\ rebuild'.by = rebuild.by /\ rebuild'.left = rebuild.left \ {p} /\ rebuild'.sources = rebuild.sources
        /\ rebuild' = [by |-> rebuild'.by, left |-> rebuild'.left, sources |-> rebuild'.sources]
    BY <2>2
  <2>4. RebuildOk'
    BY <1>1, <2>3 DEF Sound, RebuildOk, Busy, Locked
  <2> QED
    BY <1>2, <2>4 DEF Sound
<1> QED
  BY <1>1, <1>3, <1>4

LEMMA EndRebuildSound ==
    ASSUME Sound, NEW fault, EndRebuild(fault)
    PROVE  Sound'
<1>1. /\ Busy /\ UNCHANGED <<disk, index, mode, changed, gone>> /\ rebuild' = Idle
      /\ known' = known \/ (rebuild.by = "server" /\ known' = Loaded(rebuild.sources))
  BY DEF EndRebuild
<1>2. TypeOk' /\ IndexFollowsDisk' /\ GoneOk'
  BY <1>1 DEF Sound, TypeOk, IndexFollowsDisk, GoneOk
<1>3. RebuildOk'
  BY <1>1 DEF RebuildOk, Idle, Busy, None
<1>4. KnownOk'
  <2>1. CASE known' = known
    BY <1>1, <2>1 DEF Sound, KnownOk
  <2>2. CASE rebuild.by = "server" /\ known' = Loaded(rebuild.sources)
    <3>1. /\ mode # "down" /\ OfIndex(rebuild.sources, index)
          /\ MissesNone(rebuild.sources, index, disk, changed)
      BY <1>1, <2>2 DEF Sound, RebuildOk, Locked
    <3>2. known'.sources = rebuild.sources
      BY <2>2 DEF Loaded
    <3>3. KnownHas(rebuild.sources, index, disk, changed, gone)
      BY <3>1 DEF KnownHas, Agrees, OfIndex, IndexHas, Sound, GoneOk
    <3> QED
      BY <1>1, <3>1, <3>2, <3>3 DEF KnownOk
  <2> QED
    BY <1>1, <2>1, <2>2
<1> QED
  BY <1>2, <1>3, <1>4 DEF Sound

LEMMA ProcessSound ==
    ASSUME Sound, Start \/ Kill \/ Tick
    PROVE  Sound'
<1>1. CASE Start
  BY <1>1 DEF Sound, Start, TypeOk, IndexFollowsDisk, GoneOk, KnownOk, RebuildOk, Busy
<1>2. CASE Kill
  BY <1>2 DEF Sound, Kill, TypeOk, IndexFollowsDisk, GoneOk, KnownOk, RebuildOk, Busy, Idle, Unloaded, None
<1>3. CASE Tick
  BY <1>3 DEF Sound, Tick, TypeOk, IndexFollowsDisk, GoneOk, KnownOk, RebuildOk, Busy, Locked
<1> QED
  BY <1>1, <1>2, <1>3

LEMMA EditSound ==
    ASSUME Sound, NEW p \in Path, NEW t \in TextOf[p] \cup {Absent}, Edit(p, t)
    PROVE  Sound'
<1>1. /\ disk' = [disk EXCEPT ![p] = t] /\ changed' = changed \cup {p}
      /\ UNCHANGED <<index, known, mode, rebuild, gone>>
  BY DEF Edit
<1>2. /\ disk' \in [Path -> Text \cup {Absent}] /\ disk'[p] = t /\ \A q \in Path \ {p} : disk'[q] = disk[q]
  BY <1>1, TextFacts DEF Sound, TypeOk
<1>3. TypeOk' /\ IndexFollowsDisk' /\ GoneOk'
  BY <1>1, <1>2 DEF Sound, TypeOk, IndexFollowsDisk, GoneOk
<1>4. \A ks : MissesNone(ks, index, disk, changed) => MissesNone(ks, index, disk', changed')
  BY <1>1, <1>2 DEF MissesNone
<1>5. KnownOk'
  BY <1>1, <1>2, <1>4 DEF Sound, KnownOk, KnownHas, Agrees
<1>6. ASSUME Busy PROVE \A q \in DOMAIN rebuild.sources : q \in Path
  BY <1>6 DEF Sound, RebuildOk, OfIndex, IndexHas
<1>7. RebuildOk'
  BY <1>1, <1>2, <1>4, <1>6 DEF Sound, RebuildOk, Busy, Locked
<1> QED
  BY <1>3, <1>5, <1>7 DEF Sound

-----------------------------------------------------------------------------
(* The edges of a file.                                                    *)

\* Edge e, of the kinds a file owns, is stored as an edge of p.
OwnOf(g, p, e) == e \in g.edges /\ e.src = p /\ e.kind \in OwnKinds

Keeps(g, spared, p, own) ==
    /\ \A e : OwnOf(g, p, e) => Bare(e) \in own
    /\ \A e \in own : \/ \E d : OwnOf(g, p, d) /\ ~d.stale /\ Bare(d) = e
                      \/ e.kind \in SharedKinds /\ p \in spared

\* The edges a file is to have.
OwnText(p, ix) == IF ix[p] = Absent THEN {} ELSE OwnEdges[p][ix[p]]
Follows(g, spared, p, ix, dk) == dk[p] \in Blocked \/ Keeps(g, spared, p, OwnText(p, ix))

LEMMA HasOwnEdgesKept ==
    ASSUME NEW p, NEW own
    PROVE  HasOwnEdges(p, own) <=> Keeps(graph, bereft, p, own)
BY DEF HasOwnEdges, Keeps, OwnOf

LEMMA HasOwnEdgesKeptNext ==
    ASSUME NEW p, NEW own
    PROVE  HasOwnEdges(p, own)' <=> Keeps(graph', bereft', p, own)
BY DEF HasOwnEdges, Keeps, OwnOf

LEMMA EdgesFollow ==
    EdgesFollowIndex <=> \A p \in Path \ (changed \cup behind) : Follows(graph, bereft, p, index, disk)
BY HasOwnEdgesKept DEF EdgesFollowIndex, Follows, OwnText

LEMMA EdgesFollowNext ==
    EdgesFollowIndex' <=> \A p \in Path \ (changed' \cup behind') : Follows(graph', bereft', p, index', disk')
BY HasOwnEdgesKeptNext DEF EdgesFollowIndex, Follows, OwnText

\* A file keeps its edges when no other than it changes.
LEMMA SameEdgesKept ==
    ASSUME NEW g, NEW h, NEW p, NEW a, NEW b, NEW own, Keeps(g, a, p, own),
           p \in a => p \in b, \A e : OwnOf(h, p, e) <=> OwnOf(g, p, e)
    PROVE  Keeps(h, b, p, own)
BY DEF Keeps

\* When only stale ones are deleted.
LEMMA PurgedKept ==
    ASSUME NEW g, GraphOk(g), NEW now, NEW p, NEW b, NEW own, Keeps(g, b, p, own)
    PROVE  Keeps(PurgeStaleEdges(g, now), b, p, own)
<1> DEFINE h == PurgeStaleEdges(g, now)
<1>1. h.edges \subseteq g.edges /\ \A e \in g.edges : ~e.stale => e \in h.edges
  BY Purged
<1> HIDE DEF h
<1>2. Keeps(h, b, p, own)
  BY <1>1 DEF Keeps, OwnOf
<1> QED
  BY <1>2 DEF h

\* When the edges to another file are marked, but for those the two share.
LEMMA MarkedKept ==
    ASSUME NEW g, GraphOk(g), NEW now, NEW p, NEW q, q # p, NEW a, NEW b, NEW own, Keeps(g, a, q, own),
           q \in a => q \in b, Sharing(g, p) \subseteq b
    PROVE  Keeps(MarkEdgesToSourceStale(g, p, now), b, q, own)
<1> DEFINE h == MarkEdgesToSourceStale(g, p, now)
<1>1. /\ \A e \in h.edges : \E d \in g.edges :
            /\ Bare(d) = Bare(e) /\ d.src = e.src /\ d.kind = e.kind
            /\ e.stale \/ e = d
      /\ \A d \in g.edges : ~d.stale /\ g.nodes[d.to].src # p => d \in h.edges
  BY Marked
<1> HIDE DEF h
<1>2. \A e : OwnOf(h, q, e) => Bare(e) \in own
  BY <1>1 DEF Keeps, OwnOf
<1>3. ASSUME NEW e \in own, NEW d, OwnOf(g, q, d), ~d.stale, Bare(d) = e
      PROVE  OwnOf(h, q, d) \/ (e.kind \in SharedKinds /\ q \in b)
  <2>1. CASE g.nodes[d.to].src # p
    BY <1>1, <1>3, <2>1 DEF OwnOf
  <2>2. CASE g.nodes[d.to].src = p
    <3>1. d \in g.edges /\ d.src = q /\ d.kind \in OwnKinds /\ e.kind = d.kind
      BY <1>3 DEF OwnOf, Bare
    <3>2. d.kind \in SharedKinds
      <4>1. d.to \in DOMAIN g.nodes
        BY <3>1 DEF GraphOk, Anchored
      <4>2. ASSUME d.kind \notin SharedKinds PROVE FALSE
        BY <2>2, <3>1, <4>1, <4>2 DEF GraphOk
      <4> QED
        BY <4>2
    <3>3. q \in Sharing(g, p)
      BY <1>3, <2>2, <3>1, <3>2 DEF Sharing
    <3> QED
      BY <3>1, <3>2, <3>3
  <2> QED
    BY <2>1, <2>2
<1>4. Keeps(h, b, q, own)
  BY <1>2, <1>3 DEF Keeps
<1> QED
  BY <1>4 DEF h

\* The edges of p are replaced by some, and those of other files are kept.
Replaces(g, h, p, own) ==
    /\ \A q, a, b, o : q # p /\ (q \in a => q \in b) /\ Keeps(g, a, q, o) => Keeps(h, b, q, o)
    /\ \A b : Keeps(h, b, p, own)

LEMMA ReplacedKept ==
    ASSUME NEW g, NEW h, NEW p, NEW edges, NEW now,
           h.edges = {e \in g.edges : e.src # p} \cup {Stored(e, p, now) : e \in edges},
           \A e \in edges : IsBare(e)
    PROVE  Replaces(g, h, p, {e \in edges : e.kind \in OwnKinds})
<1> DEFINE new == {Stored(e, p, now) : e \in edges}
<1>1. \A s \in new : \E e \in edges : s.src = p /\ s.kind = e.kind /\ Bare(s) = e /\ ~s.stale
  BY StoredEdges DEF StoredFrom
<1>2. \A e \in edges : \E s \in new : s.src = p /\ s.kind = e.kind /\ Bare(s) = e /\ ~s.stale
  BY StoredEdges DEF StoredFrom
<1> HIDE DEF new
<1>3. h.edges = {e \in g.edges : e.src # p} \cup new
  BY DEF new
<1>4. ASSUME NEW q, q # p PROVE \A e : OwnOf(h, q, e) <=> OwnOf(g, q, e)
  BY <1>1, <1>3, <1>4 DEF OwnOf
<1>5. \A e : OwnOf(h, p, e) <=> e \in new /\ e.kind \in OwnKinds
  BY <1>1, <1>3 DEF OwnOf
<1>6. \A b : Keeps(h, b, p, {e \in edges : e.kind \in OwnKinds})
  BY <1>1, <1>2, <1>5 DEF Keeps
<1> QED
  BY <1>4, <1>6, SameEdgesKept DEF Replaces

-----------------------------------------------------------------------------
(* What the handlers do to the graph.                                      *)

Good == GraphOk(graph) /\ Clear(graph, gone) /\ EdgesFollowIndex

\* What is extracted of a file takes the place of its edges, and no other's.
LEMMA ExtractReplaced ==
    ASSUME NEW g, GraphOk(g), NEW p \in Path, NEW f, SourceOf(f, p), NEW ks, Sources(ks), p \in DOMAIN ks,
           NEW run, NEW now
    PROVE  LET h == ReplaceEdges(g, p, Extract(f, ks), run, now)
           IN  /\ GraphOk(h)
               /\ \A D \in SUBSET Path : Clear(g, D) /\ D \cap DOMAIN ks = {} => Clear(h, D)
               /\ Replaces(g, h, p, Own(f).edges)
<1> DEFINE part == Extract(f, ks)
           h    == ReplaceEdges(g, p, part, run, now)
<1>1. /\ PartOf(part, f, DOMAIN ks)
      /\ \A e \in part.edges : \E n \in part.nodes : e.from = n.id
      /\ {e \in part.edges : e.kind \in OwnKinds} = Own(f).edges
      /\ OwnedBy(Own(f), p)
  BY ExtractIsPart
<1> HIDE DEF part
<1>2. OwnedBy([nodes |-> {}, edges |-> {e \in part.edges : e.kind \in OwnKinds}], p)
  BY <1>1 DEF OwnedBy
<1>3. /\ GraphOk(h)
      /\ h.edges = {e \in g.edges : e.src # p} \cup {Stored(e, p, now) : e \in part.edges}
      /\ \A D : Clear(g, D) /\ D \cap (DOMAIN ks \cup {NoPath}) = {} => Clear(h, D)
  BY <1>1, <1>2, Replaced
<1> HIDE DEF h
<1>4. NoPath \notin Path
  BY OverlayAssumption DEF OverlayAssumption
<1>5. \A D \in SUBSET Path : Clear(g, D) /\ D \cap DOMAIN ks = {} => Clear(h, D)
  BY <1>3, <1>4
<1>6. \A e \in part.edges : IsBare(e)
  BY <1>1 DEF PartOf
<1>7. Replaces(g, h, p, {e \in part.edges : e.kind \in OwnKinds})
  BY <1>3, <1>6, ReplacedKept
<1> QED
  BY <1>1, <1>3, <1>5, <1>7 DEF h, part

\* A file of which nothing is extracted has no edge left.
LEMMA NothingReplaced ==
    ASSUME NEW g, GraphOk(g), NEW p \in Path, NEW run, NEW now
    PROVE  LET h == ReplaceEdges(g, p, Nothing, run, now)
           IN  /\ GraphOk(h)
               /\ \A D \in SUBSET Path : Clear(g, D) => Clear(h, D)
               /\ Replaces(g, h, p, {})
<1> DEFINE h == ReplaceEdges(g, p, Nothing, run, now)
<1>1. Nothing.edges = {} /\ PartOf(Nothing, 0, {})
  BY NothingIsPart DEF Nothing
<1>2. OwnedBy([nodes |-> {}, edges |-> {e \in Nothing.edges : e.kind \in OwnKinds}], p)
  BY <1>1 DEF OwnedBy
<1>3. /\ GraphOk(h)
      /\ h.edges = {e \in g.edges : e.src # p} \cup {Stored(e, p, now) : e \in Nothing.edges}
      /\ \A D : Clear(g, D) /\ D \cap ({} \cup {NoPath}) = {} => Clear(h, D)
  BY <1>1, <1>2, Replaced
<1> HIDE DEF h
<1>4. NoPath \notin Path
  BY OverlayAssumption DEF OverlayAssumption
<1>5. \A D \in SUBSET Path : Clear(g, D) => Clear(h, D)
  BY <1>3, <1>4
<1> DEFINE part == Nothing
<1>6. part.edges = {}
  BY <1>1
<1>7. h.edges = {e \in g.edges : e.src # p} \cup {Stored(e, p, now) : e \in part.edges}
  BY <1>3
<1> HIDE DEF part
<1>8. \A e \in part.edges : IsBare(e)
  BY <1>6
<1>9. {e \in part.edges : e.kind \in OwnKinds} = {}
  BY <1>6
<1>10. Replaces(g, h, p, {e \in part.edges : e.kind \in OwnKinds})
  BY <1>7, <1>8, ReplacedKept
<1> QED
  BY <1>3, <1>5, <1>9, <1>10 DEF h

\* A step that handles one file.
LEMMA OneFileFollows ==
    ASSUME EdgesFollowIndex, NEW p \in Path, disk' = disk, \A q \in Path \ {p} : index'[q] = index[q],
           changed \subseteq changed' \cup {p}, behind \subseteq behind' \cup {p},
           \A q, own : q # p /\ Keeps(graph, bereft, q, own) => Keeps(graph', bereft', q, own),
           p \in changed' \cup behind' \/ Follows(graph', bereft', p, index', disk')
    PROVE  EdgesFollowIndex'
<1>1. ASSUME NEW q \in Path \ (changed' \cup behind') PROVE Follows(graph', bereft', q, index', disk')
  <2>1. CASE q # p
    <3>1. Follows(graph, bereft, q, index, disk)
      BY <2>1, EdgesFollow
    <3>2. OwnText(q, index') = OwnText(q, index)
      BY <2>1 DEF OwnText
    <3> QED
      BY <2>1, <3>1, <3>2 DEF Follows
  <2> QED
    BY <2>1
<1> QED
  BY <1>1, EdgesFollowNext

LEMMA IndexFileGood ==
    ASSUME Sound, Good, NEW p \in Path, NEW fault, IndexFile(p, fault)
    PROVE  Good'
<1> DEFINE f == Source(p, disk[p], disk[p])
           cached == IF known.loaded THEN known ELSE Loaded(KnownFrom(index'))
           ks == WithSource(cached.sources, f)
           run == RunStatusOf(f)
           replaced == ReplaceEdges(graph, p, Extract(f, ks), run, clock)
<1>1. /\ p \in changed /\ disk[p] \in TextOf[p] /\ disk[p] \notin Chunkless \cup Blocked
      /\ disk[p] \in Text /\ disk[p] # Absent
      /\ index'[p] = disk[p] \/ (index'[p] \in HalfOf[p] /\ p \in changed')
      /\ index' \in [Path -> Content]
      /\ changed \subseteq changed' \cup {p} /\ gone' = gone \ {p}
      /\ disk' = disk
      /\ UpdateGraph(p, index', fault)
  BY IndexFileSteps
<1>2. gone \subseteq Path /\ disk[p] \in Content
  BY <1>1, TextFacts DEF Sound, TypeOk
<1>3. \A q \in Path \ {p} : index'[q] = index[q]
  BY IndexFileSteps
<1>4. f.path = p /\ SourceOf(f, p)
  BY <1>1, <1>2, SourceFacts DEF SourceOf
<1>5. \A q \in DOMAIN cached.sources : q \in Path /\ cached.sources[q].path = q /\ q \notin gone \ {p}
  <2>1. CASE known.loaded
    <3>1. KnownHas(known.sources, index, disk, changed, gone)
      BY <2>1 DEF Sound, KnownOk
    <3> QED
      BY <2>1, <3>1 DEF KnownHas, Agrees
  <2>2. CASE ~known.loaded
    <3>1. \A q \in Path \ changed : disk[q] \in Blocked \/ index'[q] = disk[q] \/ index'[q] = Absent
      BY <1>1, <1>3 DEF Sound, IndexFollowsDisk
    <3>2. OfIndex(KnownFrom(index'), index')
      BY <1>1, <3>1, KnownFromFacts DEF Sound
    <3>3. cached = [loaded |-> TRUE, sources |-> KnownFrom(index')]
      BY <2>2 DEF Loaded
    <3>4. cached.sources = KnownFrom(index')
      BY <3>3
    <3> HIDE DEF cached
    <3> QED
      BY <1>2, <1>3, <3>2, <3>4 DEF OfIndex, IndexHas, Sound, GoneOk
  <2> QED
    BY <2>1, <2>2
<1> HIDE DEF cached
<1>6. /\ DOMAIN ks = DOMAIN cached.sources \cup {p}
      /\ \A q \in DOMAIN ks : ks[q] = IF q = p THEN f ELSE cached.sources[q]
  BY <1>4 DEF WithSource, With
<1> HIDE DEF ks, f
<1>7. Sources(ks) /\ p \in DOMAIN ks
  BY <1>4, <1>5, <1>6 DEF Sources
<1>8. (gone \ {p}) \cap DOMAIN ks = {}
  BY <1>5, <1>6
<1>9. /\ GraphOk(replaced)
      /\ \A D \in SUBSET Path : Clear(graph, D) /\ D \cap DOMAIN ks = {} => Clear(replaced, D)
      /\ Replaces(graph, replaced, p, Own(f).edges)
  BY <1>4, <1>7, ExtractReplaced DEF Good
<1> HIDE DEF replaced, run
<1>10. Clear(graph, gone \ {p}) /\ Clear(replaced, gone \ {p})
  <2>1. Clear(graph, gone \ {p})
    BY DEF Good, Clear
  <2> QED
    BY <1>2, <1>8, <1>9, <2>1
<1>11. \/ /\ graph' = Failed(graph, fault) /\ behind' = behind \cup {p} /\ bereft' = bereft
       \/ /\ behind' = behind \ {p} /\ bereft' = bereft \ {p}
          /\ \/ graph' = Failed(replaced, fault)
             \/ \E status : graph' = RecordBuild(replaced, "incremental", status, clock)
  BY <1>1 DEF UpdateGraph, replaced, run, ks, cached, f
<1>12. CASE graph' = Failed(graph, fault) /\ behind' = behind \cup {p} /\ bereft' = bereft
  <2>1. GraphOk(graph') /\ Clear(graph', gone') /\ graph'.edges = graph.edges
    BY <1>1, <1>10, <1>12, FailureRecorded DEF Good
  <2>2. \A q, own : Keeps(graph, bereft, q, own) => Keeps(graph', bereft', q, own)
    BY <1>12, <2>1 DEF Keeps, OwnOf
  <2>3. EdgesFollowIndex'
    BY <1>1, <1>3, <1>12, <2>2, OneFileFollows DEF Good
  <2> QED
    BY <2>1, <2>3 DEF Good
<1>13. CASE /\ behind' = behind \ {p} /\ bereft' = bereft \ {p}
            /\ \/ graph' = Failed(replaced, fault)
               \/ \E status : graph' = RecordBuild(replaced, "incremental", status, clock)
  <2>1. GraphOk(graph') /\ Clear(graph', gone') /\ graph'.edges = replaced.edges
    BY <1>1, <1>9, <1>10, <1>13, FailureRecorded, Recorded
  <2>2. \A q, b, own : Keeps(replaced, b, q, own) => Keeps(graph', b, q, own)
    BY <2>1 DEF Keeps, OwnOf
  <2>3. \A q, own : q # p /\ Keeps(graph, bereft, q, own) => Keeps(graph', bereft', q, own)
    BY <1>9, <1>13, <2>2 DEF Replaces
  <2>4. ASSUME p \notin changed' PROVE OwnText(p, index') = Own(f).edges
    BY <1>1, <2>4 DEF OwnText, OwnEdges, f
  <2>5. p \in changed' \cup behind' \/ Follows(graph', bereft', p, index', disk')
    BY <1>9, <2>2, <2>4 DEF Follows, Replaces
  <2>6. EdgesFollowIndex'
    BY <1>1, <1>3, <1>13, <2>3, <2>5, OneFileFollows DEF Good
  <2> QED
    BY <2>1, <2>6 DEF Good
<1> QED
  BY <1>11, <1>12, <1>13

\* A file that leaves the index: its edges go, and when the graph is told that it is
\* deleted, the edges to it are marked.
LEMMA DropGraphGood ==
    ASSUME Sound, Good, NEW p \in Path, NEW mark \in BOOLEAN, NEW fault, DropGraph(p, mark, fault),
           disk' = disk, index'[p] = Absent \/ p \in changed', \A q \in Path \ {p} : index'[q] = index[q],
           changed \subseteq changed' \cup {p}
    PROVE  Good'
<1> DEFINE emptied == ReplaceEdges(graph, p, Nothing, "success", clock)
           marked  == MarkEdgesToSourceStale(emptied, p, clock)
<1>1. gone \in SUBSET Path /\ gone \cup {p} \in SUBSET Path
  BY DEF Sound, TypeOk
<1>2. /\ GraphOk(emptied) /\ Clear(emptied, gone) /\ Replaces(graph, emptied, p, {})
  BY <1>1, NothingReplaced DEF Good
<1>3. /\ GraphOk(marked) /\ Clear(marked, gone \cup {p})
  BY <1>2, Marked
<1>4. /\ GraphOk(graph) /\ Clear(graph, gone) /\ EdgesFollowIndex
  BY DEF Good
<1>5. p \in changed' \/ OwnText(p, index') = {}
  BY DEF OwnText
<1>6. \/ graph' = Failed(graph, fault) /\ behind' = behind \cup {p} /\ gone' = gone /\ bereft' = bereft
      \/ /\ graph' \in {emptied, Failed(emptied, fault)} /\ behind' = behind \ {p} /\ gone' = gone
         /\ bereft' = bereft \ {p}
      \/ /\ graph' \in {Failed(marked, fault), RecordBuild(marked, "incremental", "fresh", clock)}
         /\ behind' = behind \ {p}
         /\ gone' \in {gone, gone \cup {p}} /\ bereft' = (bereft \ {p}) \cup Sharing(emptied, p)
  <2>1. CASE mark
    BY <2>1 DEF DropGraph
  <2>2. CASE ~mark
    BY <2>2 DEF DropGraph
  <2> QED
    BY <2>1, <2>2
<1> HIDE DEF emptied
<1>7. CASE graph' = Failed(graph, fault) /\ behind' = behind \cup {p} /\ gone' = gone /\ bereft' = bereft
  <2>1. GraphOk(graph') /\ Clear(graph', gone') /\ graph'.edges = graph.edges
    BY <1>4, <1>7, FailureRecorded
  <2>2. \A q, own : Keeps(graph, bereft, q, own) => Keeps(graph', bereft', q, own)
    BY <1>7, <2>1 DEF Keeps, OwnOf
  <2>3. EdgesFollowIndex'
    BY <1>4, <1>7, <2>2, OneFileFollows
  <2> QED
    BY <2>1, <2>3 DEF Good
<1>8. CASE /\ graph' \in {emptied, Failed(emptied, fault)} /\ behind' = behind \ {p} /\ gone' = gone
           /\ bereft' = bereft \ {p}
  <2>1. GraphOk(graph') /\ Clear(graph', gone') /\ graph'.edges = emptied.edges
    BY <1>2, <1>8, FailureRecorded
  <2>2. \A q, b, own : Keeps(emptied, b, q, own) => Keeps(graph', b, q, own)
    BY <2>1 DEF Keeps, OwnOf
  <2>3. \A q, own : q # p /\ Keeps(graph, bereft, q, own) => Keeps(graph', bereft', q, own)
    BY <1>2, <1>8, <2>2 DEF Replaces
  <2>4. p \in changed' \/ Follows(graph', bereft', p, index', disk')
    BY <1>2, <1>5, <2>2 DEF Follows, Replaces
  <2>5. EdgesFollowIndex'
    BY <1>4, <1>8, <2>3, <2>4, OneFileFollows
  <2> QED
    BY <2>1, <2>5 DEF Good
<1>9. CASE /\ graph' \in {Failed(marked, fault), RecordBuild(marked, "incremental", "fresh", clock)}
           /\ behind' = behind \ {p}
           /\ gone' \in {gone, gone \cup {p}} /\ bereft' = (bereft \ {p}) \cup Sharing(emptied, p)
  <2>0. Clear(marked, gone')
    BY <1>3, <1>9 DEF Clear
  <2>1. GraphOk(graph') /\ Clear(graph', gone') /\ graph'.edges = marked.edges
    BY <1>3, <1>9, <2>0, Recorded, FailureRecorded
  <2>2. \A q, b, own : Keeps(marked, b, q, own) => Keeps(graph', b, q, own)
    BY <2>1 DEF Keeps, OwnOf
  <2>3. ASSUME NEW q, NEW own, q # p, Keeps(graph, bereft, q, own)
        PROVE  Keeps(graph', bereft', q, own)
    <3>1. Keeps(emptied, bereft, q, own)
      BY <1>2, <2>3 DEF Replaces
    <3>2. Keeps(marked, bereft', q, own)
      BY <1>2, <1>9, <2>3, <3>1, MarkedKept
    <3> QED
      BY <2>2, <3>2
  <2>4. p \in changed' \/ Follows(graph', bereft', p, index', disk')
    <3>1. \A e : ~OwnOf(emptied, p, e)
      BY <1>2 DEF Replaces, Keeps
    <3>2. \A e : ~OwnOf(marked, p, e)
      BY <1>2, <3>1, Marked DEF OwnOf
    <3>3. Keeps(marked, bereft', p, {})
      BY <3>2 DEF Keeps
    <3> QED
      BY <1>5, <2>2, <3>3 DEF Follows
  <2>5. EdgesFollowIndex'
    BY <1>4, <1>9, <2>3, <2>4, OneFileFollows
  <2> QED
    BY <2>1, <2>5 DEF Good
<1> QED
  BY <1>6, <1>7, <1>8, <1>9

LEMMA LeavingGood ==
    ASSUME Sound, Good, NEW p \in Path, NEW mark \in BOOLEAN, NEW fault, p \in changed, disk' = disk,
           Leave(p, fault), DropGraph(p, mark, fault)
    PROVE  Good'
<1>1. /\ \A q \in Path \ {p} : index'[q] = index[q]
      /\ index'[p] = Absent \/ p \in changed'
      /\ changed \subseteq changed' \cup {p}
  BY LeaveSteps
<1> QED
  BY <1>1, DropGraphGood

LEMMA IndexNothingGood ==
    ASSUME Sound, Good, NEW p \in Path, NEW fault, IndexNothing(p, fault)
    PROVE  Good'
BY LeavingGood DEF IndexNothing

LEMMA RemoveFileGood ==
    ASSUME Sound, Good, NEW p \in Path, NEW fault, RemoveFile(p, fault)
    PROVE  Good'
BY LeavingGood DEF RemoveFile

\* The graph stays as it is.
LEMMA SameGraphGood ==
    ASSUME Sound, Good, graph' = graph, bereft' = bereft, gone' \subseteq gone,
           \A q \in Path \ (changed' \cup behind') :
               \/ disk'[q] \in Blocked
               \/ q \notin changed \cup behind /\ index'[q] = index[q] /\ disk'[q] = disk[q]
    PROVE  Good'
<1>1. GraphOk(graph') /\ Clear(graph', gone')
  BY DEF Good, Clear
<1>2. \A q \in Path \ (changed' \cup behind') : Follows(graph', bereft', q, index', disk')
  BY EdgesFollow DEF Good, Follows, OwnText
<1> QED
  BY <1>1, <1>2, EdgesFollowNext DEF Good

LEMMA OtherHandlersGood ==
    ASSUME Sound, Good, NEW p \in Path, IgnoreBlocked(p) \/ IndexThenDie(p) \/ FailHandling(p)
    PROVE  Good'
<1>1. CASE IgnoreBlocked(p)
  BY <1>1, SameGraphGood DEF IgnoreBlocked
<1>2. CASE IndexThenDie(p)
  <2>1. /\ graph' = graph /\ bereft' = bereft /\ gone' \subseteq gone /\ disk' = disk
        /\ changed' = changed \ {p} /\ behind' = behind \cup {p}
        /\ index' = [index EXCEPT ![p] = IF disk[p] \in Chunkless THEN Absent ELSE disk[p]]
    BY <1>2 DEF IndexThenDie
  <2>2. \A q \in Path \ {p} : index'[q] = index[q]
    BY <2>1 DEF Sound, TypeOk
  <2> QED
    BY <2>1, <2>2, SameGraphGood
<1>3. CASE FailHandling(p)
  BY <1>3, FailHandlingSteps, SameGraphGood
<1> QED
  BY <1>1, <1>2, <1>3

LEMMA ProcessGood ==
    ASSUME Sound, Good, Start \/ Kill \/ Tick
    PROVE  Good'
<1>1. UNCHANGED <<disk, index, graph, changed, behind, gone, bereft>>
  BY DEF Start, Kill, Tick
<1> QED
  BY <1>1, SameGraphGood

LEMMA EditGood ==
    ASSUME Sound, Good, NEW p \in Path, NEW t \in TextOf[p] \cup {Absent}, Edit(p, t)
    PROVE  Good'
<1>1. /\ disk' = [disk EXCEPT ![p] = t] /\ changed' = changed \cup {p}
      /\ UNCHANGED <<index, graph, behind, gone, bereft>>
  BY DEF Edit
<1>2. \A q \in Path \ {p} : disk'[q] = disk[q]
  BY <1>1 DEF Sound, TypeOk
<1> QED
  BY <1>1, <1>2, SameGraphGood

-----------------------------------------------------------------------------
(* Maintenance and rebuilds.                                               *)

\* A graph that was reset is behind in every file indexed, and has no edge.
LEMMA ResetGood ==
    ASSUME Sound, graph' = Reset(graph), \A p \in Path : index'[p] # Absent => p \in behind'
    PROVE  Good'
<1>1. GraphOk(graph') /\ graph'.edges = {}
  BY EmptyIsOk DEF Reset
<1>2. Clear(graph', gone')
  BY <1>1 DEF Clear
<1>3. \A q \in Path \ (changed' \cup behind') : Follows(graph', bereft', q, index', disk')
  BY <1>1 DEF Follows, OwnText, Keeps, OwnOf
<1> QED
  BY <1>1, <1>2, <1>3, EdgesFollowNext DEF Good

LEMMA MaintainGood ==
    ASSUME Sound, Good, NEW fault, Maintain(fault)
    PROVE  Good'
<1> DEFINE purged == PurgeStaleEdges(graph, clock)
<1>1. UNCHANGED <<disk, index, changed, gone>>
  BY DEF Maintain
<1>2. \/ graph' = Reset(graph) /\ behind' = Indexed
      \/ graph' \in {Failed(graph, fault), Failed(purged, fault), purged} /\ UNCHANGED <<behind, bereft>>
  BY DEF Maintain, Begin
<1>3. CASE graph' = Reset(graph) /\ behind' = Indexed
  BY <1>1, <1>3, ResetGood DEF Indexed
<1>4. CASE graph' \in {Failed(graph, fault), Failed(purged, fault), purged} /\ UNCHANGED <<behind, bereft>>
  <2>1. GraphOk(graph) /\ Clear(graph, gone) /\ EdgesFollowIndex
    BY DEF Good
  <2>2. GraphOk(purged) /\ Clear(purged, gone)
    BY <2>1, Purged
  <2>3. \A q, own : Keeps(graph, bereft, q, own) => Keeps(purged, bereft, q, own)
    BY <2>1, PurgedKept
  <2> HIDE DEF purged
  <2>4. GraphOk(graph') /\ Clear(graph', gone') /\ graph'.edges \in {graph.edges, purged.edges}
    BY <1>1, <1>4, <2>1, <2>2, FailureRecorded
  <2>5. \A q, own : Keeps(graph, bereft, q, own) => Keeps(graph', bereft', q, own)
    <3>1. CASE graph'.edges = graph.edges
      BY <1>4, <3>1 DEF Keeps, OwnOf
    <3>2. CASE graph'.edges = purged.edges
      BY <1>4, <2>3, <3>2 DEF Keeps, OwnOf
    <3> QED
      BY <2>4, <3>1, <3>2
  <2>6. \A q \in Path \ (changed' \cup behind') : Follows(graph', bereft', q, index', disk')
    BY <1>1, <1>4, <2>1, <2>5, EdgesFollow DEF Follows
  <2> QED
    BY <2>4, <2>6, EdgesFollowNext DEF Good
<1> QED
  BY <1>2, <1>3, <1>4

LEMMA BeginningsGood ==
    ASSUME Sound, Good, BeginIndexCommand \/ BeginGraphOnly
    PROVE  Good'
<1>1. graph' = Reset(graph) /\ \A p \in Path : index'[p] # Absent => p \in behind'
  BY DEF BeginIndexCommand, BeginGraphOnly, Begin, Indexed
<1> QED
  BY <1>1, ResetGood

LEMMA EndRebuildGood ==
    ASSUME Sound, Good, NEW fault, EndRebuild(fault)
    PROVE  Good'
<1>1. UNCHANGED <<disk, index, changed, behind, gone, bereft>>
  BY DEF EndRebuild
<1>2. graph' = graph \/ \E kind, status : graph' = RecordBuild(graph, kind, status, clock)
  BY DEF EndRebuild
<1>3. GraphOk(graph') /\ Clear(graph', gone') /\ graph'.edges = graph.edges
  BY <1>1, <1>2, Recorded DEF Good
<1>4. \A q, own : Keeps(graph, bereft, q, own) => Keeps(graph', bereft', q, own)
  BY <1>1, <1>3 DEF Keeps, OwnOf
<1>5. \A q \in Path \ (changed' \cup behind') : Follows(graph', bereft', q, index', disk')
  BY <1>1, <1>4, EdgesFollow DEF Follows, Good
<1> QED
  BY <1>3, <1>5, EdgesFollowNext DEF Good

\* The next source of a rebuild: some path of those left sorts first.
LEMMA NextSource ==
    ASSUME NEW left, left \subseteq Path, left # {}
    PROVE  (CHOOSE q \in left : \A r \in left : Rank(q) <= Rank(r)) \in left
<1> DEFINE less  == OpToRel(<, Nat)
           ranks == {Rank(q) : q \in left}
<1>1. \A q \in left : Rank(q) \in Nat
  <2>1. \A q \in left : \E i \in DOMAIN PathOrder : PathOrder[i] = q
    BY OverlayAssumption DEF OverlayAssumption
  <2>2. \A i \in DOMAIN PathOrder : i \in Nat
    BY OverlayAssumption DEF OverlayAssumption
  <2> QED
    BY <2>1, <2>2 DEF Rank
<1>2. \A i, j \in Nat : i < j => <<i, j>> \in less
  BY DEF OpToRel
<1>3. ranks \subseteq Nat /\ ranks # {}
  BY <1>1
<1> HIDE DEF ranks
<1>4. PICK i \in ranks : \A j \in ranks : ~(<<j, i>> \in less)
  <2>1. IsWellFoundedOn(less, Nat)
    BY NatLessThanWellFounded, Zenon
  <2> HIDE DEF less
  <2> QED
    BY <1>3, <2>1, WFMin
<1> HIDE DEF less
<1>5. PICK q \in left : Rank(q) = i
  BY DEF ranks
<1>6. ASSUME NEW r \in left PROVE Rank(q) <= Rank(r)
  <2>1. Rank(r) \in ranks /\ Rank(r) \in Nat /\ i \in Nat
    BY <1>1, <1>3 DEF ranks
  <2>2. ~(Rank(r) < i)
    BY <1>2, <1>4, <2>1
  <2> QED
    BY <1>5, <2>1, <2>2
<1> QED
  BY <1>6

LEMMA RebuildSourceGood ==
    ASSUME Sound, Good, NEW fault, RebuildSource(fault)
    PROVE  Good'
<1> DEFINE p    == CHOOSE q \in rebuild.left : \A r \in rebuild.left : Rank(q) <= Rank(r)
           ks   == rebuild.sources
           f    == ks[p]
           run  == RunStatusOf(f)
           kind == IF rebuild.by = "server" THEN "incremental" ELSE "full"
           replaced == ReplaceEdges(graph, p, Extract(f, ks), run, clock)
<1>1. /\ Busy /\ rebuild.left # {} /\ UNCHANGED <<disk, index, changed, gone, bereft>>
      /\ \/ behind' = behind /\ graph' \in {graph, RecordBuild(graph, kind, "partial", clock)}
         \/ behind' = behind \ {p} /\ graph' = replaced
  BY DEF RebuildSource
<1> HIDE DEF replaced, run, kind
<1>2. /\ OfIndex(ks, index) /\ rebuild.left \subseteq DOMAIN ks
      /\ \A q \in DOMAIN ks : q \in changed \/ disk[q] \in Blocked \/ ks[q] = Source(q, index[q], index[q])
  BY <1>1 DEF Sound, RebuildOk
<1>3. \A q \in DOMAIN ks : /\ q \in Path /\ index[q] # Absent
                          /\ ks[q].path = q /\ ks[q].chunks = Source(q, index[q], index[q]).chunks
  BY <1>2 DEF OfIndex, IndexHas
<1>4. p \in rebuild.left
  <2>1. rebuild.left \subseteq Path
    BY <1>2, <1>3
  <2> QED
    BY <1>1, <2>1, NextSource
<1> HIDE DEF p, ks
<1>5. p \in Path /\ p \in DOMAIN ks /\ index[p] # Absent
  BY <1>2, <1>3, <1>4
<1>6. Sources(ks) /\ SourceOf(f, p)
  <2>1. index[p] \in TextOf[p] \cup HalfOf[p]
    BY <1>5 DEF Sound, TypeOk
  <2> QED
    BY <1>3, <1>5, <2>1 DEF Sources, SourceOf
<1>7. gone \in SUBSET Path /\ gone \cap DOMAIN ks = {}
  BY <1>3 DEF Sound, TypeOk, GoneOk
<1>8. /\ GraphOk(graph) /\ Clear(graph, gone) /\ EdgesFollowIndex
  BY DEF Good
<1>9. CASE behind' = behind /\ graph' \in {graph, RecordBuild(graph, kind, "partial", clock)}
  <2>1. GraphOk(graph') /\ Clear(graph', gone') /\ graph'.edges = graph.edges
    BY <1>1, <1>8, <1>9, Recorded
  <2>2. \A q, own : Keeps(graph, bereft, q, own) => Keeps(graph', bereft', q, own)
    BY <1>1, <2>1 DEF Keeps, OwnOf
  <2>3. \A q \in Path \ (changed' \cup behind') : Follows(graph', bereft', q, index', disk')
    BY <1>1, <1>8, <1>9, <2>2, EdgesFollow DEF Follows
  <2> QED
    BY <2>1, <2>3, EdgesFollowNext DEF Good
<1>10. CASE behind' = behind \ {p} /\ graph' = replaced
  <2>1. /\ GraphOk(replaced)
        /\ \A D \in SUBSET Path : Clear(graph, D) /\ D \cap DOMAIN ks = {} => Clear(replaced, D)
        /\ Replaces(graph, replaced, p, Own(f).edges)
    BY <1>5, <1>6, <1>8, ExtractReplaced DEF replaced
  <2>2. GraphOk(graph') /\ Clear(graph', gone')
    BY <1>1, <1>7, <1>8, <1>10, <2>1
  <2>3. \A q, own : q # p /\ Keeps(graph, bereft, q, own) => Keeps(graph', bereft', q, own)
    BY <1>1, <1>10, <2>1 DEF Replaces
  <2>4. p \in changed' \cup behind' \/ Follows(graph', bereft', p, index', disk')
    <3> SUFFICES ASSUME p \notin changed, disk[p] \notin Blocked
                 PROVE  Follows(graph', bereft', p, index', disk')
      BY <1>1 DEF Follows
    <3>1. CASE f = Source(p, index[p], index[p])
      <4>1. index[p] \in TextOf[p]
        BY <1>5 DEF Sound, TypeOk, IndexFollowsDisk
      <4>2. OwnText(p, index') = Own(f).edges
        BY <1>1, <1>5, <3>1, <4>1 DEF OwnText, OwnEdges
      <4> QED
        BY <1>10, <2>1, <4>2 DEF Follows, Replaces
    <3>2. CASE f # Source(p, index[p], index[p])
      BY <1>1, <1>2, <1>5, <3>2 DEF Follows
    <3> QED
      BY <3>1, <3>2
  <2>5. EdgesFollowIndex'
    BY <1>1, <1>5, <1>8, <1>10, <2>3, <2>4, OneFileFollows
  <2> QED
    BY <2>2, <2>5 DEF Good
<1> QED
  BY <1>1, <1>9, <1>10

-----------------------------------------------------------------------------
(* The theorems.                                                           *)

LEMMA InitOk == OverlayInit => Sound /\ Good
<1> SUFFICES ASSUME OverlayInit PROVE Sound /\ Good
  OBVIOUS
<1>1. TypeOk /\ IndexFollowsDisk /\ GoneOk
  BY TextFacts DEF OverlayInit, TypeOk, IndexFollowsDisk, GoneOk
<1>2. RebuildOk /\ KnownOk
  BY DEF OverlayInit, RebuildOk, KnownOk, Idle, Busy, None, Unloaded
<1>3. GraphOk(graph) /\ graph.edges = {}
  BY EmptyIsOk DEF OverlayInit
<1>4. Clear(graph, gone)
  BY <1>3 DEF Clear
<1>5. \A p \in Path \ (changed \cup behind) : Follows(graph, bereft, p, index, disk)
  BY <1>3 DEF OverlayInit, Follows, OwnText, Keeps, OwnOf
<1> QED
  BY <1>1, <1>2, <1>3, <1>4, <1>5, EdgesFollow DEF Sound, Good

LEMMA StepOk == Sound /\ Good /\ [OverlayNext]_overlayVars => Sound' /\ Good'
<1> SUFFICES ASSUME Sound, Good, [OverlayNext]_overlayVars PROVE Sound' /\ Good'
  OBVIOUS
<1>1. ASSUME NEW p \in Path, NEW fault, Handle(p, fault) PROVE Sound' /\ Good'
  BY <1>1, IndexFileSound, IndexFileGood, IndexNothingSound, IndexNothingGood, RemoveFileSound, RemoveFileGood
     DEF Handle
<1>2. ASSUME NEW p \in Path, IgnoreBlocked(p) \/ IndexThenDie(p) \/ FailHandling(p) PROVE Sound' /\ Good'
  BY <1>2, IgnoreBlockedSound, IndexThenDieSound, FailHandlingSound, OtherHandlersGood
<1>3. ASSUME NEW fault, Work(fault) PROVE Sound' /\ Good'
  BY <1>3, MaintainSound, MaintainGood, RebuildSourceSound, RebuildSourceGood, EndRebuildSound, EndRebuildGood
     DEF Work
<1>4. CASE BeginIndexCommand \/ BeginGraphOnly
  BY <1>4, BeginIndexCommandSound, BeginGraphOnlySound, BeginningsGood
<1>5. CASE Start \/ Kill \/ Tick
  BY <1>5, ProcessSound, ProcessGood
<1>6. ASSUME NEW p \in Path, NEW t \in TextOf[p] \cup {Absent}, Edit(p, t) PROVE Sound' /\ Good'
  BY <1>6, EditSound, EditGood
<1>7. CASE UNCHANGED overlayVars
  <2>1. UNCHANGED <<disk, index, graph, known, mode, rebuild, changed, behind, gone, bereft>>
    BY <1>7 DEF overlayVars
  <2>2. Sound'
    BY <2>1 DEF Sound, TypeOk, IndexFollowsDisk, GoneOk, KnownOk, RebuildOk, Busy, Locked
  <2>3. Good'
    BY <2>1, SameGraphGood
  <2> QED
    BY <2>2, <2>3
<1>8. CASE Edits
  BY <1>6, <1>8 DEF Edits
<1>9. CASE Calm
  BY <1>1, <1>2, <1>3, <1>4, <1>5, <1>9 DEF Calm
<1>10. CASE Trouble
  BY <1>1, <1>2, <1>3, <1>5, <1>10 DEF Trouble
<1> QED
  BY <1>7, <1>8, <1>9, <1>10 DEF OverlayNext

\* What the graph and the cache hold agrees with the index, and each file handled last
\* agrees with the disk (the coordinator and the repository).
THEOREM OverlayInvariant == OverlaySpec => [](Sound /\ Good)
BY InitOk, StepOk, PTL DEF OverlaySpec

\* Whatever was killed, failed, deleted or rebuilt, the graph has the edges of the text
\* indexed, and the cache of sources the files indexed (updateGraphSource,
\* replaceGraphSourceWithEmptyEdges, rebuildGraphFromMetadataLocked).
THEOREM GraphFollows == OverlaySpec => []GraphFollowsIndex
<1>1. Sound => KnownFollowsIndex
  <2> SUFFICES ASSUME Sound, known.loaded PROVE KnownFollowsIndex
    BY DEF KnownFollowsIndex
  <2>1. Agrees(known.sources, index, disk, changed) /\ MissesNone(known.sources, index, disk, changed)
    BY DEF Sound, KnownOk, KnownHas
  <2> QED
    BY <2>1 DEF KnownFollowsIndex, Agrees, IndexHas, MissesNone
<1>2. Sound /\ Good => GraphFollowsIndex
  BY <1>1 DEF Good, GraphFollowsIndex
<1> QED
  BY <1>2, OverlayInvariant, PTL

\* Once the graph was told that a file is deleted, no active edge of any file leads to
\* it until it is indexed again (MarkEdgesToSourceStale, removeGraphKnownSource).
THEOREM NoEdgeToDeleted == OverlaySpec => []NoLiveEdgeToDeleted
<1>1. Good => NoLiveEdgeToDeleted
  BY DEF Good, Clear, NoLiveEdgeToDeleted
<1> QED
  BY <1>1, OverlayInvariant, PTL

-----------------------------------------------------------------------------
(* Questions: what the operators of GraphQuery keep of a list.             *)

\* A set of naturals has a least one.
LEMMA LeastIsThere == ASSUME NEW S \in SUBSET Nat, S # {}  PROVE \E n \in S : \A m \in S : n <= m
<1>1. PICK n \in S : \A m \in S : ~(<<m, n>> \in OpToRel(<, Nat))
  BY NatLessThanWellFounded, WFMin, Zenon
<1>2. \A m \in S : ~(m < n)
  BY <1>1, Zenon DEF OpToRel
<1>3. \A m \in S : n <= m
  BY <1>2
<1> QED
  BY <1>3

\* How Chosen goes through a list.
Taken(s, places, k, before) == IF k \in places THEN Append(before, s[k]) ELSE before

LEMMA ChosenIs ==
    ASSUME NEW s, Len(s) \in Nat, NEW places
    PROVE  \E f : /\ f[0] = <<>> /\ Chosen(s, places) = f[Len(s)]
                  /\ \A k \in 1..Len(s) : f[k] = Taken(s, places, k, f[k - 1])
<1> DEFINE N == Len(s)
           Upto(n) == \E f : DOMAIN f = 0..n /\ f[0] = <<>> /\ \A k \in 1..n : f[k] = Taken(s, places, k, f[k - 1])
           bad == {n \in 0..N : ~Upto(n)}
           Is(f) == f = [n \in 0..N |-> IF n = 0 THEN <<>> ELSE Taken(s, places, n, f[n - 1])]
           g == CHOOSE g : Is(g)
<1>1. bad = {}
  <2>1. SUFFICES ASSUME bad # {}  PROVE FALSE
    OBVIOUS
  <2>2. PICK m \in bad : \A k \in bad : m <= k
    <3>1. bad \in SUBSET Nat
      OBVIOUS
    <3> HIDE DEF bad
    <3> QED
      BY <2>1, <3>1, LeastIsThere
  <2>3. m \in 0..N /\ ~Upto(m)
    OBVIOUS
  <2>4. CASE m = 0
    <3> DEFINE h == [n \in 0..0 |-> <<>>]
    <3>1. DOMAIN h = 0..m /\ h[0] = <<>> /\ \A k \in 1..m : h[k] = Taken(s, places, k, h[k - 1])
      BY <2>4
    <3> HIDE DEF h
    <3> QED
      BY <2>3, <3>1
  <2>5. CASE m # 0
    <3>1. m - 1 \in 0..N /\ m \in 1..N
      BY <2>3, <2>5
    <3>2. Upto(m - 1)
      <4> HIDE DEF Upto
      <4>1. ~(m <= m - 1)
        BY <3>1
      <4> QED
        BY <2>2, <3>1, <4>1
    <3>3. PICK f : /\ DOMAIN f = 0..(m - 1) /\ f[0] = <<>>
                   /\ \A k \in 1..(m - 1) : f[k] = Taken(s, places, k, f[k - 1])
      BY <3>2
    <3> DEFINE h == [n \in 0..m |-> IF n = m THEN Taken(s, places, m, f[m - 1]) ELSE f[n]]
    <3>4. DOMAIN h = 0..m /\ h[0] = <<>>
      BY <3>1, <3>3
    <3>5. \A k \in 1..m : h[k] = Taken(s, places, k, h[k - 1])
      <4> TAKE k \in 1..m
      <4>1. h[k - 1] = f[k - 1]
        BY <3>1
      <4>2. CASE k = m
        BY <3>1, <4>1, <4>2
      <4>3. CASE k # m
        BY <3>1, <3>3, <4>1, <4>3
      <4> QED
        BY <4>2, <4>3
    <3> HIDE DEF h
    <3> QED
      BY <2>3, <3>4, <3>5
  <2> QED
    BY <2>4, <2>5
<1>2. PICK f : DOMAIN f = 0..N /\ f[0] = <<>> /\ \A k \in 1..N : f[k] = Taken(s, places, k, f[k - 1])
  <2>1. N \in 0..N /\ N \notin bad
    <3> HIDE DEF bad
    <3> QED
      BY <1>1
  <2> QED
    BY <2>1
<1> DEFINE h == [n \in 0..N |-> f[n]]
<1>3. Is(h)
  <2>1. \A n \in 0..N : h[n] = f[n]
    OBVIOUS
  <2>2. \A n \in 0..N : f[n] = IF n = 0 THEN <<>> ELSE Taken(s, places, n, f[n - 1])
    BY <1>2
  <2>3. \A n \in 0..N : n # 0 => h[n - 1] = f[n - 1]
    OBVIOUS
  <2>4. \A n \in 0..N : f[n] = IF n = 0 THEN <<>> ELSE Taken(s, places, n, h[n - 1])
    <3> HIDE DEF h
    <3> QED
      BY <2>2, <2>3
  <2> QED
    BY <2>4
<1>4. Is(g)
  <2> HIDE DEF h
  <2> QED
    BY <1>3, Zenon
<1>5. Chosen(s, places) = g[N]
  <2>1. \A u, n : Taken(s, places, n, u[n - 1]) = IF n \in places THEN Append(u[n - 1], s[n]) ELSE u[n - 1]
    BY DEF Taken
  <2> QED
    BY <2>1, Zenon DEF Chosen, Taken
<1> HIDE DEF g
<1>6. g[0] = <<>> /\ \A k \in 1..N : g[k] = Taken(s, places, k, g[k - 1])
  <2>1. \A n \in 0..N : g[n] = IF n = 0 THEN <<>> ELSE Taken(s, places, n, g[n - 1])
    BY <1>4, Zenon
  <2>2. 0 \in 0..N /\ \A k \in 1..N : k \in 0..N /\ k # 0
    OBVIOUS
  <2> QED
    BY <2>1, <2>2, Zenon
<1> QED
  BY <1>5, <1>6

\* Chosen lists what is at the places, in their order.
Marking(s, places, list, h) ==
    /\ h \in [1..Len(list) -> places] /\ \A k \in 1..Len(list) : list[k] = s[h[k]]
    /\ \A k, l \in 1..Len(list) : k < l => h[k] < h[l]
    /\ \A i \in places : \E k \in 1..Len(list) : h[k] = i

LEMMA ChosenKeeps ==
    ASSUME NEW S, NEW s \in Seq(S), NEW places \in SUBSET (1..Len(s))
    PROVE  Chosen(s, places) \in Seq(S) /\ \E h : Marking(s, places, Chosen(s, places), h)
<1> PICK N \in Nat : N = Len(s)
  OBVIOUS
<1> PICK f : /\ f[0] = <<>> /\ Chosen(s, places) = f[N]
             /\ \A k \in 1..N : f[k] = Taken(s, places, k, f[k - 1])
  BY ChosenIs
<1> DEFINE Below(n) == places \cap 1..n
           Upto(n) == f[n] \in Seq(S) /\ \E h : Marking(s, Below(n), f[n], h)
           bad == {n \in 0..N : ~Upto(n)}
<1>1. bad = {}
  <2>1. SUFFICES ASSUME bad # {}  PROVE FALSE
    OBVIOUS
  <2>2. PICK m \in bad : \A k \in bad : m <= k
    <3>1. bad \in SUBSET Nat
      OBVIOUS
    <3> HIDE DEF bad
    <3> QED
      BY <2>1, <3>1, LeastIsThere
  <2>3. m \in 0..N /\ ~Upto(m)
    OBVIOUS
  <2>4. ASSUME m = 0  PROVE FALSE
    <3> DEFINE h == [k \in 1..0 |-> 0]
    <3>1. f[m] = <<>> /\ Below(m) = {} /\ Len(f[m]) = 0
      BY <2>4
    <3>2. Marking(s, Below(m), f[m], h)
      BY <3>1 DEF Marking
    <3>3. f[m] \in Seq(S)
      BY <3>1
    <3> HIDE DEF h, Below
    <3> QED
      BY <2>3, <3>2, <3>3
  <2>5. ASSUME m # 0  PROVE FALSE
    <3>1. m - 1 \in 0..N /\ m \in 1..N /\ m \in Nat
      BY <2>3, <2>5
    <3>2. Upto(m - 1)
      <4> HIDE DEF Upto
      <4>1. ~(m <= m - 1)
        BY <3>1
      <4> QED
        BY <2>2, <3>1, <4>1
    <3>3. PICK h : Marking(s, Below(m - 1), f[m - 1], h)
      BY <3>2
    <3> DEFINE old == f[m - 1]
    <3>4. old \in Seq(S) /\ f[m] = Taken(s, places, m, old)
      BY <3>1, <3>2
    <3>5. CASE m \notin places
      <4>1. f[m] = old /\ Below(m) = Below(m - 1)
        BY <3>1, <3>4, <3>5 DEF Taken
      <4> HIDE DEF old, Below
      <4> QED
        BY <2>3, <3>3, <3>4, <4>1 DEF old
    <3>6. CASE m \in places
      <4> PICK n \in Nat : n = Len(old)
        BY <3>4
      <4> DEFINE g == [k \in 1..(n + 1) |-> IF k = n + 1 THEN m ELSE h[k]]
      <4>1. s[m] \in S
        BY <3>1
      <4>2. f[m] = Append(old, s[m])
        BY <3>4, <3>6 DEF Taken
      <4> HIDE DEF old
      <4>3. /\ f[m] \in Seq(S) /\ Len(f[m]) = n + 1 /\ f[m][n + 1] = s[m]
            /\ \A k \in 1..n : f[m][k] = old[k]
        BY <3>4, <4>1, <4>2
      <4>4. /\ h \in [1..n -> Below(m - 1)] /\ \A k \in 1..n : old[k] = s[h[k]]
            /\ \A k, l \in 1..n : k < l => h[k] < h[l]
            /\ \A i \in Below(m - 1) : \E k \in 1..n : h[k] = i
        BY <3>3 DEF Marking, old
      <4>5. /\ 1..(n + 1) = (1..n) \cup {n + 1} /\ n + 1 \notin 1..n
            /\ Below(m) = Below(m - 1) \cup {m} /\ \A i \in Below(m - 1) : i < m
        <5>1. 1..(n + 1) = (1..n) \cup {n + 1} /\ n + 1 \notin 1..n
          OBVIOUS
        <5>2. 1..m = 1..(m - 1) \cup {m} /\ \A i \in 1..(m - 1) : i < m
          BY <3>1
        <5> QED
          BY <3>6, <5>1, <5>2
      <4>6. m \in Int /\ \A i \in Below(m) : i \in Int
        BY <3>1
      <4> HIDE DEF Below
      <4>7. g[n + 1] = m /\ \A k \in 1..n : g[k] = h[k]
        BY <4>5
      <4>8. g \in [1..(n + 1) -> Below(m)]
        BY <4>4, <4>5
      <4> HIDE DEF g
      <4>9. \A k \in 1..(n + 1) : f[m][k] = s[g[k]]
        BY <4>3, <4>4, <4>5, <4>7
      <4>10. \A k, l \in 1..(n + 1) : k < l => g[k] < g[l]
        <5> SUFFICES ASSUME NEW k \in 1..(n + 1), NEW l \in 1..(n + 1), k < l  PROVE g[k] < g[l]
          OBVIOUS
        <5>1. k \in 1..n
          OBVIOUS
        <5>2. CASE l = n + 1
          BY <4>4, <4>5, <4>7, <5>1, <5>2
        <5>3. CASE l # n + 1
          BY <4>4, <4>5, <4>7, <5>1, <5>3
        <5> QED
          BY <5>2, <5>3
      <4>11. \A i \in Below(m) : \E k \in 1..(n + 1) : g[k] = i
        BY <4>4, <4>5, <4>7
      <4>12. Marking(s, Below(m), f[m], g)
        BY <4>3, <4>8, <4>9, <4>10, <4>11 DEF Marking
      <4> QED
        BY <2>3, <4>3, <4>12
    <3> QED
      BY <3>5, <3>6
  <2> QED
    BY <2>4, <2>5
<1>2. Upto(N)
  <2> HIDE DEF Upto
  <2>1. N \in 0..N
    OBVIOUS
  <2> QED
    BY <1>1, <2>1
<1>3. Below(N) = places
  OBVIOUS
<1> HIDE DEF Below
<1> QED
  BY <1>2, <1>3

-----------------------------------------------------------------------------
\* A total order gives each of a number of things a place.
Ahead(N, R, i) == {j \in 1..N : <<j, i>> \in R}
Totally(N, R) ==
    /\ \A i \in 1..N : <<i, i>> \notin R
    /\ \A i, j, k \in 1..N : <<i, j>> \in R /\ <<j, k>> \in R => <<i, k>> \in R
    /\ \A i, j \in 1..N : i # j => <<i, j>> \in R \/ <<j, i>> \in R

LEMMA PlacesAreAll ==
    ASSUME NEW N \in Nat, NEW R, Totally(N, R)
    PROVE  /\ \A i \in 1..N : Cardinality(Ahead(N, R, i)) \in 0..(N - 1)
           /\ \A i, j \in 1..N : <<i, j>> \in R => Cardinality(Ahead(N, R, i)) < Cardinality(Ahead(N, R, j))
           /\ \A k \in 1..N : \E i \in 1..N : Cardinality(Ahead(N, R, i)) = k - 1
<1>1. IsFiniteSet(1..N) /\ Cardinality(1..N) = N
  BY FS_Interval
<1>2. ASSUME NEW i \in 1..N
      PROVE  IsFiniteSet(Ahead(N, R, i)) /\ Cardinality(Ahead(N, R, i)) \in 0..(N - 1)
  <2>1. Ahead(N, R, i) \in SUBSET ((1..N) \ {i})
    BY DEF Ahead, Totally
  <2>2. IsFiniteSet((1..N) \ {i}) /\ Cardinality((1..N) \ {i}) = N - 1
    BY <1>1, FS_RemoveElement
  <2>3. IsFiniteSet(Ahead(N, R, i)) /\ Cardinality(Ahead(N, R, i)) <= N - 1
    BY <2>1, <2>2, FS_Subset
  <2>4. Cardinality(Ahead(N, R, i)) \in Nat
    BY <2>3, FS_CardinalityType
  <2> QED
    BY <2>3, <2>4
<1>3. ASSUME NEW i \in 1..N, NEW j \in 1..N, <<i, j>> \in R
      PROVE  Cardinality(Ahead(N, R, i)) < Cardinality(Ahead(N, R, j))
  <2>1. Ahead(N, R, i) \in SUBSET Ahead(N, R, j) /\ i \in Ahead(N, R, j) /\ i \notin Ahead(N, R, i)
    BY <1>3 DEF Ahead, Totally
  <2>2. Cardinality(Ahead(N, R, i)) <= Cardinality(Ahead(N, R, j))
        /\ Cardinality(Ahead(N, R, i)) # Cardinality(Ahead(N, R, j))
    BY <1>2, <2>1, FS_Subset
  <2>3. Cardinality(Ahead(N, R, i)) \in Int /\ Cardinality(Ahead(N, R, j)) \in Int
    BY <1>2
  <2> QED
    BY <2>2, <2>3
<1>4. ASSUME NEW k \in 1..N  PROVE \E i \in 1..N : Cardinality(Ahead(N, R, i)) = k - 1
  <2> DEFINE f == [i \in 1..N |-> Cardinality(Ahead(N, R, i))]
  <2>1. f \in [1..N -> 0..(N - 1)] /\ \A i \in 1..N : f[i] = Cardinality(Ahead(N, R, i))
    BY <1>2
  <2> HIDE DEF f
  <2>2. \A i, j \in 1..N : i # j => f[i] # f[j]
    <3> SUFFICES ASSUME NEW i \in 1..N, NEW j \in 1..N, i # j  PROVE f[i] # f[j]
      OBVIOUS
    <3>1. f[i] \in Int /\ f[j] \in Int
      BY <2>1
    <3>2. CASE <<i, j>> \in R
      BY <1>3, <2>1, <3>1, <3>2
    <3>3. CASE <<j, i>> \in R
      BY <1>3, <2>1, <3>1, <3>3
    <3> QED
      BY <3>2, <3>3 DEF Totally
  <2>3. f \in Injection(1..N, 0..(N - 1))
    BY <2>1, <2>2 DEF Injection, IsInjective
  <2>4. IsFiniteSet(0..(N - 1)) /\ Cardinality(0..(N - 1)) = N
    <3>1. N - 1 \in Int /\ (N = 0 => 0 > N - 1) /\ (N # 0 => ~(0 > N - 1)) /\ N - 1 - 0 + 1 = N
      OBVIOUS
    <3> QED
      BY <3>1, FS_Interval
  <2>5. f \in Surjection(1..N, 0..(N - 1))
    BY <1>1, <2>3, <2>4, FS_Injection
  <2>6. k - 1 \in 0..(N - 1)
    OBVIOUS
  <2>7. PICK i \in 1..N : f[i] = k - 1
    BY <2>5, <2>6 DEF Surjection
  <2> QED
    BY <2>1, <2>7
<1> QED
  BY <1>2, <1>3, <1>4

\* What is in an order has a place there.
LEMMA PlaceIs ==
    ASSUME NEW order, Listing(order), NEW x \in ToSet(order)
    PROVE  Place(order, x) \in Nat /\ Place(order, x) \in DOMAIN order /\ order[Place(order, x)] = x
<1>1. \E i \in DOMAIN order : order[i] = x
  BY DEF ToSet
<1>2. Place(order, x) \in DOMAIN order /\ order[Place(order, x)] = x
  BY <1>1, Zenon DEF Place
<1>3. DOMAIN order = 1..Len(order) /\ Len(order) \in Nat
  BY DEF Listing
<1> QED
  BY <1>2, <1>3

\* The first of the ranks decides first.
LEMMA BeforeByFirst ==
    ASSUME NEW a, NEW b, DOMAIN a \in SUBSET Nat, 1 \in DOMAIN a, 0 \notin DOMAIN a, a[1] \in Int, b[1] \in Int
    PROVE  /\ Before(a, b) => a[1] <= b[1]
           /\ a[1] < b[1] => Before(a, b)
<1>1. a[1] < b[1] => Before(a, b)
  BY DEF Before
<1>2. ASSUME Before(a, b)  PROVE a[1] <= b[1]
  <2>1. PICK i \in DOMAIN a : a[i] < b[i] /\ \A j \in 1..(i - 1) : a[j] = b[j]
    BY <1>2 DEF Before
  <2>2. CASE i = 1
    BY <2>1, <2>2
  <2>3. CASE i # 1
    <3>1. 1 \in 1..(i - 1)
      BY <2>3
    <3> QED
      BY <2>1, <3>1
  <2> QED
    BY <2>2, <2>3
<1> QED
  BY <1>1, <1>2

LEMMA BeforeOfThree ==
    ASSUME NEW a1, NEW a2, NEW a3, NEW b1, NEW b2, NEW b3
    PROVE  Before(<<a1, a2, a3>>, <<b1, b2, b3>>)
             <=> \/ a1 < b1
                 \/ a1 = b1 /\ a2 < b2
                 \/ a1 = b1 /\ a2 = b2 /\ a3 < b3
<1> DEFINE a == <<a1, a2, a3>>
           b == <<b1, b2, b3>>
           Decides(i) == a[i] < b[i] /\ \A j \in 1..(i - 1) : a[j] = b[j]
<1>1. DOMAIN a = {1, 2, 3} /\ 1..(1 - 1) = {} /\ 1..(2 - 1) = {1} /\ 1..(3 - 1) = {1, 2}
  OBVIOUS
<1>2. /\ a[1] = a1 /\ a[2] = a2 /\ a[3] = a3
      /\ b[1] = b1 /\ b[2] = b2 /\ b[3] = b3
  OBVIOUS
<1>3. Before(a, b) <=> \E i \in DOMAIN a : Decides(i)
  BY DEF Before
<1> HIDE DEF a, b
<1>4. /\ Decides(1) <=> a1 < b1
      /\ Decides(2) <=> a2 < b2 /\ a1 = b1
      /\ Decides(3) <=> a3 < b3 /\ a1 = b1 /\ a2 = b2
  BY <1>1, <1>2
<1> HIDE DEF Decides
<1>5. Before(a, b) <=> Decides(1) \/ Decides(2) \/ Decides(3)
  BY <1>1, <1>3
<1>6. Before(a, b)
             <=> \/ a1 < b1
                 \/ a1 = b1 /\ a2 < b2
                 \/ a1 = b1 /\ a2 = b2 /\ a3 < b3
  BY <1>4, <1>5
<1> QED
  BY <1>6 DEF a, b

\* A list is one of what is in it.
LEMMA ListsItself ==
    ASSUME NEW N \in Nat, NEW s, s = [k \in 1..N |-> s[k]]
    PROVE  Len(s) = N /\ DOMAIN s = 1..N /\ s \in Seq(ToSet(s))
<1>1. DOMAIN s = 1..N
  OBVIOUS
<1>2. \A k \in 1..N : s[k] \in ToSet(s)
  BY <1>1 DEF ToSet
<1> DEFINE T == ToSet(s)
<1> HIDE DEF T
<1>3. \A k \in 1..N : s[k] \in T
  BY <1>2 DEF T
<1>4. s \in [1..N -> T]
  BY <1>3
<1>5. s \in Seq(T) /\ Len(s) = N
  BY <1>4
<1> QED
  BY <1>1, <1>5 DEF T

\* What a result has to be for the answers to be sorted.
IsResult(r) ==
    /\ r = [id |-> r.id, src |-> r.src, rel |-> r.rel, conf |-> r.conf, heur |-> r.heur, stale |-> r.stale,
            seed |-> r.seed, hops |-> r.hops, more |-> r.more, others |-> r.others]
    /\ r.conf \in 0..100 /\ r.src \in ToSet(SourceOrder) /\ r.id \in ToSet(IdOrder)
AreResults(results) ==
    /\ Len(results) \in Nat /\ DOMAIN results = 1..Len(results)
    /\ \A i \in 1..Len(results) : IsResult(results[i])
Apart(results) == \A i, j \in 1..Len(results) : i # j => results[i].id # results[j].id

\* Sorted, the results are the same, the more confident first.
Among(s, t) == \A k \in 1..Len(s) : \E i \in 1..Len(t) : s[k] = t[i]
LEMMA BestFirstSorts ==
    ASSUME NEW results, AreResults(results), Apart(results), NEW best, best = BestFirst(results)
    PROVE  /\ Len(best) = Len(results) /\ DOMAIN best = 1..Len(results) /\ best \in Seq(ToSet(best))
           /\ Among(best, results) /\ Among(results, best)
           /\ \A k, l \in 1..Len(results) : k < l => best[k].conf >= best[l].conf
<1> PICK N \in Nat : N = Len(results)
  BY DEF AreResults
<1> DEFINE r1(i) == 100 - results[i].conf
           r2(i) == Place(SourceOrder, results[i].src)
           r3(i) == Place(IdOrder, results[i].id)
           Less(i, j) == Before(<<r1(i), r2(i), r3(i)>>, <<r1(j), r2(j), r3(j)>>)
           R == {p \in (1..N) \X (1..N) : Less(p[1], p[2])}
           place(i) == Cardinality(Ahead(N, R, i))
           Forward(i) == {j \in DOMAIN results : Less(j, i)}
           pick(k) == CHOOSE i \in DOMAIN results : Cardinality(Forward(i)) = k - 1
<1>1. DOMAIN results = 1..N /\ \A i \in 1..N : IsResult(results[i])
  BY DEF AreResults
<1>2. ASSUME NEW i \in 1..N
      PROVE  r1(i) \in Int /\ r2(i) \in Int /\ r3(i) \in Int /\ results[i].conf \in 0..100
               /\ IdOrder[r3(i)] = results[i].id
  <2>1. results[i].conf \in 0..100 /\ results[i].src \in ToSet(SourceOrder) /\ results[i].id \in ToSet(IdOrder)
    BY <1>1 DEF IsResult
  <2>2. r2(i) \in Nat /\ r3(i) \in Nat /\ IdOrder[r3(i)] = results[i].id
    BY <2>1, QuestionAssumption, PlaceIs
  <2>3. \A x \in 0..100 : 100 - x \in Int
    OBVIOUS
  <2>4. \A x \in Nat : x \in Int
    OBVIOUS
  <2> QED
    BY <2>1, <2>2, <2>3, <2>4, Zenon
<1>3. \A i, j \in 1..N : Less(i, j) <=> \/ r1(i) < r1(j)
                                        \/ r1(i) = r1(j) /\ r2(i) < r2(j)
                                        \/ r1(i) = r1(j) /\ r2(i) = r2(j) /\ r3(i) < r3(j)
  BY BeforeOfThree
<1>4. \A i, j \in 1..N : i # j => r3(i) # r3(j)
  <2> SUFFICES ASSUME NEW i \in 1..N, NEW j \in 1..N, i # j, r3(i) = r3(j)  PROVE FALSE
    OBVIOUS
  <2>1. results[i].id = results[j].id
    BY <1>2
  <2> QED
    BY <2>1 DEF Apart
<1>5. \A i, j \in 1..N : <<i, j>> \in R <=> Less(i, j)
  <2> HIDE DEF Less
  <2> QED
    OBVIOUS
<1> HIDE DEF Less, r1, r2, r3
<1>6. \A i \in 1..N : Forward(i) = Ahead(N, R, i)
  <2> TAKE i \in 1..N
  <2> HIDE DEF R
  <2> QED
    BY <1>1, <1>5 DEF Ahead
<1> HIDE DEF R
<1>7. Totally(N, R)
  <2>1. ASSUME NEW i \in 1..N  PROVE <<i, i>> \notin R
    <3>1. r1(i) \in Int /\ r2(i) \in Int /\ r3(i) \in Int
      BY <1>2
    <3>2. ~Less(i, i)
      BY <1>3, <3>1
    <3> QED
      BY <1>5, <3>2
  <2>2. ASSUME NEW i \in 1..N, NEW j \in 1..N, NEW k \in 1..N, <<i, j>> \in R, <<j, k>> \in R  PROVE <<i, k>> \in R
    <3>1. Less(i, j) /\ Less(j, k)
      BY <2>2, <1>5
    <3>2. /\ r1(i) \in Int /\ r2(i) \in Int /\ r3(i) \in Int
          /\ r1(j) \in Int /\ r2(j) \in Int /\ r3(j) \in Int
          /\ r1(k) \in Int /\ r2(k) \in Int /\ r3(k) \in Int
      BY <1>2
    <3>3. Less(i, k)
      BY <1>3, <3>1, <3>2
    <3> QED
      BY <1>5, <3>3
  <2>3. ASSUME NEW i \in 1..N, NEW j \in 1..N, i # j  PROVE <<i, j>> \in R \/ <<j, i>> \in R
    <3>1. /\ r1(i) \in Int /\ r2(i) \in Int /\ r3(i) \in Int
          /\ r1(j) \in Int /\ r2(j) \in Int /\ r3(j) \in Int /\ r3(i) # r3(j)
      BY <1>2, <1>4, <2>3
    <3>2. Less(i, j) \/ Less(j, i)
      BY <1>3, <3>1
    <3> QED
      BY <1>5, <3>2
  <2> QED
    BY <2>1, <2>2, <2>3 DEF Totally
<1>8. /\ \A i \in 1..N : place(i) \in 0..(N - 1)
      /\ \A i, j \in 1..N : <<i, j>> \in R => place(i) < place(j)
      /\ \A k \in 1..N : \E i \in 1..N : place(i) = k - 1
  BY <1>7, PlacesAreAll
<1>9. best = [k \in DOMAIN results |-> results[pick(k)]]
  BY Zenon DEF BestFirst, Less, r1, r2, r3
<1>10. ASSUME NEW k \in 1..N  PROVE pick(k) \in 1..N /\ place(pick(k)) = k - 1
  <2>1. PICK i \in 1..N : place(i) = k - 1
    BY <1>8
  <2>2. i \in DOMAIN results /\ Cardinality(Forward(i)) = k - 1
    BY <1>1, <1>6, <2>1, Zenon
  <2> HIDE DEF Forward
  <2>3. pick(k) \in DOMAIN results /\ Cardinality(Forward(pick(k))) = k - 1
    BY <2>2, Zenon
  <2> HIDE DEF pick
  <2> QED
    BY <1>1, <1>6, <2>3, Zenon
<1> HIDE DEF place, Forward
<1> HIDE DEF pick
<1>11. DOMAIN best = 1..N /\ \A k \in 1..N : best[k] = results[pick(k)]
  BY <1>1, <1>9
<1>12. Len(best) = N
  BY <1>1, <1>9
<1>13. ASSUME NEW i \in 1..N  PROVE \E k \in 1..N : best[k] = results[i]
  <2> PICK t \in 0..(N - 1) : t = place(i)
    BY <1>8
  <2> DEFINE k == t + 1
  <2>1. k \in 1..N /\ k - 1 = t
    OBVIOUS
  <2> HIDE DEF k
  <2>2. pick(k) \in 1..N /\ place(pick(k)) = place(i)
    BY <1>10, <2>1
  <2>3. pick(k) = i
    <3>1. place(pick(k)) = t /\ place(i) = t /\ ~(t < t)
      BY <2>2
    <3>2. ~(<<pick(k), i>> \in R) /\ ~(<<i, pick(k)>> \in R)
      BY <1>8, <2>2, <3>1, Zenon
    <3> QED
      BY <1>7, <2>2, <3>2 DEF Totally
  <2> QED
    BY <1>11, <2>1, <2>3
<1>14. ASSUME NEW k \in 1..N, NEW l \in 1..N, k < l  PROVE best[k].conf >= best[l].conf
  <2>1. pick(k) \in 1..N /\ pick(l) \in 1..N /\ best[k] = results[pick(k)] /\ best[l] = results[pick(l)]
    BY <1>10, <1>11
  <2>2. ~(<<pick(l), pick(k)>> \in R)
    <3>1. place(pick(k)) = k - 1 /\ place(pick(l)) = l - 1
      BY <1>10
    <3>2. ~(l - 1 < k - 1)
      BY <1>14
    <3> QED
      BY <1>8, <2>1, <3>1, <3>2
  <2>3. ~(r1(pick(l)) < r1(pick(k)))
    BY <1>3, <1>5, <2>1, <2>2
  <2>4. results[pick(k)].conf \in 0..100 /\ results[pick(l)].conf \in 0..100
    BY <1>2, <2>1
  <2>5. r1(pick(l)) = 100 - results[pick(l)].conf /\ r1(pick(k)) = 100 - results[pick(k)].conf
    BY DEF r1
  <2>6. \A x, y \in 0..100 : ~(100 - y < 100 - x) => x >= y
    OBVIOUS
  <2>7. results[pick(k)].conf >= results[pick(l)].conf
    BY <2>3, <2>4, <2>5, <2>6, Zenon
  <2> QED
    BY <2>1, <2>7
<1>15. \A k \in 1..N : \E i \in 1..N : best[k] = results[i]
  BY <1>10, <1>11
<1>16. best \in Seq(ToSet(best))
  <2>1. best = [k \in 1..N |-> best[k]]
    <3>1. DOMAIN results = 1..N
      BY <1>1
    <3> DEFINE g == [k \in DOMAIN results |-> results[pick(k)]]
    <3>2. best = g
      BY <1>9
    <3>3. g = [k \in DOMAIN results |-> g[k]]
      OBVIOUS
    <3> HIDE DEF g
    <3> QED
      BY <3>1, <3>2, <3>3
  <2> QED
    BY <2>1, ListsItself
<1>17. Among(best, results) /\ Among(results, best)
  BY <1>12, <1>13, <1>15, Zenon DEF Among
<1> QED
  BY <1>11, <1>12, <1>14, <1>16, <1>17

-----------------------------------------------------------------------------
\* One of some edges comes before all others.
LEMMA BestEdgeIsThere ==
    ASSUME NEW S \in SUBSET ToSet(EdgeOrder), S # {}
    PROVE  \E f \in S : \A g \in S \ {f} : Before(EdgeRank(f), EdgeRank(g))
<1> DEFINE c(f) == 100 - f.conf
           b(f) == Bit(f.heur)
           p(f) == Place(EdgeOrder, f)
<1>1. ASSUME NEW f \in S  PROVE c(f) \in Nat /\ b(f) \in Nat /\ p(f) \in Nat /\ EdgeOrder[p(f)] = f
  <2>1. f.conf \in 0..100
    BY QuestionAssumption
  <2>2. \A x \in 0..100 : 100 - x \in Nat
    OBVIOUS
  <2>3. c(f) \in Nat
    BY <2>1, <2>2, Zenon
  <2>4. b(f) \in Nat
    BY DEF Bit
  <2>5. p(f) \in Nat /\ EdgeOrder[p(f)] = f
    BY QuestionAssumption, PlaceIs
  <2> QED
    BY <2>3, <2>4, <2>5
<1>2. \A f, g : Before(EdgeRank(f), EdgeRank(g)) <=> \/ c(f) < c(g)
                                                     \/ c(f) = c(g) /\ b(f) < b(g)
                                                     \/ c(f) = c(g) /\ b(f) = b(g) /\ p(f) < p(g)
  <2> TAKE f, g
  <2>1. EdgeRank(f) = <<c(f), b(f), p(f)>> /\ EdgeRank(g) = <<c(g), b(g), p(g)>>
    BY Zenon DEF EdgeRank
  <2> HIDE DEF c, b, p
  <2> QED
    BY <2>1, BeforeOfThree
<1> HIDE DEF c, b, p
<1>3. PICK x \in S : \A g \in S : c(x) <= c(g)
  <2> DEFINE T == {c(f) : f \in S}
  <2>1. T \in SUBSET Nat /\ T # {}
    BY <1>1
  <2> HIDE DEF T
  <2>2. PICK n \in T : \A m \in T : n <= m
    BY <2>1, LeastIsThere
  <2> QED
    BY <2>2 DEF T
<1> DEFINE S1 == {g \in S : c(g) = c(x)}
<1>4. PICK y \in S1 : \A g \in S1 : b(y) <= b(g)
  <2> DEFINE T == {b(f) : f \in S1}
  <2>1. T \in SUBSET Nat /\ T # {}
    BY <1>1
  <2> HIDE DEF T
  <2>2. PICK n \in T : \A m \in T : n <= m
    BY <2>1, LeastIsThere
  <2> QED
    BY <2>2 DEF T
<1> DEFINE S2 == {g \in S1 : b(g) = b(y)}
<1>5. PICK z \in S2 : \A g \in S2 : p(z) <= p(g)
  <2> DEFINE T == {p(f) : f \in S2}
  <2>1. T \in SUBSET Nat /\ T # {}
    BY <1>1
  <2> HIDE DEF T
  <2>2. PICK n \in T : \A m \in T : n <= m
    BY <2>1, LeastIsThere
  <2> QED
    BY <2>2 DEF T
<1>6. ASSUME NEW g \in S, g # z  PROVE Before(EdgeRank(z), EdgeRank(g))
  <2>1. c(z) = c(x) /\ b(z) = b(y) /\ z \in S
    OBVIOUS
  <2>2. c(z) \in Nat /\ b(z) \in Nat /\ p(z) \in Nat /\ c(g) \in Nat /\ b(g) \in Nat /\ p(g) \in Nat
    BY <1>1, <2>1
  <2>3. c(z) <= c(g)
    BY <1>3, <2>1
  <2>4. c(g) = c(z) => b(z) <= b(g)
    BY <1>4, <2>1
  <2>5. c(g) = c(z) /\ b(g) = b(z) => p(z) <= p(g)
    BY <1>5, <2>1
  <2>6. p(g) # p(z)
    BY <1>1, <1>6, <2>1
  <2> QED
    BY <1>2, <2>2, <2>3, <2>4, <2>5, <2>6
<1>7. z \in S
  OBVIOUS
<1> QED
  BY <1>6, <1>7

\* Of the edges of a kind between two nodes the best is kept.
Alike(e, f) == f.from = e.from /\ f.to = e.to /\ f.kind = e.kind
LEMMA MergeKeepsBest ==
    ASSUME NEW edges \in Seq(ToSet(EdgeOrder)), NEW merged, merged = MergeCompeting(edges)
    PROVE  /\ merged \in Seq(ToSet(edges)) /\ ToSet(edges) \in SUBSET ToSet(EdgeOrder)
           /\ \A k \in 1..Len(merged) : merged[k] \in ToSet(edges)
           /\ \A e \in ToSet(edges) : \E k \in 1..Len(merged) : Alike(merged[k], e) /\ merged[k].conf >= e.conf
           /\ \A k, l \in 1..Len(merged) : k # l => ~Alike(merged[k], merged[l])
<1> DEFINE same(e) == {f \in ToSet(edges) : f.from = e.from /\ f.to = e.to /\ f.kind = e.kind}
           best(e) == CHOOSE f \in same(e) : \A g \in same(e) \ {f} : Before(EdgeRank(f), EdgeRank(g))
           places  == {i \in DOMAIN edges : \A j \in 1..(i - 1) : edges[j] \notin same(edges[i])}
           firsts  == Chosen(edges, places)
<1> PICK N \in Nat : N = Len(edges) /\ DOMAIN edges = 1..N
  OBVIOUS
<1>1. merged = [i \in DOMAIN firsts |-> best(firsts[i])]
  BY Zenon DEF MergeCompeting
<1>2. ToSet(edges) \in SUBSET ToSet(EdgeOrder)
  BY DEF ToSet
<1>3. ASSUME NEW e \in ToSet(edges)
      PROVE  best(e) \in same(e) /\ \A g \in same(e) : best(e).conf >= g.conf
  <2>1. same(e) \in SUBSET ToSet(EdgeOrder) /\ same(e) # {}
    BY <1>2
  <2> HIDE DEF same
  <2>2. \E f \in same(e) : \A g \in same(e) \ {f} : Before(EdgeRank(f), EdgeRank(g))
    BY <2>1, BestEdgeIsThere
  <2>3. best(e) \in same(e) /\ \A g \in same(e) \ {best(e)} : Before(EdgeRank(best(e)), EdgeRank(g))
    BY <2>2, Zenon
  <2> HIDE DEF best
  <2>4. \A f \in same(e) : f.conf \in 0..100
    BY <2>1, QuestionAssumption
  <2>5. ASSUME NEW g \in same(e), g # best(e)  PROVE best(e).conf >= g.conf
    <3>1. Before(EdgeRank(best(e)), EdgeRank(g))
      BY <2>3, <2>5
    <3> DEFINE a == EdgeRank(best(e))
               b == EdgeRank(g)
    <3>2. DOMAIN a = {1, 2, 3} /\ a[1] = 100 - best(e).conf /\ b[1] = 100 - g.conf
      BY DEF EdgeRank
    <3>3. best(e).conf \in 0..100 /\ g.conf \in 0..100
      BY <2>3, <2>4
    <3> PICK x \in 0..100, y \in 0..100 : x = best(e).conf /\ y = g.conf
      BY <3>3
    <3> HIDE DEF a, b, best
    <3>4. a[1] = 100 - x /\ b[1] = 100 - y
      BY <3>2
    <3>5. a[1] \in Int /\ b[1] \in Int
      BY <3>4
    <3>6. DOMAIN a \in SUBSET Nat /\ 1 \in DOMAIN a /\ 0 \notin DOMAIN a
      BY <3>2
    <3>7. a[1] <= b[1]
      BY <3>1, <3>5, <3>6, BeforeByFirst DEF a, b
    <3>8. x >= y
      BY <3>4, <3>7
    <3> QED
      BY <3>8
  <2>6. best(e).conf >= best(e).conf
    <3>1. \A x \in 0..100 : x >= x
      OBVIOUS
    <3> QED
      BY <2>3, <2>4, <3>1, Zenon
  <2> QED
    BY <2>3, <2>5, <2>6
<1> HIDE DEF best
<1>4. places \in SUBSET (1..N)
  OBVIOUS
<1>5. PICK h : Marking(edges, places, firsts, h)
  <2> HIDE DEF places
  <2> QED
    BY <1>4, ChosenKeeps
<1>6. firsts \in Seq(ToSet(EdgeOrder))
  <2> HIDE DEF places
  <2> QED
    BY <1>4, ChosenKeeps
<1> HIDE DEF firsts
<1> PICK K \in Nat : K = Len(firsts) /\ DOMAIN firsts = 1..K
  BY <1>6
<1>7. Len(merged) = K /\ DOMAIN merged = 1..K /\ \A k \in 1..K : merged[k] = best(firsts[k])
  BY <1>1
<1>8. /\ h \in [1..K -> places] /\ \A k \in 1..K : firsts[k] = edges[h[k]]
      /\ \A k, l \in 1..K : k < l => h[k] < h[l]
      /\ \A i \in places : \E k \in 1..K : h[k] = i
  BY <1>5 DEF Marking
<1>9. ASSUME NEW k \in 1..K
      PROVE  /\ h[k] \in places /\ h[k] \in 1..N /\ edges[h[k]] \in ToSet(edges)
             /\ merged[k] = best(edges[h[k]])
  <2>1. h[k] \in places
    BY <1>8
  <2>2. h[k] \in 1..N
    BY <1>4, <2>1
  <2> HIDE DEF places
  <2> QED
    BY <1>7, <1>8, <2>1, <2>2 DEF ToSet
<1>10. \A k \in 1..K : merged[k] \in same(edges[h[k]])
  <2> HIDE DEF same, places
  <2> QED
    BY <1>3, <1>9
<1>11. ASSUME NEW e \in ToSet(edges)  PROVE \E k \in 1..K : Alike(merged[k], e) /\ merged[k].conf >= e.conf
  <2> DEFINE T == {i \in 1..N : edges[i] \in same(e)}
  <2>1. T \in SUBSET Nat
    OBVIOUS
  <2>2. T # {}
    BY DEF ToSet
  <2>3. PICK j \in T : \A m \in T : j <= m
    <3> HIDE DEF T
    <3> QED
      BY <2>1, <2>2, LeastIsThere
  <2>4. j \in 1..N /\ edges[j] \in same(e) /\ edges[j] \in ToSet(edges)
    OBVIOUS
  <2>5. same(edges[j]) = same(e) /\ e \in same(e)
    BY <2>4
  <2>6. ASSUME NEW m \in 1..(j - 1)  PROVE edges[m] \notin same(edges[j])
    <3>1. m \in 1..N /\ ~(j <= m)
      BY <2>4
    <3> HIDE DEF same
    <3>2. m \notin T
      BY <2>3, <3>1
    <3> QED
      BY <2>5, <3>1, <3>2
  <2>7. j \in places
    <3> HIDE DEF same
    <3> QED
      BY <2>4, <2>6
  <2>8. PICK k \in 1..K : h[k] = j
    BY <1>8, <2>7
  <2>9. merged[k] = best(edges[j])
    BY <1>9, <2>8
  <2>10. best(edges[j]) \in same(e) /\ best(edges[j]).conf >= e.conf
    <3> HIDE DEF same, places, T
    <3> QED
      BY <1>3, <2>4, <2>5
  <2>11. Alike(merged[k], e)
    BY <2>9, <2>10 DEF Alike
  <2> QED
    BY <2>9, <2>10, <2>11
<1>12. ASSUME NEW k \in 1..K, NEW l \in 1..K, k < l  PROVE ~Alike(merged[k], merged[l]) /\ ~Alike(merged[l], merged[k])
  <2>1. merged[k] \in same(edges[h[k]]) /\ merged[l] \in same(edges[h[l]])
    BY <1>10
  <2>2. h[k] < h[l] /\ h[k] \in 1..N /\ h[l] \in 1..N /\ h[l] \in places /\ edges[h[k]] \in ToSet(edges)
    <3> HIDE DEF places
    <3> QED
      BY <1>8, <1>9, <1>12
  <2>3. edges[h[k]] \notin same(edges[h[l]])
    <3>1. h[k] \in 1..(h[l] - 1)
      BY <2>2
    <3> HIDE DEF same
    <3> QED
      BY <2>2, <3>1
  <2> QED
    BY <2>1, <2>2, <2>3 DEF Alike
<1>13. \A k, l \in 1..K : k # l => ~Alike(merged[k], merged[l])
  <2>1. \A k, l \in 1..K : k # l => k < l \/ l < k
    OBVIOUS
  <2> QED
    BY <1>12, <2>1
<1>14. \A k \in 1..K : merged[k] \in ToSet(edges)
  BY <1>10
<1>15. merged = [k \in 1..K |-> merged[k]]
  BY <1>1
<1>16. merged \in Seq(ToSet(edges))
  BY <1>14, <1>15
<1> QED
  BY <1>2, <1>7, <1>11, <1>13, <1>14, <1>16

-----------------------------------------------------------------------------
\* How the results are gathered.
NoneYet == [results |-> <<>>, seen |-> {}, exhausted |-> FALSE]

LEMMA GatheredIs ==
    ASSUME NEW found, Len(found) \in Nat, NEW max
    PROVE  \E f : /\ f[0] = NoneYet /\ Gathered(found, max) = f[Len(found)]
                  /\ \A k \in 1..Len(found) : f[k] = Related(f[k - 1], found[k], max)
<1> DEFINE N == Len(found)
           Upto(n) == \E f : DOMAIN f = 0..n /\ f[0] = NoneYet /\ \A k \in 1..n : f[k] = Related(f[k - 1], found[k], max)
           bad == {n \in 0..N : ~Upto(n)}
           Is(f) == f = [n \in 0..N |-> IF n = 0 THEN NoneYet ELSE Related(f[n - 1], found[n], max)]
           g == CHOOSE g : Is(g)
<1>1. bad = {}
  <2>1. SUFFICES ASSUME bad # {}  PROVE FALSE
    OBVIOUS
  <2>2. PICK m \in bad : \A k \in bad : m <= k
    <3>1. bad \in SUBSET Nat
      OBVIOUS
    <3> HIDE DEF bad
    <3> QED
      BY <2>1, <3>1, LeastIsThere
  <2>3. m \in 0..N /\ ~Upto(m)
    OBVIOUS
  <2>4. CASE m = 0
    <3> DEFINE h == [n \in 0..0 |-> NoneYet]
    <3>1. DOMAIN h = 0..m /\ h[0] = NoneYet /\ \A k \in 1..m : h[k] = Related(h[k - 1], found[k], max)
      BY <2>4
    <3> HIDE DEF h
    <3> QED
      BY <2>3, <3>1
  <2>5. CASE m # 0
    <3>1. m - 1 \in 0..N /\ m \in 1..N
      BY <2>3, <2>5
    <3>2. Upto(m - 1)
      <4> HIDE DEF Upto
      <4>1. ~(m <= m - 1)
        BY <3>1
      <4> QED
        BY <2>2, <3>1, <4>1
    <3>3. PICK f : /\ DOMAIN f = 0..(m - 1) /\ f[0] = NoneYet
                   /\ \A k \in 1..(m - 1) : f[k] = Related(f[k - 1], found[k], max)
      BY <3>2
    <3> DEFINE h == [n \in 0..m |-> IF n = m THEN Related(f[m - 1], found[m], max) ELSE f[n]]
    <3>4. DOMAIN h = 0..m /\ h[0] = NoneYet
      BY <3>1, <3>3
    <3>5. \A k \in 1..m : h[k] = Related(h[k - 1], found[k], max)
      <4> TAKE k \in 1..m
      <4>1. h[k - 1] = f[k - 1]
        BY <3>1
      <4>2. CASE k = m
        BY <3>1, <4>1, <4>2
      <4>3. CASE k # m
        BY <3>1, <3>3, <4>1, <4>3
      <4> QED
        BY <4>2, <4>3
    <3> HIDE DEF h
    <3> QED
      BY <2>3, <3>4, <3>5
  <2> QED
    BY <2>4, <2>5
<1>2. PICK f : DOMAIN f = 0..N /\ f[0] = NoneYet /\ \A k \in 1..N : f[k] = Related(f[k - 1], found[k], max)
  <2>1. N \in 0..N /\ N \notin bad
    <3> HIDE DEF bad
    <3> QED
      BY <1>1
  <2> QED
    BY <2>1
<1> DEFINE h == [n \in 0..N |-> f[n]]
<1>3. Is(h)
  <2>1. \A n \in 0..N : h[n] = f[n]
    OBVIOUS
  <2>2. \A n \in 0..N : f[n] = IF n = 0 THEN NoneYet ELSE Related(f[n - 1], found[n], max)
    BY <1>2
  <2>3. \A n \in 0..N : n # 0 => h[n - 1] = f[n - 1]
    OBVIOUS
  <2>4. \A n \in 0..N : f[n] = IF n = 0 THEN NoneYet ELSE Related(h[n - 1], found[n], max)
    <3> HIDE DEF h
    <3> QED
      BY <2>2, <2>3
  <2> QED
    BY <2>4
<1>4. Is(g)
  <2> HIDE DEF h
  <2> QED
    BY <1>3, Zenon
<1>5. Gathered(found, max) = g[N]
  BY Zenon DEF Gathered, NoneYet
<1> HIDE DEF g
<1>6. g[0] = NoneYet /\ \A k \in 1..N : g[k] = Related(g[k - 1], found[k], max)
  <2>1. \A n \in 0..N : g[n] = IF n = 0 THEN NoneYet ELSE Related(g[n - 1], found[n], max)
    BY <1>4, Zenon
  <2>2. 0 \in 0..N /\ \A k \in 1..N : k \in 0..N /\ k # 0
    OBVIOUS
  <2> QED
    BY <2>1, <2>2, Zenon
<1> QED
  BY <1>5, <1>6

\* Unless the budget of nodes is used up, everything found is there, by its like.
SameKey(x, y) == x.rel = y.rel /\ x.id = y.id /\ x.seed.id = y.seed.id
LEMMA GatheredAll ==
    ASSUME NEW found, Len(found) \in Nat, DOMAIN found = 1..Len(found), NEW max, NEW all, all = Gathered(found, max)
    PROVE  /\ all.exhausted \in BOOLEAN /\ all.results \in Seq(ToSet(found))
           /\ ~all.exhausted =>
                 \A k \in 1..Len(found) : \E i \in 1..Len(all.results) : SameKey(all.results[i], found[k])
<1> PICK N \in Nat : N = Len(found)
  OBVIOUS
<1> PICK f : /\ f[0] = NoneYet /\ Gathered(found, max) = f[N]
             /\ \A k \in 1..N : f[k] = Related(f[k - 1], found[k], max)
  BY GatheredIs
<1> DEFINE IsAcc(a) == a = [results |-> a.results, seen |-> a.seen, exhausted |-> a.exhausted]
           Holds(a, n) == ~a.exhausted => \A k \in 1..n : \E i \in 1..Len(a.results) : SameKey(a.results[i], found[k])
           Upto(n) == /\ IsAcc(f[n]) /\ f[n].exhausted \in BOOLEAN /\ f[n].results \in Seq(ToSet(found))
                      /\ Holds(f[n], n)
           bad == {n \in 0..N : ~Upto(n)}
<1>1. bad = {}
  <2>1. SUFFICES ASSUME bad # {}  PROVE FALSE
    OBVIOUS
  <2>2. PICK m \in bad : \A k \in bad : m <= k
    <3>1. bad \in SUBSET Nat
      OBVIOUS
    <3> HIDE DEF bad
    <3> QED
      BY <2>1, <3>1, LeastIsThere
  <2>3. m \in 0..N /\ ~Upto(m)
    OBVIOUS
  <2>4. ASSUME m = 0  PROVE FALSE
    <3>1. f[m] = NoneYet
      BY <2>4
    <3>1a. f[m].results = <<>> /\ f[m].exhausted = FALSE /\ IsAcc(f[m])
      BY <3>1 DEF NoneYet
    <3>1b. <<>> \in Seq(ToSet(found)) /\ 1..m = {}
      BY <2>4
    <3> HIDE DEF IsAcc
    <3>2. Upto(m)
      BY <3>1a, <3>1b
    <3> QED
      BY <2>3, <3>2
  <2>5. ASSUME m # 0  PROVE FALSE
    <3>1. m - 1 \in 0..N /\ m \in 1..N /\ m \in Nat
      BY <2>3, <2>5
    <3>2. Upto(m - 1)
      <4> HIDE DEF Upto
      <4>1. ~(m <= m - 1)
        BY <3>1
      <4> QED
        BY <2>2, <3>1, <4>1
    <3> DEFINE a == f[m - 1]
               r == found[m]
    <3>3. f[m] = Related(a, r, max)
      BY <3>1
    <3>4. r \in ToSet(found)
      BY <3>1 DEF ToSet
    <3>5. /\ IsAcc(a) /\ a.exhausted \in BOOLEAN /\ a.results \in Seq(ToSet(found)) /\ Holds(a, m - 1)
      BY <3>2
    <3> HIDE DEF a, r
    <3>6. CASE a.exhausted
      <4>1. f[m] = a
        BY <3>3, <3>6 DEF Related
      <4> HIDE DEF IsAcc
      <4> QED
        BY <2>3, <3>5, <3>6, <4>1
    <3>7. CASE ~a.exhausted /\ r.id \notin a.seen /\ Cardinality(a.seen) >= max
      <4>1. f[m] = [a EXCEPT !.exhausted = TRUE]
        BY <3>3, <3>7 DEF Related
      <4>2. /\ f[m].exhausted = TRUE /\ f[m].results = a.results /\ IsAcc(f[m])
        BY <3>5, <4>1
      <4> HIDE DEF IsAcc
      <4> QED
        BY <2>3, <3>5, <4>2
    <3>8. CASE ~a.exhausted /\ ~(r.id \notin a.seen /\ Cardinality(a.seen) >= max)
      <4> DEFINE new == IF \E x \in ToSet(a.results) : <<x.rel, x.id, x.seed.id>> = <<r.rel, r.id, r.seed.id>>
                        THEN a.results ELSE Append(a.results, r)
      <4>1. f[m] = [results |-> new, seen |-> a.seen \cup {r.id}, exhausted |-> FALSE]
        <5> HIDE DEF new
        <5>1. Related(a, r, max) = [results |-> new, seen |-> a.seen \cup {r.id}, exhausted |-> FALSE]
          BY <3>8 DEF Related, new
        <5> QED
          BY <3>3, <5>1
      <4>2. IsAcc(f[m]) /\ f[m].exhausted = FALSE /\ f[m].results = new
        <5> HIDE DEF new
        <5> QED
          BY <4>1
      <4>3. /\ new \in Seq(ToSet(found))
            /\ \A i \in 1..Len(a.results) : i \in 1..Len(new) /\ new[i] = a.results[i]
            /\ \E i \in 1..Len(new) : SameKey(new[i], r)
        <5>1. CASE \E x \in ToSet(a.results) : <<x.rel, x.id, x.seed.id>> = <<r.rel, r.id, r.seed.id>>
          <6>1. PICK x \in ToSet(a.results) : SameKey(x, r)
            BY <5>1 DEF SameKey
          <6>2. \E i \in 1..Len(a.results) : a.results[i] = x
            <7>1. PICK i \in DOMAIN a.results : a.results[i] = x
              BY Zenon DEF ToSet
            <7>2. DOMAIN a.results = 1..Len(a.results)
              BY <3>5
            <7> QED
              BY <7>1, <7>2
          <6>3. new = a.results
            BY <5>1
          <6> HIDE DEF new
          <6> QED
            BY <3>5, <6>1, <6>2, <6>3
        <5>2. CASE ~(\E x \in ToSet(a.results) : <<x.rel, x.id, x.seed.id>> = <<r.rel, r.id, r.seed.id>>)
          <6>1. new = Append(a.results, r)
            BY <5>2
          <6> HIDE DEF new
          <6>2. PICK n \in Nat : n = Len(a.results)
            BY <3>5
          <6>3. /\ new \in Seq(ToSet(found)) /\ Len(new) = n + 1 /\ new[n + 1] = r
                /\ \A i \in 1..n : new[i] = a.results[i]
            BY <3>4, <3>5, <6>1, <6>2
          <6>4. SameKey(new[n + 1], r)
            BY <6>3 DEF SameKey
          <6>5. n + 1 \in 1..(n + 1) /\ \A i \in 1..n : i \in 1..(n + 1)
            OBVIOUS
          <6> QED
            BY <6>2, <6>3, <6>4, <6>5
        <5> QED
          BY <5>1, <5>2
      <4> HIDE DEF new
      <4>4. ASSUME NEW k \in 1..m  PROVE \E i \in 1..Len(new) : SameKey(new[i], found[k])
        <5>1. CASE k = m
          BY <4>3, <5>1 DEF r
        <5>2. CASE k # m
          <6>1. k \in 1..(m - 1)
            BY <5>2, <3>1
          <6>2. PICK i \in 1..Len(a.results) : SameKey(a.results[i], found[k])
            BY <3>5, <3>8, <6>1
          <6> QED
            BY <4>3, <6>2
        <5> QED
          BY <5>1, <5>2
      <4> HIDE DEF IsAcc
      <4> QED
        BY <2>3, <4>2, <4>3, <4>4
    <3> QED
      BY <3>6, <3>7, <3>8
  <2> QED
    BY <2>4, <2>5
<1>2. Upto(N)
  <2> HIDE DEF Upto
  <2>1. N \in 0..N
    OBVIOUS
  <2> QED
    BY <1>1, <2>1
<1> HIDE DEF IsAcc
<1> QED
  BY <1>2

\* Where an edge leads from the seeds.
Ids(nodes) == {n.id : n \in nodes}
Leads(e, ids, want) == e.from \in ids \/ (want # "impact_analysis" /\ e.to \in ids)
Reached(e, ids) == IF e.from \in ids THEN e.to ELSE e.from
Origin(e, ids) == IF e.from \in ids THEN e.from ELSE e.to

LEMMA NamedIs == ASSUME NEW nodes, NEW id
                 PROVE  /\ Named(nodes, id) # {} <=> id \in Ids(nodes)
                        /\ id \in Ids(nodes) => TheNode(nodes, id).id = id
<1>1. Named(nodes, id) # {} <=> id \in Ids(nodes)
  BY DEF Named, Ids
<1>2. ASSUME id \in Ids(nodes)  PROVE TheNode(nodes, id).id = id
  <2>1. \E n \in nodes : n.id = id
    BY <1>2 DEF Ids
  <2> QED
    BY <2>1, Zenon DEF TheNode
<1> QED
  BY <1>1, <1>2

\* The result of an edge.
LEMMA RelationIs ==
    ASSUME NEW nodes, NEW seeds, NEW want, NEW e \in ToSet(EdgeOrder), Leads(e, Ids(seeds), want),
           Reached(e, Ids(seeds)) \in Ids(nodes), NEW r, r = RelationTo(e, seeds, nodes)
    PROVE  /\ IsResult(r) /\ r.id = Reached(e, Ids(seeds)) /\ r.rel = e.kind /\ r.conf = e.conf
           /\ r.seed.id = Origin(e, Ids(seeds))
<1> DEFINE ids == Ids(seeds)
           seed == TheNode(seeds, Origin(e, ids))
           node == TheNode(nodes, Reached(e, ids))
           role == IF e.from \in ids THEN OutgoingRole(e.kind) ELSE IncomingRole(e.kind)
           hops == <<Hop(e, node, role)>>
<1>1. r = ResultOf(seed, hops, e.src)
  <2>1. Named(seeds, e.from) # {} <=> e.from \in ids
    BY NamedIs
  <2>2. CASE e.from \in ids
    BY <2>1, <2>2 DEF RelationTo, Origin, Reached
  <2>3. CASE e.from \notin ids
    BY <2>1, <2>3 DEF RelationTo, Origin, Reached
  <2> QED
    BY <2>2, <2>3
<1>2. Origin(e, ids) \in ids
  BY DEF Origin, Leads
<1>3. seed.id = Origin(e, ids) /\ node.id = Reached(e, ids)
  BY <1>2, NamedIs
<1> HIDE DEF seed, node, role
<1>4. Last(hops).edge = e /\ Last(hops).node = node
  <2>1. Len(hops) = 1 /\ hops[1] = Hop(e, node, role)
    OBVIOUS
  <2> QED
    BY <2>1 DEF Last, Hop
<1> HIDE DEF hops
<1>5. r = [id |-> node.id, src |-> e.src, rel |-> e.kind, conf |-> e.conf, heur |-> e.heur,
           stale |-> e.stale, seed |-> seed, hops |-> hops, more |-> 0, others |-> {}]
  BY <1>1, <1>4, Zenon DEF ResultOf
<1>6. e.conf \in 0..100 /\ e.src \in ToSet(SourceOrder) /\ Reached(e, ids) \in ToSet(IdOrder)
  BY QuestionAssumption DEF Reached
<1>7. /\ r.id = node.id /\ r.src = e.src /\ r.rel = e.kind /\ r.conf = e.conf /\ r.heur = e.heur
      /\ r.stale = e.stale /\ r.seed = seed /\ r.hops = hops /\ r.more = 0 /\ r.others = {}
  BY <1>5
<1>8. IsResult(r)
  BY <1>3, <1>5, <1>6, <1>7, Zenon DEF IsResult
<1> QED
  BY <1>3, <1>7, <1>8

\* What is related to the seeds: a result for every edge that leads to a node, but
\* one for two edges of a kind in opposite directions.
OfEdges(results, edges, ids, want) ==
    \A i \in 1..Len(results) : \E e \in ToSet(edges) :
       Leads(e, ids, want) /\ results[i].id = Reached(e, ids) /\ results[i].rel = e.kind
OfEvery(edges, named, results, ids, want) ==
    \A e \in ToSet(edges) :
       Leads(e, ids, want) /\ Reached(e, ids) \in named =>
          \E i \in 1..Len(results) :
             /\ results[i].id = Reached(e, ids) /\ results[i].rel = e.kind
             /\ \/ results[i].conf = e.conf
                \/ \E f \in ToSet(edges) :
                      /\ Leads(f, ids, want) /\ Reached(f, ids) = Reached(e, ids)
                      /\ f.from = e.to /\ f.to = e.from /\ f.from # e.from

LEMMA RelatedAreAll ==
    ASSUME NEW edges \in Seq(ToSet(EdgeOrder)), \A k, l \in 1..Len(edges) : k # l => ~Alike(edges[k], edges[l]),
           NEW nodes, NEW seeds, NEW want, NEW max,
           NEW all, all = RelatedResults(nodes, edges, seeds, want, max)
    PROVE  /\ all.exhausted \in BOOLEAN /\ AreResults(all.results) /\ all.results \in Seq(ToSet(all.results))
           /\ OfEdges(all.results, edges, Ids(seeds), want)
           /\ ~all.exhausted => OfEvery(edges, Ids(nodes), all.results, Ids(seeds), want)
<1> DEFINE ids == Ids(seeds)
           named(e) == \/ Named(seeds, e.from) # {} /\ Named(nodes, e.to) # {}
                       \/ Named(seeds, e.from) = {} /\ Named(nodes, e.from) # {}
           places == {i \in DOMAIN edges : Relevant(edges[i], seeds, want) /\ named(edges[i])}
           relevant == Chosen(edges, places)
           found == [i \in DOMAIN relevant |-> RelationTo(relevant[i], seeds, nodes)]
           Fit(e) == Leads(e, ids, want) /\ Reached(e, ids) \in Ids(nodes)
<1> PICK N \in Nat : N = Len(edges) /\ DOMAIN edges = 1..N
  OBVIOUS
<1>1. all = Gathered(found, max)
  BY DEF RelatedResults
<1>2. \A e : Relevant(e, seeds, want) /\ named(e) <=> Fit(e)
  <2> TAKE e
  <2>1. /\ Named(seeds, e.from) # {} <=> e.from \in ids
        /\ Named(seeds, e.to) # {} <=> e.to \in ids
        /\ Named(nodes, e.from) # {} <=> e.from \in Ids(nodes)
        /\ Named(nodes, e.to) # {} <=> e.to \in Ids(nodes)
    BY NamedIs
  <2> HIDE DEF ids
  <2>2. /\ Relevant(e, seeds, want) <=> Leads(e, ids, want)
        /\ named(e) <=> \/ e.from \in ids /\ e.to \in Ids(nodes)
                        \/ e.from \notin ids /\ e.from \in Ids(nodes)
    BY <2>1, Zenon DEF Relevant, Leads
  <2> HIDE DEF named
  <2>3. CASE e.from \in ids
    BY <2>2, <2>3 DEF Reached
  <2>4. CASE e.from \notin ids
    BY <2>2, <2>4 DEF Reached
  <2> QED
    BY <2>3, <2>4
<1>3. places \in SUBSET (1..N) /\ \A i \in 1..N : i \in places <=> Fit(edges[i])
  <2> HIDE DEF named, Fit
  <2> QED
    BY <1>2
<1> HIDE DEF places, named
<1>4. relevant \in Seq(ToSet(EdgeOrder)) /\ \E h : Marking(edges, places, relevant, h)
  BY <1>3, ChosenKeeps
<1> PICK h : Marking(edges, places, relevant, h)
  BY <1>4
<1> HIDE DEF relevant
<1> PICK K \in Nat : K = Len(relevant) /\ DOMAIN relevant = 1..K
  BY <1>4
<1>5. /\ h \in [1..K -> places] /\ \A k \in 1..K : relevant[k] = edges[h[k]]
      /\ \A k, l \in 1..K : k < l => h[k] < h[l]
      /\ \A i \in places : \E k \in 1..K : h[k] = i
  BY DEF Marking
<1>6. ASSUME NEW k \in 1..K
      PROVE  /\ h[k] \in 1..N /\ relevant[k] = edges[h[k]] /\ relevant[k] \in ToSet(edges)
             /\ relevant[k] \in ToSet(EdgeOrder) /\ Fit(relevant[k])
  <2>1. h[k] \in 1..N /\ relevant[k] = edges[h[k]] /\ Fit(edges[h[k]])
    BY <1>3, <1>5
  <2> HIDE DEF Fit
  <2>2. relevant[k] \in ToSet(edges)
    BY <2>1 DEF ToSet
  <2>3. relevant[k] \in ToSet(EdgeOrder)
    BY <1>4
  <2> QED
    BY <2>1, <2>2, <2>3
<1>7. Len(found) = K /\ DOMAIN found = 1..K /\ \A k \in 1..K : found[k] = RelationTo(relevant[k], seeds, nodes)
  OBVIOUS
<1> HIDE DEF found
<1>8. ASSUME NEW k \in 1..K
      PROVE  /\ IsResult(found[k]) /\ found[k].id = Reached(relevant[k], ids) /\ found[k].rel = relevant[k].kind
             /\ found[k].conf = relevant[k].conf /\ found[k].seed.id = Origin(relevant[k], ids)
  <2>1. relevant[k] \in ToSet(EdgeOrder) /\ Leads(relevant[k], ids, want) /\ Reached(relevant[k], ids) \in Ids(nodes)
    BY <1>6
  <2>2. found[k] = RelationTo(relevant[k], seeds, nodes)
    BY <1>7
  <2> QED
    BY <2>1, <2>2, RelationIs
<1>9. /\ all.exhausted \in BOOLEAN /\ all.results \in Seq(ToSet(found))
      /\ ~all.exhausted =>
            \A k \in 1..K : \E i \in 1..Len(all.results) : SameKey(all.results[i], found[k])
  BY <1>1, <1>7, GatheredAll
<1> PICK M \in Nat : M = Len(all.results) /\ DOMAIN all.results = 1..M
  BY <1>9
<1>10. ASSUME NEW i \in 1..M  PROVE \E k \in 1..K : all.results[i] = found[k]
  <2>1. all.results[i] \in ToSet(found)
    BY <1>9
  <2> QED
    BY <1>7, <2>1 DEF ToSet
<1>11. AreResults(all.results)
  BY <1>8, <1>10 DEF AreResults
<1>12. ASSUME NEW i \in 1..M
       PROVE  \E e \in ToSet(edges) : /\ Leads(e, ids, want) /\ all.results[i].id = Reached(e, ids)
                                      /\ all.results[i].rel = e.kind
  <2>1. PICK k \in 1..K : all.results[i] = found[k]
    BY <1>10
  <2> QED
    BY <1>6, <1>8, <2>1
<1>13. ASSUME ~all.exhausted, NEW e \in ToSet(edges), Fit(e)
       PROVE  \E i \in 1..M :
                 /\ all.results[i].id = Reached(e, ids) /\ all.results[i].rel = e.kind
                 /\ \/ all.results[i].conf = e.conf
                    \/ \E f \in ToSet(edges) :
                         /\ Leads(f, ids, want) /\ Reached(f, ids) = Reached(e, ids)
                         /\ f.from = e.to /\ f.to = e.from /\ f.from # e.from
  <2>1. PICK j \in 1..N : edges[j] = e
    BY DEF ToSet
  <2>2. PICK k \in 1..K : h[k] = j
    <3>1. j \in places
      BY <1>3, <1>13, <2>1
    <3> QED
      BY <1>5, <3>1
  <2>3. relevant[k] = e
    BY <1>6, <2>1, <2>2
  <2>4. PICK i \in 1..M : SameKey(all.results[i], found[k])
    BY <1>9, <1>13
  <2>5. PICK l \in 1..K : all.results[i] = found[l]
    BY <1>10
  <2> DEFINE f == relevant[l]
  <2>6. /\ f \in ToSet(edges) /\ Leads(f, ids, want) /\ f = edges[h[l]] /\ h[l] \in 1..N
        /\ all.results[i].id = Reached(f, ids) /\ all.results[i].rel = f.kind /\ all.results[i].conf = f.conf
        /\ all.results[i].seed.id = Origin(f, ids)
    BY <1>6, <1>8, <2>5
  <2>7. Reached(f, ids) = Reached(e, ids) /\ f.kind = e.kind /\ Origin(f, ids) = Origin(e, ids)
    <3>1. found[k].id = Reached(e, ids) /\ found[k].rel = e.kind /\ found[k].seed.id = Origin(e, ids)
      BY <1>8, <2>3
    <3> HIDE DEF f
    <3> QED
      BY <2>4, <2>6, <3>1 DEF SameKey
  <2> HIDE DEF f
  <2>8. CASE (f.from \in ids) = (e.from \in ids)
    <3>1. f.from = e.from /\ f.to = e.to
      BY <2>7, <2>8 DEF Reached, Origin
    <3>2. Alike(e, f)
      BY <2>7, <3>1 DEF Alike
    <3>3. h[l] = j
      BY <2>1, <2>6, <3>2
    <3>4. f = e
      BY <2>1, <2>6, <3>3
    <3> QED
      BY <2>6, <3>4
  <2>9. CASE (f.from \in ids) # (e.from \in ids)
    <3>1. f.from = e.to /\ f.to = e.from /\ f.from # e.from
      BY <2>7, <2>9 DEF Reached, Origin
    <3> QED
      BY <2>6, <2>7, <3>1
  <2> QED
    BY <2>8, <2>9
<1>14. all.results \in Seq(ToSet(all.results))
  <2>1. all.results = [i \in 1..M |-> all.results[i]]
    BY <1>9
  <2> QED
    BY <2>1, ListsItself
<1>15. OfEdges(all.results, edges, ids, want)
  BY <1>12 DEF OfEdges
<1>16. ASSUME ~all.exhausted  PROVE OfEvery(edges, Ids(nodes), all.results, ids, want)
  <2> HIDE DEF ids
  <2> QED
    BY <1>13, <1>16 DEF OfEvery
<1> QED
  BY <1>9, <1>11, <1>14, <1>15, <1>16

-----------------------------------------------------------------------------
\* How the results for a node are joined.
LEMMA JoinedIs ==
    ASSUME NEW results, Len(results) \in Nat, Len(results) # 0
    PROVE  \E f : /\ f[1] = results[1] /\ Joined(results) = f[Len(results)]
                  /\ \A k \in 2..Len(results) : f[k] = Join(f[k - 1], results[k])
<1> DEFINE N == Len(results)
           Upto(n) == \E f : DOMAIN f = 1..n /\ f[1] = results[1] /\ \A k \in 2..n : f[k] = Join(f[k - 1], results[k])
           bad == {n \in 1..N : ~Upto(n)}
           Is(f) == f = [n \in 1..N |-> IF n = 1 THEN results[1] ELSE Join(f[n - 1], results[n])]
           g == CHOOSE g : Is(g)
<1>1. bad = {}
  <2>1. SUFFICES ASSUME bad # {}  PROVE FALSE
    OBVIOUS
  <2>2. PICK m \in bad : \A k \in bad : m <= k
    <3>1. bad \in SUBSET Nat
      OBVIOUS
    <3> HIDE DEF bad
    <3> QED
      BY <2>1, <3>1, LeastIsThere
  <2>3. m \in 1..N /\ ~Upto(m)
    OBVIOUS
  <2>4. CASE m = 1
    <3> DEFINE h == [n \in 1..1 |-> results[1]]
    <3>1. DOMAIN h = 1..m /\ h[1] = results[1] /\ \A k \in 2..m : h[k] = Join(h[k - 1], results[k])
      BY <2>4
    <3> HIDE DEF h
    <3> QED
      BY <2>3, <3>1
  <2>5. CASE m # 1
    <3>1. m - 1 \in 1..N /\ m \in 2..N
      BY <2>3, <2>5
    <3>2. Upto(m - 1)
      <4> HIDE DEF Upto
      <4>1. ~(m <= m - 1)
        BY <3>1
      <4> QED
        BY <2>2, <3>1, <4>1
    <3>3. PICK f : /\ DOMAIN f = 1..(m - 1) /\ f[1] = results[1]
                   /\ \A k \in 2..(m - 1) : f[k] = Join(f[k - 1], results[k])
      BY <3>2
    <3> DEFINE h == [n \in 1..m |-> IF n = m THEN Join(f[m - 1], results[m]) ELSE f[n]]
    <3>4. DOMAIN h = 1..m /\ h[1] = results[1]
      BY <3>1, <3>3
    <3>5. \A k \in 2..m : h[k] = Join(h[k - 1], results[k])
      <4> TAKE k \in 2..m
      <4>1. h[k - 1] = f[k - 1]
        BY <3>1
      <4>2. CASE k = m
        BY <3>1, <4>1, <4>2
      <4>3. CASE k # m
        BY <3>1, <3>3, <4>1, <4>3
      <4> QED
        BY <4>2, <4>3
    <3> HIDE DEF h
    <3> QED
      BY <2>3, <3>4, <3>5
  <2> QED
    BY <2>4, <2>5
<1>2. PICK f : DOMAIN f = 1..N /\ f[1] = results[1] /\ \A k \in 2..N : f[k] = Join(f[k - 1], results[k])
  <2>1. N \in 1..N /\ N \notin bad
    <3> HIDE DEF bad
    <3> QED
      BY <1>1
  <2> QED
    BY <2>1
<1> DEFINE h == [n \in 1..N |-> f[n]]
<1>3. Is(h)
  <2>1. \A n \in 1..N : h[n] = f[n]
    OBVIOUS
  <2>2. \A n \in 1..N : f[n] = IF n = 1 THEN results[1] ELSE Join(f[n - 1], results[n])
    BY <1>2
  <2>3. \A n \in 1..N : n # 1 => h[n - 1] = f[n - 1]
    OBVIOUS
  <2>4. \A n \in 1..N : f[n] = IF n = 1 THEN results[1] ELSE Join(h[n - 1], results[n])
    <3> HIDE DEF h
    <3> QED
      BY <2>2, <2>3
  <2> QED
    BY <2>4
<1>4. Is(g)
  <2> HIDE DEF h
  <2> QED
    BY <1>3, Zenon
<1>5. Joined(results) = g[N]
  BY Zenon DEF Joined
<1> HIDE DEF g
<1>6. g[1] = results[1] /\ \A k \in 2..N : g[k] = Join(g[k - 1], results[k])
  <2>1. \A n \in 1..N : g[n] = IF n = 1 THEN results[1] ELSE Join(g[n - 1], results[n])
    BY <1>4, Zenon
  <2>2. 1 \in 1..N /\ \A k \in 2..N : k \in 1..N /\ k # 1
    OBVIOUS
  <2> QED
    BY <2>1, <2>2, Zenon
<1> QED
  BY <1>5, <1>6

\* Of the results for a node the most confident is kept.
Stands(j, r) == j.id = r.id /\ j.rel = r.rel /\ j.conf = r.conf
LEMMA JoinKeepsBest ==
    ASSUME NEW best, IsResult(best), NEW r, IsResult(r), NEW j, j = Join(best, r)
    PROVE  /\ IsResult(j) /\ j.conf >= best.conf /\ j.conf >= r.conf
           /\ Stands(j, best) \/ Stands(j, r)
<1> DEFINE wins == Before(ResultRank(r), ResultRank(best))
           winner == IF wins THEN r ELSE best
           loser  == IF wins THEN best ELSE r
           more   == best.more + 1
           others == best.others \cup ({loser.rel} \ {winner.rel})
<1>1. j = [winner EXCEPT !.more = more, !.others = others]
  BY Zenon DEF Join
<1>2. IsResult(winner)
  OBVIOUS
<1>3. PICK x \in 0..100, y \in 0..100 : x = r.conf /\ y = best.conf
  BY Zenon DEF IsResult
<1>4. r.conf \in 0..100 /\ best.conf \in 0..100
  BY Zenon DEF IsResult
<1>5. winner.conf >= best.conf /\ winner.conf >= r.conf
  <2> DEFINE a == ResultRank(r)
             b == ResultRank(best)
  <2>1. DOMAIN a = {1, 2, 3, 4, 5} /\ a[1] = 100 - r.conf /\ b[1] = 100 - best.conf
    BY DEF ResultRank
  <2>3. wins <=> Before(a, b)
    OBVIOUS
  <2> HIDE DEF a, b, wins
  <2>10. a[1] = 100 - x /\ b[1] = 100 - y
    BY <1>3, <2>1, Zenon
  <2>2. a[1] \in Int /\ b[1] \in Int
    BY <2>10
  <2>4. DOMAIN a \in SUBSET Nat /\ 1 \in DOMAIN a /\ 0 \notin DOMAIN a
    BY <2>1
  <2>5. (Before(a, b) => a[1] <= b[1]) /\ (a[1] < b[1] => Before(a, b))
    BY <2>2, <2>4, BeforeByFirst
  <2>6. CASE wins
    <3>1. x >= y /\ x >= x
      BY <2>3, <2>5, <2>6, <2>10
    <3>2. r.conf >= best.conf /\ r.conf >= r.conf
      BY <1>3, <3>1, Zenon
    <3> QED
      BY <2>6, <3>2
  <2>7. CASE ~wins
    <3>1. y >= x /\ y >= y
      BY <2>3, <2>5, <2>7, <2>10
    <3>2. best.conf >= r.conf /\ best.conf >= best.conf
      BY <1>3, <3>1, Zenon
    <3> QED
      BY <2>7, <3>2
  <2> QED
    BY <2>6, <2>7
<1>6. winner = r \/ winner = best
  OBVIOUS
<1> HIDE DEF wins, winner, loser, more, others
<1>7. winner = [id |-> winner.id, src |-> winner.src, rel |-> winner.rel, conf |-> winner.conf,
                heur |-> winner.heur, stale |-> winner.stale, seed |-> winner.seed, hops |-> winner.hops,
                more |-> winner.more, others |-> winner.others]
  BY <1>2, Zenon DEF IsResult
<1>8. j = [id |-> winner.id, src |-> winner.src, rel |-> winner.rel, conf |-> winner.conf, heur |-> winner.heur,
           stale |-> winner.stale, seed |-> winner.seed, hops |-> winner.hops, more |-> more, others |-> others]
  BY <1>1, <1>7
<1>9. /\ j.id = winner.id /\ j.src = winner.src /\ j.rel = winner.rel /\ j.conf = winner.conf
      /\ j.heur = winner.heur /\ j.stale = winner.stale /\ j.seed = winner.seed /\ j.hops = winner.hops
      /\ j.more = more /\ j.others = others
  BY <1>8
<1>10. IsResult(j)
  BY <1>2, <1>8, <1>9, Zenon DEF IsResult
<1>11. Stands(j, best) \/ Stands(j, r)
  BY <1>6, <1>9 DEF Stands
<1> QED
  BY <1>5, <1>9, <1>10, <1>11, Zenon

LEMMA JoinedKeepsBest ==
    ASSUME NEW results, AreResults(results), Len(results) # 0, NEW j, j = Joined(results)
    PROVE  /\ IsResult(j) /\ \A i \in 1..Len(results) : j.conf >= results[i].conf
           /\ \E i \in 1..Len(results) : Stands(j, results[i])
<1>4. \A x \in 0..100 : x >= x
  OBVIOUS
<1> PICK N \in Nat : N = Len(results) /\ N # 0
  BY DEF AreResults
<1> PICK f : /\ f[1] = results[1] /\ Joined(results) = f[N]
             /\ \A k \in 2..N : f[k] = Join(f[k - 1], results[k])
  BY JoinedIs
<1> DEFINE Upto(n) == /\ IsResult(f[n]) /\ \A i \in 1..n : f[n].conf >= results[i].conf
                      /\ \E i \in 1..n : Stands(f[n], results[i])
           bad == {n \in 1..N : ~Upto(n)}
<1>1. \A i \in 1..N : IsResult(results[i])
  BY DEF AreResults
<1>2. bad = {}
  <2>1. SUFFICES ASSUME bad # {}  PROVE FALSE
    OBVIOUS
  <2>2. PICK m \in bad : \A k \in bad : m <= k
    <3>1. bad \in SUBSET Nat
      OBVIOUS
    <3> HIDE DEF bad
    <3> QED
      BY <2>1, <3>1, LeastIsThere
  <2>3. m \in 1..N /\ ~Upto(m)
    OBVIOUS
  <2>4. ASSUME m = 1  PROVE FALSE
    <3>1. f[m] = results[1] /\ 1..m = {1}
      BY <2>4
    <3>2. IsResult(results[1]) /\ results[1].conf \in 0..100
      BY <1>1 DEF IsResult
    <3>4. Stands(results[1], results[1])
      BY DEF Stands
    <3>5. Upto(m)
      BY <1>4, <3>1, <3>2, <3>4, Zenon
    <3> HIDE DEF Upto
    <3> QED
      BY <2>3, <3>5
  <2>5. ASSUME m # 1  PROVE FALSE
    <3>1. m - 1 \in 1..N /\ m \in 2..N /\ m \in Nat
      BY <2>3, <2>5
    <3>2. Upto(m - 1)
      <4> HIDE DEF Upto
      <4>1. ~(m <= m - 1)
        BY <3>1
      <4> QED
        BY <2>2, <3>1, <4>1
    <3> DEFINE b == f[m - 1]
               r == results[m]
               c == f[m]
    <3>3. c = Join(b, r)
      BY <3>1
    <3>4. IsResult(b) /\ (\A i \in 1..(m - 1) : b.conf >= results[i].conf) /\ \E i \in 1..(m - 1) : Stands(b, results[i])
      BY <3>2
    <3>5. IsResult(r)
      BY <1>1, <2>3
    <3> HIDE DEF b, r, c
    <3>6. /\ IsResult(c) /\ c.conf >= b.conf /\ c.conf >= r.conf
          /\ Stands(c, b) \/ Stands(c, r)
      BY <3>3, <3>4, <3>5, JoinKeepsBest
    <3>7. 1..m = 1..(m - 1) \cup {m} /\ m \in 1..m /\ 1..m \subseteq 1..N
      BY <2>3, <3>1
    <3>8. \A x, y, z \in 0..100 : x >= y /\ y >= z => x >= z
      OBVIOUS
    <3>9. \A i \in 1..m : c.conf >= results[i].conf
      <4> SUFFICES ASSUME NEW i \in 1..m  PROVE c.conf >= results[i].conf
        OBVIOUS
      <4>1. c.conf \in 0..100 /\ b.conf \in 0..100 /\ results[i].conf \in 0..100
        BY <1>1, <3>4, <3>6, <3>7, Zenon DEF IsResult
      <4>2. CASE i = m
        BY <3>6, <4>2 DEF r
      <4>3. CASE i # m
        <5>1. b.conf >= results[i].conf
          BY <3>4, <3>7, <4>3
        <5> QED
          BY <3>6, <3>8, <4>1, <5>1, Zenon
      <4> QED
        BY <4>2, <4>3
    <3>10. \E i \in 1..m : Stands(c, results[i])
      <4>1. CASE Stands(c, r)
        BY <3>7, <4>1 DEF r
      <4>2. CASE Stands(c, b)
        <5>1. PICK i \in 1..(m - 1) : Stands(b, results[i])
          BY <3>4
        <5>2. Stands(c, results[i])
          BY <4>2, <5>1 DEF Stands
        <5> QED
          BY <3>7, <5>2
      <4> QED
        BY <3>6, <4>1, <4>2
    <3>11. Upto(m)
      BY <3>6, <3>9, <3>10 DEF c
    <3> HIDE DEF Upto
    <3> QED
      BY <2>3, <3>11
  <2> QED
    BY <2>4, <2>5
<1>3. Upto(N)
  <2> HIDE DEF Upto
  <2>1. N \in 1..N
    OBVIOUS
  <2> QED
    BY <1>2, <2>1
<1> QED
  BY <1>3

\* Deduplicated, there is one result for a node, none less confident than another
\* for it was, and every one has a result that it stands for.
LEMMA DeduplicatedKeeps ==
    ASSUME NEW S, NEW results \in Seq(S), AreResults(results), NEW d, d = Deduplicated(results)
    PROVE  /\ AreResults(d) /\ Apart(d)
           /\ \A i \in 1..Len(results) : \E k \in 1..Len(d) : d[k].id = results[i].id /\ d[k].conf >= results[i].conf
           /\ \A k \in 1..Len(d) : \E i \in 1..Len(results) : Stands(d[k], results[i])
<1> DEFINE those(id) == {i \in DOMAIN results : results[i].id = id}
           to(id) == Chosen(results, those(id))
           places == {i \in DOMAIN results : \A j \in 1..(i - 1) : results[j].id # results[i].id}
           firsts == Chosen(results, places)
<1> PICK N \in Nat : N = Len(results) /\ DOMAIN results = 1..N
  OBVIOUS
<1>1. d = [k \in DOMAIN firsts |-> Joined(to(firsts[k].id))]
  BY Zenon DEF Deduplicated
<1>2. \A i \in 1..N : IsResult(results[i])
  BY DEF AreResults
<1>3. ASSUME NEW i \in 1..N, NEW j, j = Joined(to(results[i].id))
      PROVE  /\ IsResult(j) /\ j.id = results[i].id
             /\ \A l \in 1..N : results[l].id = results[i].id => j.conf >= results[l].conf
             /\ \E l \in 1..N : Stands(j, results[l])
  <2> DEFINE id == results[i].id
             list == to(id)
  <2>1. those(id) \in SUBSET (1..Len(results)) /\ i \in those(id)
    OBVIOUS
  <2>2. \A l \in those(id) : l \in 1..N /\ results[l].id = id
    OBVIOUS
  <2>3. \A l \in 1..N : results[l].id = id => l \in those(id)
    OBVIOUS
  <2>4. j = Joined(list)
    BY <1>3
  <2> HIDE DEF those
  <2>5. list \in Seq(S) /\ \E h : Marking(results, those(id), list, h)
    BY <2>1, ChosenKeeps
  <2> HIDE DEF list, id
  <2> PICK h : Marking(results, those(id), list, h)
    BY <2>5
  <2> PICK M \in Nat : M = Len(list) /\ DOMAIN list = 1..M
    BY <2>5
  <2>6. /\ \A k \in 1..M : h[k] \in those(id) /\ list[k] = results[h[k]]
        /\ \A l \in those(id) : \E k \in 1..M : h[k] = l
    BY DEF Marking
  <2>7. \A k \in 1..M : h[k] \in 1..N /\ list[k] = results[h[k]] /\ list[k].id = id
    BY <2>2, <2>6
  <2>8. AreResults(list)
    BY <1>2, <2>7 DEF AreResults
  <2>9. M # 0
    BY <2>1, <2>6
  <2>10. /\ IsResult(j) /\ \A k \in 1..M : j.conf >= list[k].conf
         /\ \E k \in 1..M : Stands(j, list[k])
    BY <2>4, <2>8, <2>9, JoinedKeepsBest
  <2>11. \E l \in 1..N : Stands(j, results[l]) /\ results[l].id = id
    BY <2>7, <2>10
  <2>12. j.id = id
    BY <2>11 DEF Stands
  <2>13. \A l \in 1..N : results[l].id = id => j.conf >= results[l].conf
    <3> SUFFICES ASSUME NEW l \in 1..N, results[l].id = id  PROVE j.conf >= results[l].conf
      OBVIOUS
    <3>1. PICK k \in 1..M : h[k] = l
      BY <2>3, <2>6
    <3>2. list[k] = results[l] /\ j.conf >= list[k].conf
      BY <2>6, <2>10, <3>1
    <3> QED
      BY <3>2, Zenon
  <2> QED
    BY <2>10, <2>11, <2>12, <2>13 DEF id
<1> HIDE DEF those, to
<1>4. \A i \in 1..N : \E l \in places : results[l].id = results[i].id
  <2> SUFFICES ASSUME NEW i \in 1..N  PROVE \E l \in places : results[l].id = results[i].id
    OBVIOUS
  <2> DEFINE same == {l \in 1..N : results[l].id = results[i].id}
  <2>1. same \in SUBSET Nat /\ same # {}
    OBVIOUS
  <2>2. PICK l \in same : \A m \in same : l <= m
    <3> HIDE DEF same
    <3> QED
      BY <2>1, LeastIsThere
  <2>3. \A m \in 1..(l - 1) : m \in 1..N /\ ~(l <= m)
    OBVIOUS
  <2>4. \A m \in 1..(l - 1) : results[m].id # results[l].id
    BY <2>2, <2>3
  <2> QED
    BY <2>4
<1>5. /\ places \in SUBSET (1..Len(results))
      /\ \A i, j \in places : i < j => results[i].id # results[j].id
  <2>1. places \in SUBSET (1..Len(results))
    OBVIOUS
  <2>2. ASSUME NEW i \in places, NEW j \in places, i < j  PROVE results[i].id # results[j].id
    <3>1. i \in 1..(j - 1)
      BY <2>2
    <3> QED
      BY <3>1
  <2> QED
    BY <2>1, <2>2
<1> HIDE DEF places
<1>6. firsts \in Seq(S) /\ \E h : Marking(results, places, firsts, h)
  BY <1>5, ChosenKeeps
<1> PICK h : Marking(results, places, firsts, h)
  BY <1>6
<1> HIDE DEF firsts
<1> PICK M \in Nat : M = Len(firsts) /\ DOMAIN firsts = 1..M
  BY <1>6
<1>7. /\ \A k \in 1..M : h[k] \in 1..N /\ firsts[k] = results[h[k]]
      /\ \A k, l \in 1..M : k < l => firsts[k].id # firsts[l].id
      /\ \A l \in places : \E k \in 1..M : h[k] = l
  <2>1. /\ \A k \in 1..M : h[k] \in places /\ firsts[k] = results[h[k]]
        /\ \A k, l \in 1..M : k < l => h[k] < h[l]
        /\ \A l \in places : \E k \in 1..M : h[k] = l
    BY DEF Marking
  <2>2. ASSUME NEW k \in 1..M, NEW l \in 1..M, k < l  PROVE firsts[k].id # firsts[l].id
    <3>1. h[k] \in places /\ h[l] \in places /\ h[k] < h[l] /\ firsts[k] = results[h[k]] /\ firsts[l] = results[h[l]]
      BY <2>1, <2>2
    <3>2. results[h[k]].id # results[h[l]].id
      BY <1>5, <3>1, Zenon
    <3> QED
      BY <3>1, <3>2, Zenon
  <2> QED
    BY <1>5, <2>1, <2>2, Zenon
<1>8. Len(d) = M /\ DOMAIN d = 1..M /\ \A k \in 1..M : d[k] = Joined(to(firsts[k].id))
  BY <1>1
<1>9. ASSUME NEW k \in 1..M
      PROVE  /\ IsResult(d[k]) /\ d[k].id = firsts[k].id
             /\ \A l \in 1..N : results[l].id = firsts[k].id => d[k].conf >= results[l].conf
             /\ \E l \in 1..N : Stands(d[k], results[l])
  <2>1. h[k] \in 1..N /\ firsts[k] = results[h[k]] /\ d[k] = Joined(to(results[h[k]].id))
    BY <1>7, <1>8
  <2>2. /\ IsResult(d[k]) /\ d[k].id = results[h[k]].id
        /\ \A l \in 1..N : results[l].id = results[h[k]].id => d[k].conf >= results[l].conf
        /\ \E l \in 1..N : Stands(d[k], results[l])
    BY <1>3, <2>1, Zenon
  <2> QED
    BY <2>1, <2>2, Zenon
<1>10. AreResults(d)
  BY <1>8, <1>9 DEF AreResults
<1>11. Apart(d)
  <2>1. \A k, l \in 1..M : k # l => k < l \/ l < k
    OBVIOUS
  <2>2. ASSUME NEW k \in 1..M, NEW l \in 1..M, k # l  PROVE firsts[k].id # firsts[l].id
    <3>1. CASE k < l
      BY <1>7, <3>1, Zenon
    <3>2. CASE l < k
      BY <1>7, <3>2, Zenon
    <3> QED
      BY <2>1, <2>2, <3>1, <3>2, Zenon
  <2>3. ASSUME NEW k \in 1..M, NEW l \in 1..M, k # l  PROVE d[k].id # d[l].id
    <3>1. d[k].id = firsts[k].id /\ d[l].id = firsts[l].id
      BY <1>9, Zenon
    <3> QED
      BY <2>2, <2>3, <3>1, Zenon
  <2> QED
    BY <1>8, <2>3, Zenon DEF Apart
<1>12. ASSUME NEW i \in 1..N  PROVE \E k \in 1..M : d[k].id = results[i].id /\ d[k].conf >= results[i].conf
  <2>1. PICK l \in places : results[l].id = results[i].id
    BY <1>4
  <2>2. PICK k \in 1..M : h[k] = l
    BY <1>7
  <2>3. firsts[k].id = results[i].id
    BY <1>7, <2>1, <2>2
  <2> QED
    BY <1>9, <2>3
<1> QED
  BY <1>8, <1>9, <1>10, <1>11, <1>12

-----------------------------------------------------------------------------
\* A bounded set of positive numbers has a greatest one.
LEMMA GreatestIsThere ==
    ASSUME NEW b \in Nat, NEW T \in SUBSET (1..b), T # {}
    PROVE  Max(T) \in T
<1> DEFINE U == {u \in Nat : \A t \in T : t <= u}
<1>1. PICK u \in U : \A v \in U : u <= v
  <2>1. U \in SUBSET Nat /\ b \in U
    OBVIOUS
  <2> HIDE DEF U
  <2> QED
    BY <2>1, LeastIsThere
<1>2. u \in Nat /\ \A t \in T : t <= u
  OBVIOUS
<1>3. u \in T
  <2> SUFFICES ASSUME u \notin T  PROVE FALSE
    OBVIOUS
  <2>1. \A t \in T : t \in Nat /\ t >= 1 /\ t <= u /\ t # u
    BY <1>2
  <2>2. u >= 1 /\ \A t \in T : t <= u - 1
    <3>1. PICK t \in T : t >= 1 /\ t <= u /\ t \in Nat
      BY <2>1
    <3>2. u >= 1
      BY <1>2, <3>1
    <3>3. \A x \in Nat : x <= u /\ x # u => x <= u - 1
      BY <1>2
    <3> QED
      BY <2>1, <3>2, <3>3, Zenon
  <2>3. u - 1 \in U /\ ~(u <= u - 1)
    BY <2>2
  <2> QED
    BY <1>1, <2>3
<1>4. \A t \in T : u >= t
  BY <1>2
<1> QED
  BY <1>3, <1>4, Zenon DEF Max

\* The first of a list.
LEMMA FirstIs ==
    ASSUME NEW S, NEW s \in Seq(S), NEW n \in Int, NEW f, f = First(s, n)
    PROVE  /\ f \in Seq(S) /\ Len(f) <= Len(s) /\ \A i \in 1..Len(f) : f[i] = s[i]
           /\ n >= Len(s) => f = s
<1> PICK N \in Nat : N = Len(s) /\ DOMAIN s = 1..N
  OBVIOUS
<1> DEFINE m == Min({n, N})
<1>1. m \in Int /\ m <= N /\ (n >= N => m = N)
  <2>1. CASE n <= N
    <3>1. \A x \in {n, N} : (\A y \in {n, N} : x <= y) <=> x = n
      BY <2>1
    <3>2. m = n
      BY <3>1, Zenon DEF Min
    <3> QED
      BY <2>1, <3>2
  <2>2. CASE ~(n <= N)
    <3>1. \A x \in {n, N} : (\A y \in {n, N} : x <= y) <=> x = N
      BY <2>2
    <3>2. m = N
      BY <3>1, Zenon DEF Min
    <3> QED
      BY <2>2, <3>2
  <2> QED
    BY <2>1, <2>2
<1>2. f = SubSeq(s, 1, m)
  BY Zenon DEF First
<1> HIDE DEF m
<1>3. CASE m >= 0
  <2>1. f \in Seq(S) /\ Len(f) = m /\ \A i \in 1..m : f[i] = s[i]
    BY <1>1, <1>2, <1>3
  <2>2. m = N => f = s
    BY <2>1
  <2> QED
    BY <1>1, <2>1, <2>2
<1>4. CASE m < 0
  <2>1. f = <<>>
    BY <1>1, <1>2, <1>4
  <2> QED
    BY <1>1, <1>4, <2>1
<1> QED
  BY <1>1, <1>3, <1>4

\* Within the budgets is what comes first of every relation, and all of it unless
\* one of them is exceeded.
LeastLast(kept, R) ==
    \A i \in 1..Len(kept) : \E k \in 1..Len(R) :
       /\ kept[i] = R[k]
       /\ \A j \in 1..(k - 1) : R[j].rel = R[k].rel => \E l \in 1..Len(kept) : kept[l] = R[j]

LEMMA CappedKeeps ==
    ASSUME NEW S, NEW R \in Seq(S), NEW budget, budget.perKind \in Int, budget.results \in Int,
           NEW out, out = Capped(R, budget)
    PROVE  /\ out.results \in Seq(S) /\ LeastLast(out.results, R)
           /\ out.warnings \cap {"per_edge_kind", "tokens", "results"} = {} => out.results = R
<1> DEFINE max == budget.perKind
           before(i) == {j \in 1..i : R[j].rel = R[i].rel}
           places == {i \in DOMAIN R : Cardinality(before(i)) <= max}
           kinds  == Chosen(R, places)
           fits == {n \in 1..Len(kinds) : Tokens(First(kinds, n)) <= budget.tokens}
           most == Max(fits \cup {1})
           tokens == First(kinds, most)
           rest == First(tokens, budget.results)
<1> PICK N \in Nat : N = Len(R) /\ DOMAIN R = 1..N
  OBVIOUS
<1>1. /\ out.results = rest
      /\ "per_edge_kind" \notin out.warnings => kinds = R
      /\ "tokens" \notin out.warnings => tokens = kinds
      /\ "results" \notin out.warnings => ~(Len(tokens) > budget.results)
  <2> DEFINE w == {w \in {"per_edge_kind", "tokens", "results"} :
            \/ w = "per_edge_kind" /\ kinds # R
            \/ w = "tokens" /\ (tokens # kinds \/ (kinds # <<>> /\ Size(kinds[1]) > budget.tokens))
            \/ w = "results" /\ Len(tokens) > budget.results}
  <2>1. out = [results |-> rest, warnings |-> w]
    BY Zenon DEF Capped, PerKind, ByTokens
  <2>2. /\ "per_edge_kind" \notin w => kinds = R
        /\ "tokens" \notin w => tokens = kinds
        /\ "results" \notin w => ~(Len(tokens) > budget.results)
    <3> HIDE DEF kinds, tokens
    <3> QED
      OBVIOUS
  <2> HIDE DEF w, rest, kinds, tokens
  <2>3. out.results = rest /\ out.warnings = w
    BY <2>1
  <2> QED
    BY <2>2, <2>3, Zenon
<1>2. places \in SUBSET (1..Len(R))
  OBVIOUS
<1>3. ASSUME NEW k \in places, NEW j \in 1..(k - 1), R[j].rel = R[k].rel  PROVE j \in places
  <2>1. k \in 1..N /\ j \in 1..N /\ before(j) \subseteq before(k) /\ before(k) \subseteq 1..N
    BY <1>3
  <2>2. IsFiniteSet(before(k))
    <3>1. IsFiniteSet(1..N)
      BY FS_Interval
    <3> HIDE DEF before
    <3> QED
      BY <2>1, <3>1, FS_Subset
  <2>3. Cardinality(before(j)) \in Nat /\ Cardinality(before(k)) \in Nat /\ Cardinality(before(j)) <= Cardinality(before(k))
    <3> HIDE DEF before
    <3> QED
      BY <2>1, <2>2, FS_Subset, FS_CardinalityType
  <2>4. Cardinality(before(k)) <= max
    OBVIOUS
  <2>5. Cardinality(before(j)) <= max
    <3> HIDE DEF before
    <3> QED
      BY <2>3, <2>4
  <2> QED
    BY <2>1, <2>5
<1> HIDE DEF places
<1>4. kinds \in Seq(S) /\ \E h : Marking(R, places, kinds, h)
  BY <1>2, ChosenKeeps
<1> HIDE DEF kinds
<1> PICK h : Marking(R, places, kinds, h)
  BY <1>4
<1> PICK K \in Nat : K = Len(kinds) /\ DOMAIN kinds = 1..K
  BY <1>4
<1>5. /\ \A k \in 1..K : h[k] \in places /\ h[k] \in 1..N /\ kinds[k] = R[h[k]]
      /\ \A k, l \in 1..K : k < l => h[k] < h[l]
      /\ \A i \in places : \E k \in 1..K : h[k] = i
  BY <1>2 DEF Marking
<1>6. most \in Int
  <2> DEFINE T == fits \cup {1}
  <2>1. T \in SUBSET (1..(K + 1)) /\ T # {} /\ K + 1 \in Nat
    OBVIOUS
  <2> HIDE DEF T
  <2>2. Max(T) \in T
    BY <2>1, GreatestIsThere
  <2>4. \A x \in T : x \in Int
    BY <2>1
  <2>3. Max(T) \in Int
    BY <2>2, <2>4, Zenon
  <2> QED
    BY <2>3 DEF T
<1> HIDE DEF most
<1>7. tokens \in Seq(S) /\ Len(tokens) <= K /\ \A i \in 1..Len(tokens) : tokens[i] = kinds[i]
  BY <1>4, <1>6, FirstIs
<1> HIDE DEF tokens
<1>8. /\ rest \in Seq(S) /\ Len(rest) <= Len(tokens) /\ \A i \in 1..Len(rest) : rest[i] = tokens[i]
      /\ budget.results >= Len(tokens) => rest = tokens
  <2> PICK r \in Int : r = budget.results
    OBVIOUS
  <2>1. rest = First(tokens, r)
    OBVIOUS
  <2> HIDE DEF rest
  <2>2. /\ rest \in Seq(S) /\ Len(rest) <= Len(tokens) /\ \A i \in 1..Len(rest) : rest[i] = tokens[i]
        /\ r >= Len(tokens) => rest = tokens
    BY <1>7, <2>1, FirstIs
  <2> QED
    BY <2>2, Zenon
<1> HIDE DEF rest
<1> PICK M \in Nat : M = Len(rest) /\ M <= K
  BY <1>7, <1>8
<1>9. \A i \in 1..M : rest[i] = R[h[i]]
  <2>1. \A i \in 1..M : i \in 1..Len(tokens) /\ i \in 1..K
    BY <1>7, <1>8
  <2> QED
    BY <1>5, <1>7, <1>8, <2>1
<1>10. ASSUME NEW i \in 1..M, NEW j \in 1..(h[i] - 1), R[j].rel = R[h[i]].rel
       PROVE  \E l \in 1..M : rest[l] = R[j]
  <2>1. i \in 1..K /\ h[i] \in places /\ h[i] \in 1..N
    BY <1>5
  <2>2. j \in places
    BY <1>3, <1>10, <2>1
  <2>3. PICK l \in 1..K : h[l] = j
    BY <1>5, <2>2
  <2>4. ~(i <= l)
    <3>1. h[l] < h[i] /\ h[l] # h[i] /\ ~(h[i] < h[l])
      BY <2>1, <2>3
    <3>2. ~(i < l) /\ i # l
      BY <1>5, <2>1, <3>1
    <3> QED
      BY <2>1, <3>2
  <2>5. l \in 1..M
    BY <2>1, <2>4
  <2> QED
    BY <1>9, <2>3, <2>5
<1>11. ASSUME out.warnings \cap {"per_edge_kind", "tokens", "results"} = {}  PROVE rest = R
  <2>1. "per_edge_kind" \notin out.warnings /\ "tokens" \notin out.warnings /\ "results" \notin out.warnings
    BY <1>11
  <2>2. kinds = R /\ tokens = kinds /\ ~(Len(tokens) > budget.results)
    BY <1>1, <2>1
  <2>3. budget.results >= Len(tokens)
    BY <1>7, <2>2
  <2> QED
    BY <1>8, <2>2, <2>3
<1>12. \A i \in 1..M : \E k \in 1..N :
         /\ rest[i] = R[k]
         /\ \A j \in 1..(k - 1) : R[j].rel = R[k].rel => \E l \in 1..M : rest[l] = R[j]
  <2> TAKE i \in 1..M
  <2>1. h[i] \in 1..N
    BY <1>5
  <2> QED
    BY <1>9, <1>10, <2>1, Zenon
<1>13. LeastLast(rest, R)
  BY <1>12 DEF LeastLast
<1> QED
  BY <1>1, <1>8, <1>11, <1>13

-----------------------------------------------------------------------------
\* The budgets of a valid query are numbers.
LEMMA BudgetsAreNumbers ==
    ASSUME NEW r, ValidQuery(r)
    PROVE  Budget(r).perKind \in Int /\ Budget(r).results \in Int
<1> DEFINE filled == Filled(Configured.modes[r.mode], Defaults[r.mode])
           given == [b \in DOMAIN Policy |-> IF b \in DOMAIN r.overrides THEN r.overrides[b] ELSE filled[b]]
<1>1. r.mode \in DOMAIN Defaults /\ r.limit \in Int /\ \A b \in DOMAIN r.overrides : r.overrides[b] \in Int
  <2>1. \A m, x : x \in 0..m \/ x \in 1..m => x \in Int
    OBVIOUS
  <2> QED
    BY <2>1, Zenon DEF ValidQuery
<1>2. \A b \in BudgetNames : filled[b] \in Int
  <2>1. Defaults[r.mode] \in [BudgetNames -> Nat] /\ Configured.modes[r.mode] \in [BudgetNames -> Int]
    BY <1>1, QuestionAssumption
  <2> QED
    BY <2>1 DEF Filled
<1> HIDE DEF filled
<1>3. DOMAIN Policy = BudgetNames /\ "perKind" \in BudgetNames /\ "results" \in BudgetNames
  BY QuestionAssumption DEF BudgetNames
<1>4. DOMAIN given = BudgetNames /\ given["perKind"] \in Int /\ given["results"] \in Int
  BY <1>1, <1>2, <1>3
<1>5. Budget(r) = IF r.limit > 0 THEN [given EXCEPT !.results = r.limit] ELSE given
  BY Zenon DEF Budget, filled
<1> HIDE DEF given
<1> QED
  BY <1>1, <1>3, <1>4, <1>5

\* What NothingDroppedSilently asks of an answer.
DropsNothing(want, answer) ==
    LET seeds == {s.id : s \in ToSet(answer.of.seeds)}
        edges == ToSet(answer.of.edges)
        kept  == ToSet(answer.results)
        to(e) == IF e.from \in seeds THEN e.to ELSE e.from
        leading(id) == {e \in edges : /\ to(e) = id
                                      /\ e.from \in seeds \/ (want # "impact_analysis" /\ e.to \in seeds)}
        missing == {id \in {n.id : n \in answer.of.nodes} : leading(id) # {} /\ \A r \in kept : r.id # id}
        mutual(e, id) == \E f \in leading(id) : f.from = e.to /\ f.to = e.from /\ f.from # e.from
    IN  /\ missing # {} => answer.warnings \cap {"nodes", "per_edge_kind", "tokens", "results"} # {}
        /\ \A id \in missing, r \in kept :
                ("nodes" \notin answer.warnings /\ \A e \in leading(id) : e.kind = r.rel)
                    => \A e \in leading(id) : mutual(e, id) \/ e.conf <= r.conf

\* An answer to a query drops nothing silently.
LEMMA QueryDropsNothing ==
    ASSUME NEW edges \in Seq(ToSet(EdgeOrder)), NEW r, ValidQuery(r), NEW answer, answer = QueryAnswer(r, edges),
           answer.outcome = "resolved"
    PROVE  DropsNothing(r.mode, answer)
<1> DEFINE want == r.mode
           subject == ResolveByType(nodesRead, r.query, r.mode, r.type)
           budget  == Budget(r)
           merged  == MergeCompeting(edges)
           related == RelatedResults(nodesRead, merged, ToSet(subject.seeds), r.mode, budget.nodes)
           single  == Deduplicated(related.results)
           sorted  == BestFirst(single)
           capped  == Capped(sorted, budget)
           warned  == IF Unsupported(r, subject.seeds) THEN {"unsupported_language"} ELSE {}
           warnings == capped.warnings \cup warned \cup IF related.exhausted THEN {"nodes"} ELSE {}
           of == [nodes |-> nodesRead, edges |-> edges, seeds |-> subject.seeds, targets |-> {}]
           ids == Ids(ToSet(subject.seeds))
           leading(id) == {e \in ToSet(edges) : Reached(e, ids) = id /\ Leads(e, ids, want)}
           Lost(id) == id \in Ids(nodesRead) /\ leading(id) # {} /\ \A x \in ToSet(capped.results) : x.id # id
           Mutual(e, id) == \E f \in leading(id) : f.from = e.to /\ f.to = e.from /\ f.from # e.from
<1>1. answer.results = capped.results /\ answer.warnings = warnings /\ answer.of = of
  <2> DEFINE a == Answer("resolved", capped.results, <<>>, warnings)
             other == Answer(subject.outcome, <<>>, subject.candidates,
                             warned \cup IF subject.total > Len(subject.candidates) THEN {"candidates"} ELSE {})
  <2>1. answer = IF subject.outcome = "resolved" THEN [a EXCEPT !.of = of] ELSE other
    BY Zenon DEF QueryAnswer, Made
  <2> HIDE DEF capped, warned, warnings, of, subject
  <2>2. other.outcome = subject.outcome
    BY DEF Answer
  <2>3. [a EXCEPT !.of = of].results = capped.results /\ [a EXCEPT !.of = of].warnings = warnings
        /\ [a EXCEPT !.of = of].of = of
    BY DEF Answer
  <2> HIDE DEF a, other
  <2>4. subject.outcome = "resolved"
    BY <2>1, <2>2
  <2> QED
    BY <2>1, <2>3, <2>4
<1>2. /\ merged \in Seq(ToSet(edges)) /\ ToSet(edges) \in SUBSET ToSet(EdgeOrder) /\ ToSet(merged) \subseteq ToSet(edges)
      /\ \A e \in ToSet(edges) : \E f \in ToSet(merged) : Alike(f, e) /\ f.conf >= e.conf
      /\ \A k, l \in 1..Len(merged) : k # l => ~Alike(merged[k], merged[l])
  <2> HIDE DEF merged
  <2>1. /\ merged \in Seq(ToSet(edges)) /\ ToSet(edges) \in SUBSET ToSet(EdgeOrder)
        /\ \A e \in ToSet(edges) : \E k \in 1..Len(merged) : Alike(merged[k], e) /\ merged[k].conf >= e.conf
        /\ \A k, l \in 1..Len(merged) : k # l => ~Alike(merged[k], merged[l])
        /\ \A k \in 1..Len(merged) : merged[k] \in ToSet(edges)
    BY MergeKeepsBest DEF merged
  <2>2. DOMAIN merged = 1..Len(merged)
    BY <2>1
  <2>3. ToSet(merged) = {merged[k] : k \in 1..Len(merged)}
    BY <2>2, Zenon DEF ToSet
  <2>4. ToSet(merged) \subseteq ToSet(edges) /\ \A k \in 1..Len(merged) : merged[k] \in ToSet(merged)
    <3> DEFINE L == 1..Len(merged)
    <3>1. \A k \in L : merged[k] \in ToSet(edges)
      BY <2>1
    <3> HIDE DEF L
    <3> QED
      BY <2>3, <3>1 DEF L
  <2> QED
    BY <2>1, <2>4, Zenon
<1> HIDE DEF merged
<1>3. merged \in Seq(ToSet(EdgeOrder))
  BY <1>2
<1> HIDE DEF subject, budget
<1>4. /\ related.exhausted \in BOOLEAN /\ AreResults(related.results)
      /\ related.results \in Seq(ToSet(related.results))
      /\ OfEdges(related.results, merged, ids, want)
      /\ ~related.exhausted => OfEvery(merged, Ids(nodesRead), related.results, ids, want)
  <2>1. related = RelatedResults(nodesRead, merged, ToSet(subject.seeds), want, budget.nodes)
    OBVIOUS
  <2> HIDE DEF related
  <2> QED
    BY <1>2, <1>3, <2>1, RelatedAreAll, Zenon
<1> HIDE DEF related
<1> PICK N \in Nat : N = Len(related.results)
  BY <1>4 DEF AreResults
<1>5. /\ AreResults(single) /\ Apart(single)
      /\ \A i \in 1..N : \E k \in 1..Len(single) :
            single[k].id = related.results[i].id /\ single[k].conf >= related.results[i].conf
      /\ \A k \in 1..Len(single) : \E i \in 1..N : Stands(single[k], related.results[i])
  BY <1>4, DeduplicatedKeeps, Zenon
<1> HIDE DEF single
<1> PICK M \in Nat : M = Len(single)
  BY <1>5 DEF AreResults
<1>6. /\ Len(sorted) = M /\ sorted \in Seq(ToSet(sorted))
      /\ \A k \in 1..M : \E i \in 1..M : sorted[k] = single[i]
      /\ \A i \in 1..M : \E k \in 1..M : sorted[k] = single[i]
      /\ \A k, l \in 1..M : k < l => sorted[k].conf >= sorted[l].conf
  <2>1. /\ Len(sorted) = Len(single) /\ sorted \in Seq(ToSet(sorted))
        /\ Among(sorted, single) /\ Among(single, sorted)
        /\ \A k, l \in 1..Len(single) : k < l => sorted[k].conf >= sorted[l].conf
    <3>1. sorted = BestFirst(single)
      OBVIOUS
    <3> HIDE DEF sorted
    <3> QED
      BY <1>5, <3>1, BestFirstSorts, Zenon
  <2> HIDE DEF sorted
  <2>2. /\ \A k \in 1..M : \E i \in 1..M : sorted[k] = single[i]
        /\ \A i \in 1..M : \E k \in 1..M : sorted[k] = single[i]
    BY <2>1 DEF Among
  <2> QED
    BY <2>1, <2>2
<1> HIDE DEF sorted
<1>7. /\ capped.results \in Seq(ToSet(sorted))
      /\ \A i \in 1..Len(capped.results) : \E k \in 1..M :
            /\ capped.results[i] = sorted[k]
            /\ \A j \in 1..(k - 1) : sorted[j].rel = sorted[k].rel =>
                  \E l \in 1..Len(capped.results) : capped.results[l] = sorted[j]
      /\ capped.warnings \cap {"per_edge_kind", "tokens", "results"} = {} => capped.results = sorted
  <2>1. budget.perKind \in Int /\ budget.results \in Int
    BY BudgetsAreNumbers DEF budget
  <2> DEFINE S == ToSet(sorted)
  <2> HIDE DEF S
  <2>2. sorted \in Seq(S)
    BY <1>6 DEF S
  <2>3. /\ capped.results \in Seq(S) /\ LeastLast(capped.results, sorted)
        /\ capped.warnings \cap {"per_edge_kind", "tokens", "results"} = {} => capped.results = sorted
    <3>1. capped = Capped(sorted, budget)
      OBVIOUS
    <3> HIDE DEF capped
    <3> QED
      BY <2>1, <2>2, <3>1, CappedKeeps, Zenon
  <2> HIDE DEF capped
  <2> QED
    BY <1>6, <2>3, Zenon DEF S, LeastLast
<1> HIDE DEF capped
<1>8. \A x : x \in ToSet(capped.results) <=> \E i \in 1..Len(capped.results) : x = capped.results[i]
  <2>1. DOMAIN capped.results = 1..Len(capped.results)
    BY <1>7
  <2> QED
    BY <2>1 DEF ToSet
<1>9. "nodes" \notin warnings => ~related.exhausted
  OBVIOUS
<1>10. capped.warnings \subseteq warnings
  OBVIOUS
<1> HIDE DEF warnings, warned
\* What leads to a node that is known is found, deduplicated and sorted.
<1>11. ASSUME ~related.exhausted, NEW id, id \in Ids(nodesRead), NEW e \in leading(id)
       PROVE  \E k \in 1..M : sorted[k].id = id /\ (Mutual(e, id) \/ sorted[k].conf >= e.conf)
  <2> HIDE DEF ids, want
  <2>1. PICK f \in ToSet(merged) : Alike(f, e) /\ f.conf >= e.conf
    BY <1>2
  <2>2. f.from = e.from /\ f.to = e.to /\ f.kind = e.kind
    BY <2>1 DEF Alike
  <2>3. Leads(f, ids, want) /\ Reached(f, ids) = id
    BY <2>2 DEF Leads, Reached
  <2>4. PICK i \in 1..N :
           /\ related.results[i].id = id
           /\ \/ related.results[i].conf = f.conf
              \/ \E g \in ToSet(merged) :
                   /\ Leads(g, ids, want) /\ Reached(g, ids) = id
                   /\ g.from = f.to /\ g.to = f.from /\ g.from # f.from
    BY <1>4, <1>11, <2>3 DEF OfEvery
  <2>7. PICK k \in 1..M : single[k].id = id /\ single[k].conf >= related.results[i].conf
    BY <1>5, <2>4
  <2>8. PICK l \in 1..M : sorted[l] = single[k]
    BY <1>6
  <2>5. CASE \E g \in ToSet(merged) :
                   /\ Leads(g, ids, want) /\ Reached(g, ids) = id
                   /\ g.from = f.to /\ g.to = f.from /\ g.from # f.from
    <3>1. Mutual(e, id)
      BY <1>2, <2>2, <2>5
    <3> QED
      BY <2>7, <2>8, <3>1, Zenon
  <2>6. CASE related.results[i].conf = f.conf
    <3>3. single[k].conf \in 0..100 /\ related.results[i].conf \in 0..100 /\ e.conf \in 0..100
      BY <1>2, <1>4, <1>5, QuestionAssumption, Zenon DEF AreResults, IsResult
    <3>4. \A x, y, z \in 0..100 : x >= y /\ y >= z => x >= z
      OBVIOUS
    <3>5. single[k].conf >= e.conf
      BY <2>1, <2>6, <2>7, <3>3, <3>4, Zenon
    <3> QED
      BY <2>7, <2>8, <3>5, Zenon
  <2> QED
    BY <2>4, <2>5, <2>6
<1>12. ASSUME NEW k \in 1..M  PROVE \E e \in leading(sorted[k].id) : sorted[k].rel = e.kind
  <2>1. PICK i \in 1..M : sorted[k] = single[i]
    BY <1>6
  <2>2. PICK j \in 1..N : Stands(single[i], related.results[j])
    BY <1>5
  <2>3. PICK e \in ToSet(merged) : /\ Leads(e, ids, want) /\ related.results[j].id = Reached(e, ids)
                                   /\ related.results[j].rel = e.kind
    BY <1>4 DEF OfEdges
  <2>4. sorted[k].id = Reached(e, ids) /\ sorted[k].rel = e.kind
    BY <2>1, <2>2, <2>3 DEF Stands
  <2>5. e \in leading(sorted[k].id)
    BY <1>2, <2>3, <2>4
  <2> QED
    BY <2>4, <2>5
\* What is missing was cut by a budget.
<1>13. ASSUME NEW id, Lost(id)  PROVE warnings \cap {"nodes", "per_edge_kind", "tokens", "results"} # {}
  <2> SUFFICES ASSUME warnings \cap {"nodes", "per_edge_kind", "tokens", "results"} = {}  PROVE FALSE
    OBVIOUS
  <2>1. ~related.exhausted /\ capped.results = sorted
    <3>1. "nodes" \notin warnings /\ capped.warnings \cap {"per_edge_kind", "tokens", "results"} = {}
      BY <1>10
    <3> QED
      BY <1>7, <1>9, <3>1
  <2>2. PICK e \in leading(id) : TRUE
    BY <1>13
  <2>3. \E k \in 1..M : sorted[k].id = id
    BY <1>11, <1>13, <2>1
  <2> QED
    BY <1>6, <1>8, <1>13, <2>1, <2>3
\* What is missing and of one relation comes after what was kept of it.
<1>14. ASSUME NEW id, Lost(id), NEW x \in ToSet(capped.results), "nodes" \notin warnings,
              \A e \in leading(id) : e.kind = x.rel, NEW e \in leading(id)
       PROVE  Mutual(e, id) \/ e.conf <= x.conf
  <2>1. PICK k \in 1..M : sorted[k].id = id /\ (Mutual(e, id) \/ sorted[k].conf >= e.conf)
    BY <1>9, <1>11, <1>14
  <2>2. sorted[k].rel = x.rel
    BY <1>12, <1>14, <2>1
  <2>3. PICK i \in 1..Len(capped.results) : x = capped.results[i]
    BY <1>8
  <2>4. PICK l \in 1..M :
            /\ x = sorted[l]
            /\ \A j \in 1..(l - 1) : sorted[j].rel = sorted[l].rel =>
                  \E m \in 1..Len(capped.results) : capped.results[m] = sorted[j]
    BY <1>7, <2>3
  <2>5. ~(k \in 1..(l - 1))
    BY <1>8, <1>14, <2>1, <2>2, <2>4
  <2>6. k # l
    BY <1>14, <2>1, <2>4
  <2>7. l < k
    BY <2>5, <2>6
  <2>8. x.conf >= sorted[k].conf
    BY <1>6, <2>4, <2>7
  <2>9. CASE sorted[k].conf >= e.conf
    <3>1. x.conf \in 0..100 /\ sorted[k].conf \in 0..100 /\ e.conf \in 0..100
      <4>1. ASSUME NEW m \in 1..M  PROVE sorted[m].conf \in 0..100
        <5>1. PICK o \in 1..M : sorted[m] = single[o]
          BY <1>6
        <5>2. IsResult(single[o])
          BY <1>5, Zenon DEF AreResults
        <5> QED
          BY <5>1, <5>2, Zenon DEF IsResult
      <4> QED
        BY <1>2, <2>4, <4>1, QuestionAssumption, Zenon
    <3>2. \A a, b, c \in 0..100 : a >= b /\ b >= c => c <= a
      OBVIOUS
    <3> QED
      BY <2>8, <2>9, <3>1, <3>2, Zenon
  <2> QED
    BY <2>1, <2>9
<1>15. /\ {s.id : s \in ToSet(answer.of.seeds)} = ids /\ {n.id : n \in answer.of.nodes} = Ids(nodesRead)
       /\ ToSet(answer.of.edges) = ToSet(edges)
  BY <1>1 DEF Ids
<1> QED
  <2> DEFINE seeds == {s.id : s \in ToSet(answer.of.seeds)}
             held  == ToSet(answer.of.edges)
             kept  == ToSet(answer.results)
             named == {n.id : n \in answer.of.nodes}
             to(e) == IF e.from \in seeds THEN e.to ELSE e.from
             lead(id) == {e \in held : /\ to(e) = id
                                       /\ e.from \in seeds \/ (r.mode # "impact_analysis" /\ e.to \in seeds)}
             missing == {id \in named : lead(id) # {} /\ \A x \in kept : x.id # id}
             mutual(e, id) == \E f \in lead(id) : f.from = e.to /\ f.to = e.from /\ f.from # e.from
  <2>1. seeds = ids /\ held = ToSet(edges) /\ kept = ToSet(capped.results) /\ named = Ids(nodesRead)
        /\ answer.warnings = warnings
    BY <1>1, <1>15
  <2> HIDE DEF seeds, held, kept, named, ids
  <2>2. \A id, e : e \in lead(id) <=> e \in leading(id)
    BY <2>1 DEF Leads, Reached
  <2> HIDE DEF lead, leading
  <2>3. \A id \in missing : Lost(id)
    BY <2>1, <2>2
  <2>4. \A e, id : Mutual(e, id) => mutual(e, id)
    BY <2>2
  <2> HIDE DEF missing, Lost, mutual, Mutual
  <2>6. missing # {} => answer.warnings \cap {"nodes", "per_edge_kind", "tokens", "results"} # {}
    BY <1>13, <2>1, <2>3
  <2>7. ASSUME NEW id \in missing, NEW x \in kept, "nodes" \notin answer.warnings,
               \A e \in lead(id) : e.kind = x.rel, NEW e \in lead(id)
        PROVE  mutual(e, id) \/ e.conf <= x.conf
    <3>1. Lost(id) /\ x \in ToSet(capped.results) /\ "nodes" \notin warnings /\ e \in leading(id)
          /\ \A f \in leading(id) : f.kind = x.rel
      BY <2>1, <2>2, <2>3, <2>7
    <3>2. Mutual(e, id) \/ e.conf <= x.conf
      BY <1>14, <3>1
    <3> QED
      BY <2>4, <3>2
  <2>8. \A id \in missing, x \in kept :
            ("nodes" \notin answer.warnings /\ \A e \in lead(id) : e.kind = x.rel)
                => \A e \in lead(id) : mutual(e, id) \/ e.conf <= x.conf
    BY <2>7
  <2> QED
    BY <2>6, <2>8, Zenon DEF DropsNothing, missing, mutual, lead, named, kept, held, seeds

-----------------------------------------------------------------------------
\* An answer has an outcome.
LEMMA AnswerIs ==
    ASSUME NEW outcome, NEW results, NEW candidates, NEW warnings
    PROVE  /\ "outcome" \in DOMAIN Answer(outcome, results, candidates, warnings)
           /\ Answer(outcome, results, candidates, warnings).outcome = outcome
  BY DEF Answer
LEMMA MadeIs ==
    ASSUME NEW a, "outcome" \in DOMAIN a, NEW edges, NEW seeds, NEW targets
    PROVE  /\ "outcome" \in DOMAIN Made(a, edges, seeds, targets)
           /\ Made(a, edges, seeds, targets).outcome = a.outcome
  BY DEF Made

\* Only an answer to a query is of a subject that was resolved.
LEMMA OthersAreNot ==
    ASSUME NEW edges, NEW r
    PROVE  /\ "outcome" \in DOMAIN QueryAnswer(r, edges)
           /\ \A a \in {ExpandAnswer(r, edges), NeighborsAnswer(r, edges), PathAnswer(r, edges)} :
                 "outcome" \in DOMAIN a /\ a.outcome # "resolved"
<1>1. "outcome" \in DOMAIN QueryAnswer(r, edges)
  <2> DEFINE a == QueryAnswer(r, edges)
             subject == ResolveByType(nodesRead, r.query, r.mode, r.type)
             budget  == Budget(r)
             related == RelatedResults(nodesRead, MergeCompeting(edges), ToSet(subject.seeds), r.mode, budget.nodes)
             capped  == Capped(BestFirst(Deduplicated(related.results)), budget)
             warned  == IF Unsupported(r, subject.seeds) THEN {"unsupported_language"} ELSE {}
             base == Answer("resolved", capped.results, <<>>,
                            capped.warnings \cup warned \cup IF related.exhausted THEN {"nodes"} ELSE {})
             right == Made(base, edges, subject.seeds, {})
             lost == Answer(subject.outcome, <<>>, subject.candidates,
                            warned \cup IF subject.total > Len(subject.candidates) THEN {"candidates"} ELSE {})
  <2>1. a = lost \/ a = right
    BY Zenon DEF QueryAnswer
  <2>2. "outcome" \in DOMAIN lost /\ "outcome" \in DOMAIN base
    BY AnswerIs, Zenon
  <2> HIDE DEF base
  <2>3. "outcome" \in DOMAIN right
    BY <2>2, MadeIs, Zenon
  <2> HIDE DEF a, lost, right
  <2> QED
    BY <2>1, <2>2, <2>3 DEF a
<1>2. "outcome" \in DOMAIN ExpandAnswer(r, edges) /\ ExpandAnswer(r, edges).outcome # "resolved"
  <2> DEFINE a == ExpandAnswer(r, edges)
             subject == ResolveByType(nodesRead, r.query, "find_references", r.type)
             merged == MergeCompeting(edges)
             expanded == Expanded(nodesRead, merged, subject.seeds, r)
             sorted == BestFirst(Deduplicated(expanded.results))
             pack == First(sorted, r.limit)
             lost == Answer(subject.outcome, <<>>, subject.candidates,
                            IF subject.total > Len(subject.candidates) THEN {"candidates"} ELSE {})
             wrong == Answer("error", <<>>, <<>>, {})
             items == [i \in DOMAIN pack |-> PackItem(pack[i])]
             warned == expanded.warnings \cup IF Len(sorted) > r.limit THEN {"results"} ELSE {}
             base == Answer("packed", items, <<>>, warned)
             right == Made(base, edges, subject.seeds, {})
             broken == r.depth > 1 /\ ~Indexable(nodesRead, merged)
  <2>1. a = CASE subject.outcome # "resolved" -> lost
              [] subject.outcome = "resolved" /\ broken -> wrong
              [] OTHER -> right
    BY Zenon DEF ExpandAnswer
  <2> HIDE DEF items, warned
  <2>2. /\ "outcome" \in DOMAIN lost /\ lost.outcome = subject.outcome
        /\ "outcome" \in DOMAIN wrong /\ wrong.outcome = "error"
    BY AnswerIs, Zenon
  <2>4. "outcome" \in DOMAIN base
    BY AnswerIs, Zenon
  <2>5. base.outcome = "packed"
    BY AnswerIs, Zenon
  <2> HIDE DEF base
  <2>6. "outcome" \in DOMAIN right /\ right.outcome = base.outcome
    BY <2>4, MadeIs, Zenon
  <2>3. "outcome" \in DOMAIN right /\ right.outcome = "packed"
    BY <2>5, <2>6, Zenon
  <2> HIDE DEF a, lost, wrong, right, broken, subject
  <2> QED
    BY <2>1, <2>2, <2>3 DEF a
<1>3. "outcome" \in DOMAIN NeighborsAnswer(r, edges) /\ NeighborsAnswer(r, edges).outcome # "resolved"
  <2> DEFINE a == NeighborsAnswer(r, edges)
             seeds == Matching(nodesRead, r.query)
             walk  == NeighborsOf(nodesRead, edges, seeds, r.limit, r.depth)
             wrong == Answer("error", <<>>, <<>>, {})
             items == walk.evidence
             warned == IF walk.full \/ Len(seeds) > Len(walk.evidence) THEN {"truncated"} ELSE {}
             base == Answer("neighbors", items, <<>>, warned)
             right == Made(base, edges, seeds, {})
  <2>1. a = wrong \/ a = right
    BY Zenon DEF NeighborsAnswer
  <2> HIDE DEF items, warned, seeds
  <2>2. /\ "outcome" \in DOMAIN wrong /\ wrong.outcome = "error"
    BY AnswerIs, Zenon
  <2>4. "outcome" \in DOMAIN base
    BY AnswerIs, Zenon
  <2>5. base.outcome = "neighbors"
    BY AnswerIs, Zenon
  <2> HIDE DEF base
  <2>6. "outcome" \in DOMAIN right /\ right.outcome = base.outcome
    BY <2>4, MadeIs, Zenon
  <2>3. "outcome" \in DOMAIN right /\ right.outcome = "neighbors"
    BY <2>5, <2>6, Zenon
  <2> HIDE DEF a, wrong, right
  <2> QED
    BY <2>1, <2>2, <2>3 DEF a
<1>4. "outcome" \in DOMAIN PathAnswer(r, edges) /\ PathAnswer(r, edges).outcome # "resolved"
  <2> DEFINE a == PathAnswer(r, edges)
             from    == Matching(nodesRead, r.query)
             targets == {n.id : n \in ToSet(Matching(nodesRead, r.to))}
             paths   == FlattenSeq([i \in DOMAIN from |->
                            LET found == PathsFrom(nodesRead, edges, from[i], targets, r.depth)
                            IN  [j \in DOMAIN found |-> [from |-> from[i], hops |-> found[j]]]])
             wrong == Answer("error", <<>>, <<>>, {})
             items == First(paths, r.limit)
             warned == IF Len(paths) > r.limit THEN {"truncated"} ELSE {}
             base == Answer("paths", items, <<>>, warned)
             right == Made(base, edges, from, targets)
  <2>1. a = wrong \/ a = right
    BY Zenon DEF PathAnswer
  <2> HIDE DEF items, warned, from, targets
  <2>2. /\ "outcome" \in DOMAIN wrong /\ wrong.outcome = "error"
    BY AnswerIs, Zenon
  <2>4. "outcome" \in DOMAIN base
    BY AnswerIs, Zenon
  <2>5. base.outcome = "paths"
    BY AnswerIs, Zenon
  <2> HIDE DEF base
  <2>6. "outcome" \in DOMAIN right /\ right.outcome = base.outcome
    BY <2>4, MadeIs, Zenon
  <2>3. "outcome" \in DOMAIN right /\ right.outcome = "paths"
    BY <2>5, <2>6, Zenon
  <2> HIDE DEF a, wrong, right
  <2> QED
    BY <2>1, <2>2, <2>3 DEF a
<1> QED
  BY <1>1, <1>2, <1>3, <1>4

\* What is asked is valid once it is under way, and what is packed has no answer
\* to a query.
AskedInv ==
    /\ at \in {"asked", "nodes"} => request \in Requests /\ Valid(request)
    /\ at = "packed" => "outcome" \in DOMAIN response /\ response.outcome = "packed"
    /\ at = "answered" /\ response.outcome = "resolved" => DropsNothing(request.mode, response)

LEMMA AskedAtFirst == QueryInit => AskedInv
  BY DEF QueryInit, AskedInv

LEMMA AskedAlways == AskedInv /\ [Asking \/ Writing]_queryVars => AskedInv'
<1> SUFFICES ASSUME AskedInv, [Asking \/ Writing]_queryVars  PROVE AskedInv'
  OBVIOUS
<1>1. CASE UNCHANGED <<request, at, response>>
  BY <1>1 DEF AskedInv
<1>2. ASSUME NEW r \in Requests, Ask(r)  PROVE AskedInv'
  <2>1. /\ request' = r /\ at' \in {"asked", "answered"} /\ (at' = "asked" => Valid(r))
        /\ response' = IF Valid(r) /\ ValidConfig(Configured) THEN Answer("unavailable", <<>>, <<>>, {"unavailable"})
                       ELSE Answer("invalid", <<>>, <<>>, {})
    BY <1>2 DEF Ask
  <2>2. response'.outcome # "resolved"
    <3>1. /\ Answer("unavailable", <<>>, <<>>, {"unavailable"}).outcome = "unavailable"
          /\ Answer("invalid", <<>>, <<>>, {}).outcome = "invalid"
      BY AnswerIs, Zenon
    <3> QED
      BY <2>1, <3>1
  <2>3. at' \in {"asked", "nodes"} => request' \in Requests /\ Valid(request')
    BY <2>1
  <2>4. at' # "packed"
    BY <2>1
  <2> QED
    BY <2>2, <2>3, <2>4, Zenon DEF AskedInv
<1>3. CASE ReadNodes
  <2>1. at = "asked" /\ at' = "nodes" /\ request' = request
    BY <1>3 DEF ReadNodes
  <2>2. request' \in Requests /\ Valid(request')
    BY <2>1 DEF AskedInv
  <2> QED
    BY <2>1, <2>2 DEF AskedInv
<1>4. CASE ReadEdges
  <2> DEFINE r     == request
             places == {i \in DOMAIN EdgeOrder : EdgeOrder[i] \in stored.edges /\ (r.stale \/ ~EdgeOrder[i].stale)}
             edges == Chosen(EdgeOrder, places)
  <2>1. /\ at = "nodes" /\ request' = request
        /\ response' = CASE r.op = "query"     -> QueryAnswer(r, edges)
                         [] r.op = "expand"    -> ExpandAnswer(r, edges)
                         [] r.op = "neighbors" -> NeighborsAnswer(r, edges)
                         [] r.op = "path"      -> PathAnswer(r, edges)
        /\ at' = IF response'.outcome = "packed" THEN "packed" ELSE "answered"
    BY <1>4, Zenon DEF ReadEdges
  <2>2. r \in Requests /\ Valid(r) /\ r.op \in {"query", "expand", "neighbors", "path"}
    BY <2>1, QuestionAssumption DEF AskedInv
  <2>3. edges \in Seq(ToSet(EdgeOrder))
    <3>1. EdgeOrder \in Seq(ToSet(EdgeOrder))
      BY QuestionAssumption DEF Listing
    <3>2. places \in SUBSET (1..Len(EdgeOrder))
      BY <3>1
    <3> QED
      BY <3>1, <3>2, ChosenKeeps
  <2> HIDE DEF edges, r
  <2>4. response' \in {QueryAnswer(r, edges), ExpandAnswer(r, edges), NeighborsAnswer(r, edges), PathAnswer(r, edges)}
        /\ (response' = QueryAnswer(r, edges) => "outcome" \in DOMAIN response')
        /\ (r.op # "query" => "outcome" \in DOMAIN response' /\ response'.outcome # "resolved")
        /\ (r.op = "query" => response' = QueryAnswer(r, edges))
    BY <2>1, <2>2, OthersAreNot
  <2>5. "outcome" \in DOMAIN response'
    BY <2>4
  <2>6. ASSUME response'.outcome = "resolved"  PROVE DropsNothing(r.mode, response')
    <3>1. r.op = "query" /\ response' = QueryAnswer(r, edges)
      BY <2>4, <2>6
    <3>2. ValidQuery(r)
      BY <2>2, <3>1 DEF Valid
    <3> QED
      BY <2>3, <2>6, <3>1, <3>2, QueryDropsNothing
  <2>7. at' \in {"packed", "answered"} /\ (at' = "packed" => response'.outcome = "packed") /\ request' = r
    BY <2>1 DEF r
  <2>8. at' # "asked" /\ at' # "nodes"
    BY <2>7
  <2>9. DropsNothing(request'.mode, response') \/ response'.outcome # "resolved"
    BY <2>6, <2>7
  <2> QED
    BY <2>5, <2>7, <2>8, <2>9 DEF AskedInv
<1>5. CASE Hydrate
  <2>1. /\ at = "packed" /\ at' = "answered"
        /\ response' = [response EXCEPT !.results = [i \in DOMAIN @ |-> Hydrated(@[i])]]
    BY <1>5 DEF Hydrate
  <2>2. "outcome" \in DOMAIN response /\ response.outcome = "packed"
    BY <2>1 DEF AskedInv
  <2>3. response'.outcome = "packed"
    BY <2>1, <2>2
  <2> QED
    BY <2>1, <2>3 DEF AskedInv
<1>6. CASE Writing
  BY <1>1, <1>6 DEF Writing, IndexPart, WritePart, ResetGraph, FailUpdate
<1> QED
  BY <1>1, <1>2, <1>3, <1>4, <1>5, <1>6 DEF Asking, queryVars

\* What the answer to a query leaves out it says, whatever the graph and the
\* budgets are and however they change between its reads.
THEOREM AnswersDropNothing == QuerySpec => []NothingDroppedSilently
<1>1. AskedInv => NothingDroppedSilently
  BY Zenon DEF AskedInv, DropsNothing, NothingDroppedSilently, Answered, Read
<1> QED
  BY <1>1, AskedAtFirst, AskedAlways, PTL DEF QuerySpec
=============================================================================
