---------------------------- MODULE IndexStores ----------------------------
(***************************************************************************)
(* What the three stores of an AmanMCP index hold, and what their          *)
(* operations do to it.  The metadata store (SQLite) keeps one row per     *)
(* indexed file and one row per chunk; the BM25 index and the vector store *)
(* keep sets of chunk IDs.  The operations are state-free: each takes the  *)
(* contents of a store and returns its next contents, so that every        *)
(* component that writes the stores (the watcher's coordinator, the bulk   *)
(* indexer) uses the same definitions.  One operation is one SQL           *)
(* transaction or one critical section of the store's mutex.               *)
(***************************************************************************)
EXTENDS Naturals, FiniteSets

CONSTANTS
    Path,        \* project-relative file paths
    Content,     \* the pieces of text a chunker can cut a file into
    MaxVersion,  \* bound: how often the user may edit one file
    Kind,        \* Kind[p][v]: what the indexers make of version v of path p
    Pieces,      \* Pieces[p][v]: the pieces version v of path p is cut into
    Model,       \* embedding models
    NoModel      \* the embedding column of a chunk that has no embedding

Version == 1..MaxVersion

(***************************************************************************)
(* "code": chunked and searchable.  "empty": chunked into nothing.         *)
(* "config": a graph-only file, a file row and no chunk.  "refused": the   *)
(* scan lists it, but indexing returns before it touches the index (a      *)
(* blocked secret, a chunker error).  "binary": the scan does not list it  *)
(* and indexing skips it once it has read it.  "oversized": the scan does  *)
(* not list it and indexing skips it on its size, before reading; text that *)
(* grows beyond the limit between the two is chunked.                      *)
(***************************************************************************)
Kinds == {"code", "empty", "config", "refused", "binary", "oversized"}

ASSUME ConstantsAssumption ==
    /\ MaxVersion \in Nat \ {0}
    /\ Kind \in [Path -> [Version -> Kinds]]
    /\ Pieces \in [Path -> [Version -> SUBSET Content]]
    /\ NoModel \notin Model
    /\ \A p \in Path, v \in Version : 
        Pieces[p][v] # {} <=> Kind[p][v] \in {"code", "oversized"}

(***************************************************************************)
(* The primary key of a file row is a hash.  The bulk indexer hashes the   *)
(* path, the coordinator hashes project and path: the same file has a      *)
(* different key depending on who indexed it last.                         *)
(***************************************************************************)
Owner   == {"runner", "coordinator"}
FileID  == Owner \X Path
ChunkID == Path \X Content     \* a hash of path and text

\* A chunk row; gen is the file version its text was read from, emb the model
\* of the embedding column (NoModel while the column is NULL).
ChunkRow == [path : Path, content : Content, owner : Owner,
             gen : Version, emb : Model \cup {NoModel}]

ID(c)   == <<c.path, c.content>>
IDs(cs) == {ID(c) : c \in cs}

\* The rows a chunker's output for version v of p becomes.
NewChunks(o, p, v) ==
    {[path |-> p, content |-> t, owner |-> o, gen |-> v, emb |-> NoModel] :
        t \in Pieces[p][v]}

-----------------------------------------------------------------------------
(* files: rows[id] is the version whose mtime and size the row has, 0 when *)
(* there is no row.                                                        *)

NoRow == 0
Rows  == [FileID -> 0..MaxVersion]

\* Mutation of SaveFileRow: forget the DELETE of the path's other row.
SaveFileRowBlindUpsert(rows, o, p, v) == [rows EXCEPT ![<<o, p>>] = v]

\* Mutation of SaveFileRow: the stamp is off by one.
SaveFileRowOffByOne(rows, o, p, v) ==
    [id \in FileID |-> CASE id = <<o, p>>              -> v + 1
                         [] id # <<o, p>> /\ id[2] = p -> NoRow
                         [] OTHER                      -> rows[id]]

\* SaveFiles for one file: delete the path's rows with another key, upsert.
SaveFileRow(rows, o, p, v) ==
    [id \in FileID |-> CASE id = <<o, p>>              -> v
                         [] id # <<o, p>> /\ id[2] = p -> NoRow
                         [] OTHER                      -> rows[id]]

DropFileRow(rows, o, p) == [rows EXCEPT ![<<o, p>>] = NoRow]

\* GetFilesForReconciliation: the indexed version of each path, 0 when none.
IndexedVersion(rows, p) ==
    IF rows[<<"coordinator", p>>] # NoRow THEN rows[<<"coordinator", p>>]
                                          ELSE rows[<<"runner", p>>]

-----------------------------------------------------------------------------
(* chunks: the foreign key on files(id) cascades.                          *)

ChunksByFile(cs, o, p) == {c \in cs : c.owner = o /\ c.path = p}
ChunksOfPath(cs, p)    == {c \in cs : c.path = p}

\* Mutation of CascadeSave: PRAGMA foreign_keys is off.
CascadeSaveOff(cs, o, p) == cs

\* What SaveFiles' DELETE of the path's other row takes with it.
CascadeSave(cs, o, p) == {c \in cs : c.path = p => c.owner = o}

CascadeDrop(cs, o, p) == cs \ ChunksByFile(cs, o, p)

DeleteChunks(cs, ids) == {c \in cs : ID(c) \notin ids}

\* SaveChunks: upsert by chunk ID; an updated row keeps its embedding.
SaveChunks(cs, new) ==
    LET kept(n) == {c.emb : c \in {d \in cs : ID(d) = ID(n)}}
    IN  DeleteChunks(cs, IDs(new)) \cup
        {[n EXCEPT !.emb = IF kept(n) = {} THEN n.emb
                                           ELSE CHOOSE e \in kept(n) : TRUE] :
            n \in new}

\* SaveChunkEmbeddings: UPDATE ... WHERE id = ?
SaveEmbeddings(cs, ids, model) ==
    {IF ID(c) \in ids THEN [c EXCEPT !.emb = model] ELSE c : c \in cs}

\* GetAllEmbeddings: chunks whose embedding column is NULL are skipped.
EmbeddedIDs(cs) == IDs({c \in cs : c.emb # NoModel})

=============================================================================
