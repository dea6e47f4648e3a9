------------------------- MODULE IndexStoresProofs -------------------------
(***************************************************************************)
(* What the store operations of IndexStores return, for every contents:    *)
(* the lemmas the proofs about the coordinator and the bulk indexer share. *)
(***************************************************************************)
EXTENDS IndexStores, TLAPS

\* Two chunk rows that differ at most in their embedding column.
Same(c, d) == /\ c.path = d.path
              /\ c.content = d.content
              /\ c.owner = d.owner
              /\ c.gen = d.gen

\* A row that differs from another in its embedding only has its ID.
LEMMA SameID == \A c, d : Same(c, d) => ID(c) = ID(d)
  BY DEF Same, ID

\* NewChunks yields one row per piece of the version, under the owner's key.
LEMMA NewChunksRows ==
    ASSUME NEW o \in Owner, NEW p \in Path, NEW v \in Version
    PROVE  /\ NewChunks(o, p, v) \subseteq ChunkRow
           /\ \A c \in NewChunks(o, p, v) :
                 c.path = p /\ c.owner = o /\ c.gen = v /\ c.content \in Pieces[p][v]
           /\ \A t \in Pieces[p][v] : \E c \in NewChunks(o, p, v) : c.content = t
<1>1. Pieces[p][v] \subseteq Content
  BY ConstantsAssumption
<1> DEFINE row(t) == [path |-> p, content |-> t, owner |-> o, gen |-> v, emb |-> NoModel]
<1>2. NewChunks(o, p, v) = {row(t) : t \in Pieces[p][v]}
  BY DEF NewChunks
<1>3. \A t \in Content : /\ row(t) \in ChunkRow
                          /\ row(t).path = p /\ row(t).owner = o
                          /\ row(t).gen = v /\ row(t).content = t
  BY DEF ChunkRow
<1> HIDE DEF row
<1>4. QED
  BY <1>1, <1>2, <1>3

\* SaveChunkEmbeddings changes nothing but the embedding column.
LEMMA SaveEmbeddingsRows ==
    ASSUME NEW cs \in SUBSET ChunkRow, NEW ids, NEW m \in Model
    PROVE  /\ SaveEmbeddings(cs, ids, m) \subseteq ChunkRow
           /\ \A c \in SaveEmbeddings(cs, ids, m) : \E d \in cs : Same(c, d)
           /\ \A d \in cs : \E c \in SaveEmbeddings(cs, ids, m) : Same(c, d)
<1> DEFINE up(c) == IF ID(c) \in ids THEN [c EXCEPT !.emb = m] ELSE c
<1>1. SaveEmbeddings(cs, ids, m) = {up(c) : c \in cs}
  BY DEF SaveEmbeddings
<1>2. \A c \in ChunkRow : up(c) \in ChunkRow /\ Same(up(c), c)
  BY DEF ChunkRow, Same
<1>3. QED
  BY <1>1, <1>2

\* SaveChunks keeps the rows it does not replace and stores every new row.
LEMMA SaveChunksRows ==
    ASSUME NEW cs \in SUBSET ChunkRow, NEW new \in SUBSET ChunkRow
    PROVE  /\ SaveChunks(cs, new) \subseteq ChunkRow
           /\ \A c \in SaveChunks(cs, new) : c \in cs \/ \E n \in new : Same(c, n)
           /\ \A n \in new : \E c \in SaveChunks(cs, new) : Same(c, n)
           /\ \A c \in cs : ID(c) \notin IDs(new) => c \in SaveChunks(cs, new)
<1> DEFINE kept(n) == {c.emb : c \in {d \in cs : ID(d) = ID(n)}}
           e(n)    == IF kept(n) = {} THEN n.emb ELSE CHOOSE x \in kept(n) : TRUE
           up(n)   == [n EXCEPT !.emb = e(n)]
<1>1. SaveChunks(cs, new) = DeleteChunks(cs, IDs(new)) \cup {up(n) : n \in new}
  BY DEF SaveChunks
<1>2. \A n \in new : e(n) \in Model \cup {NoModel}
  <2> TAKE n \in new
  <2>1. kept(n) \subseteq Model \cup {NoModel}
    BY DEF ChunkRow
  <2>2. n.emb \in Model \cup {NoModel}
    BY DEF ChunkRow
  <2>3. CASE kept(n) = {}
    BY <2>2, <2>3
  <2>4. CASE kept(n) # {}
    <3>1. (CHOOSE x \in kept(n) : TRUE) \in kept(n)
      BY <2>4
    <3>2. QED
      BY <2>1, <2>4, <3>1
  <2>5. QED
    BY <2>3, <2>4
<1> HIDE DEF e
<1>3. \A n \in new : up(n) \in ChunkRow /\ Same(up(n), n)
  BY <1>2 DEF ChunkRow, Same
<1> HIDE DEF up
<1>4. DeleteChunks(cs, IDs(new)) \subseteq cs
  BY DEF DeleteChunks
<1>5. \A c \in cs : ID(c) \notin IDs(new) => c \in DeleteChunks(cs, IDs(new))
  BY DEF DeleteChunks
<1>6. QED
  BY <1>1, <1>3, <1>4, <1>5

-----------------------------------------------------------------------------
(* The embedding column, and one row per chunk ID.                         *)

OneRowEach(cs) == \A c, d \in cs : ID(c) = ID(d) => c = d

\* Rows of one owner, one version of a file each, and no embedding.
LEMMA NewChunksOneEach ==
    ASSUME NEW o \in Owner, NEW P \in SUBSET Path, NEW v, \A p \in P : v[p] \in Version,
           NEW cs, \A c : c \in cs <=> \E p \in P : c \in NewChunks(o, p, v[p])
    PROVE  /\ cs \in SUBSET ChunkRow /\ OneRowEach(cs)
           /\ \A c \in cs : /\ c.path \in P /\ c.owner = o /\ c.emb = NoModel
                             /\ c.content \in Pieces[c.path][v[c.path]]
           /\ \A p \in P : \A t \in Pieces[p][v[p]] : <<p, t>> \in IDs(cs)
<1> DEFINE row(p, t) == [path |-> p, content |-> t, owner |-> o, gen |-> v[p], emb |-> NoModel]
<1>1. \A p \in P : Pieces[p][v[p]] \subseteq Content
  BY ConstantsAssumption
<1>2. \A p \in P : NewChunks(o, p, v[p]) = {row(p, t) : t \in Pieces[p][v[p]]}
  BY DEF NewChunks
<1>3. \A p \in P, t \in Content :
         /\ row(p, t) \in ChunkRow /\ row(p, t).path = p /\ row(p, t).content = t
         /\ row(p, t).owner = o /\ row(p, t).emb = NoModel /\ ID(row(p, t)) = <<p, t>>
  BY DEF ChunkRow, ID
<1> HIDE DEF row
<1>4. \A c \in cs : \E p \in P : \E t \in Pieces[p][v[p]] : c = row(p, t)
  BY <1>2
<1>5. \A p \in P : \A t \in Pieces[p][v[p]] : row(p, t) \in cs
  BY <1>2
<1>6. cs \subseteq ChunkRow
  BY <1>1, <1>3, <1>4
<1>7. OneRowEach(cs)
  <2> SUFFICES ASSUME NEW c \in cs, NEW d \in cs, ID(c) = ID(d)  PROVE c = d
    BY DEF OneRowEach
  <2>1. PICK p \in P, t \in Content : t \in Pieces[p][v[p]] /\ c = row(p, t)
    BY <1>1, <1>4
  <2>2. PICK q \in P, u \in Content : u \in Pieces[q][v[q]] /\ d = row(q, u)
    BY <1>1, <1>4
  <2>3. <<p, t>> = <<q, u>>
    BY <1>1, <1>3, <2>1, <2>2
  <2> QED
    BY <2>1, <2>2, <2>3
<1>8. \A c \in cs : /\ c.path \in P /\ c.owner = o /\ c.emb = NoModel
                    /\ c.content \in Pieces[c.path][v[c.path]]
  BY <1>1, <1>3, <1>4
<1>9. \A p \in P : \A t \in Pieces[p][v[p]] : <<p, t>> \in IDs(cs)
  BY <1>1, <1>3, <1>5 DEF IDs
<1> QED
  BY <1>6, <1>7, <1>8, <1>9

\* SaveChunkEmbeddings sets the embedding of the chunks it is given.
LEMMA SaveEmbeddingsSet ==
    ASSUME NEW cs \in SUBSET ChunkRow, NEW ids, NEW m \in Model
    PROVE  /\ SaveEmbeddings(cs, ids, m) \subseteq ChunkRow
           /\ IDs(SaveEmbeddings(cs, ids, m)) = IDs(cs)
           /\ OneRowEach(cs) => OneRowEach(SaveEmbeddings(cs, ids, m))
           /\ \A c \in SaveEmbeddings(cs, ids, m) :
                 \E d \in cs : Same(c, d) /\ c.emb = IF ID(d) \in ids THEN m ELSE d.emb
<1> DEFINE up(c) == IF ID(c) \in ids THEN [c EXCEPT !.emb = m] ELSE c
<1>1. SaveEmbeddings(cs, ids, m) = {up(c) : c \in cs}
  BY DEF SaveEmbeddings
<1>2. \A c \in ChunkRow : /\ up(c) \in ChunkRow /\ Same(up(c), c)
                           /\ up(c).emb = IF ID(c) \in ids THEN m ELSE c.emb
  BY DEF ChunkRow, Same
<1> HIDE DEF up
<1>3. \A c \in cs : ID(up(c)) = ID(c)
  BY <1>2 DEF Same, ID
<1>4. IDs(SaveEmbeddings(cs, ids, m)) = IDs(cs)
  BY <1>1, <1>3 DEF IDs
<1>5. OneRowEach(cs) => OneRowEach(SaveEmbeddings(cs, ids, m))
  BY <1>1, <1>3 DEF OneRowEach
<1> QED
  BY <1>1, <1>2, <1>4, <1>5

\* SaveChunks replaces the rows of the IDs it is given, and keeps their embeddings.
LEMMA SaveChunksSet ==
    ASSUME NEW cs \in SUBSET ChunkRow, NEW new \in SUBSET ChunkRow
    PROVE  /\ IDs(SaveChunks(cs, new)) = IDs(cs) \cup IDs(new)
           /\ OneRowEach(cs) /\ OneRowEach(new) => OneRowEach(SaveChunks(cs, new))
           /\ \A c \in SaveChunks(cs, new) :
                 \/ c \in cs /\ ID(c) \notin IDs(new)
                 \/ \E n \in new : /\ Same(c, n)
                                   /\ \/ c.emb = n.emb
                                      \/ \E d \in cs : ID(d) = ID(n) /\ c.emb = d.emb
<1> DEFINE kept(n) == {c.emb : c \in {d \in cs : ID(d) = ID(n)}}
           e(n)    == IF kept(n) = {} THEN n.emb ELSE CHOOSE x \in kept(n) : TRUE
           up(n)   == [n EXCEPT !.emb = e(n)]
<1>1. SaveChunks(cs, new) = DeleteChunks(cs, IDs(new)) \cup {up(n) : n \in new}
  BY DEF SaveChunks
<1>2. ASSUME NEW n \in new
      PROVE  e(n) = n.emb \/ \E d \in cs : ID(d) = ID(n) /\ e(n) = d.emb
  <2>1. CASE kept(n) = {}
    BY <2>1
  <2>2. CASE kept(n) # {}
    <3>1. (CHOOSE x \in kept(n) : TRUE) \in kept(n)
      BY <2>2
    <3> QED
      BY <2>2, <3>1
  <2> QED
    BY <2>1, <2>2
<1> HIDE DEF e
<1>3. \A n \in new : Same(up(n), n) /\ up(n).emb = e(n)
  BY DEF ChunkRow, Same
<1> HIDE DEF up
<1>4. \A n \in new : ID(up(n)) = ID(n)
  BY <1>3, SameID
<1>5. DeleteChunks(cs, IDs(new)) = {c \in cs : ID(c) \notin IDs(new)}
  BY DEF DeleteChunks
<1>6. IDs(SaveChunks(cs, new)) = IDs(cs) \cup IDs(new)
  <2>1. ASSUME NEW x \in IDs(SaveChunks(cs, new))  PROVE x \in IDs(cs) \cup IDs(new)
    BY <1>1, <1>4, <1>5 DEF IDs
  <2>2. ASSUME NEW n \in new  PROVE ID(n) \in IDs(SaveChunks(cs, new))
    <3>1. up(n) \in SaveChunks(cs, new)
      BY <1>1
    <3> QED
      BY <1>4, <3>1 DEF IDs
  <2>3. ASSUME NEW c \in cs, ID(c) \notin IDs(new)  PROVE ID(c) \in IDs(SaveChunks(cs, new))
    BY <1>1, <1>5, <2>3 DEF IDs
  <2> QED
    BY <2>1, <2>2, <2>3 DEF IDs
<1>7. ASSUME OneRowEach(cs), OneRowEach(new)  PROVE OneRowEach(SaveChunks(cs, new))
  <2> SUFFICES ASSUME NEW c \in SaveChunks(cs, new), NEW d \in SaveChunks(cs, new), ID(c) = ID(d)
               PROVE  c = d
    BY DEF OneRowEach
  <2>1. \A n \in new : ID(n) \in IDs(new)
    BY DEF IDs
  <2>2. CASE c \in cs /\ ID(c) \notin IDs(new)
    BY <1>1, <1>4, <1>5, <1>7, <2>1, <2>2 DEF OneRowEach
  <2>3. CASE \E n \in new : c = up(n)
    <3>1. PICK n \in new : c = up(n)
      BY <2>3
    <3>2. ID(d) \in IDs(new)
      BY <1>4, <2>1, <3>1
    <3>3. PICK m \in new : d = up(m)
      BY <1>1, <1>5, <3>2
    <3>4. n = m
      BY <1>4, <1>7, <3>1, <3>3 DEF OneRowEach
    <3> QED
      BY <3>1, <3>3, <3>4
  <2> QED
    BY <1>1, <1>5, <2>2, <2>3
<1>8. \A c \in SaveChunks(cs, new) :
         \/ c \in cs /\ ID(c) \notin IDs(new)
         \/ \E n \in new : /\ Same(c, n)
                           /\ \/ c.emb = n.emb
                              \/ \E d \in cs : ID(d) = ID(n) /\ c.emb = d.emb
  BY <1>1, <1>2, <1>3, <1>5
<1> QED
  BY <1>6, <1>7, <1>8

=============================================================================
