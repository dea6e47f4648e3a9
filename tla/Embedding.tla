------------------------------- MODULE Embedding -------------------------------
\* The embedding clients of internal/embed under concurrent callers: the cache in
\* front, the Ollama client that sends blank-free batches with retries, and the MLX
\* client that sends everything at once. The vector of a text is the text itself,
\* Zero for the zero vector, Nil for no vector; the model is fixed, so a cache key
\* is a text. Timeouts and backoff are abstracted: an attempt may fail at any time.
EXTENDS Naturals, Sequences, FiniteSets, SequencesExt, Functions

CONSTANTS Asker,        \* concurrent callers
          Text,          \* texts, with Blank
          Blank,         \* a text of white space only
          MaxTexts,      \* longest batch asked for
          CacheSize,     \* capacity of the cache
          BatchSize,     \* e.config.BatchSize
          MaxAttempts,   \* e.config.MaxRetries and DefaultMLXMaxRetries
          MaxCalls,      \* bound on the calls
          Zero, Nil

ASSUME EmbeddingAssumption ==
    /\ Blank \in Text /\ Zero \notin Text
    /\ CacheSize \in Nat \ {0} /\ BatchSize \in Nat \ {0} /\ MaxAttempts \in Nat \ {0}
    /\ MaxTexts \in Nat /\ MaxCalls \in Nat

VARIABLES client,    \* "ollama" or "mlx"
          honest,    \* whether the server returns as many vectors as it got texts
          cache,     \* the LRU cache, least recently used first: <<text, vector>>
          job,       \* what each caller is doing
          shut,      \* e.closed
          calls      \* number of calls so far

embedVars == <<client, honest, cache, job, shut, calls>>

NoJob == [at |-> "idle", single |-> FALSE, texts |-> <<>>, results |-> <<>>, asked |-> <<>>,
          inner |-> <<>>, pending |-> <<>>, attempt |-> 0]

EmbedInit ==
    /\ client \in {"ollama", "mlx"} /\ honest \in BOOLEAN
    /\ cache = <<>> /\ job = [c \in Asker |-> NoJob]
    /\ shut = FALSE /\ calls = 0

\* What the client makes of a text: Ollama is not asked about a blank one.
VectorOf(t) == IF client = "ollama" /\ t = Blank THEN Zero ELSE t

Cached(t)  == \E e \in Range(cache) : e[1] = t
Hit(t)     == (CHOOSE e \in Range(cache) : e[1] = t)[2]

\* The LRU cache: an entry that is looked up or added becomes the latest, the oldest
\* is dropped when there are too many.
Place(lru, t)   == CHOOSE i \in DOMAIN lru : lru[i][1] = t
Held(lru, t)    == \E i \in DOMAIN lru : lru[i][1] = t
Without(lru, t) == IF Held(lru, t) THEN RemoveAt(lru, Place(lru, t)) ELSE lru
Touch(lru, t)   == IF Held(lru, t) THEN Append(Without(lru, t), lru[Place(lru, t)]) ELSE lru
Store(lru, e)   == LET grown == Append(Without(lru, e[1]), e)
                   IN  IF Len(grown) > CacheSize THEN Tail(grown) ELSE grown

\* The texts looked up, the entries added, one after the other.
Touched(lru, texts) ==
    LET after[n \in 0..Len(texts)] == IF n = 0 THEN lru ELSE Touch(after[n - 1], texts[n])
    IN  after[Len(texts)]
Stored(lru, entries) ==
    LET after[n \in 0..Len(entries)] == IF n = 0 THEN lru ELSE Store(after[n - 1], entries[n])
    IN  after[Len(entries)]

\* Those of 1..n that are wanted, in order.
Positions(n, wanted) ==
    LET upTo[i \in 0..n] == IF i = 0 THEN <<>>
                            ELSE IF i \in wanted THEN Append(upTo[i - 1], i) ELSE upTo[i - 1]
    IN  upTo[n]

\* CachedEmbedder.Embed and EmbedBatch: the cache is looked up for every text, the
\* others are handed on together. EmbedBatch of the client: a blank text gets the
\* zero vector at once, the others are sent in batches.
Call(c) ==
    /\ job[c].at \notin {"asking", "storing"} /\ calls < MaxCalls
    /\ calls' = calls + 1
    /\ \E single \in BOOLEAN, n \in 1..MaxTexts : \E texts \in [1..n -> Text] :
         LET asked   == Positions(n, {i \in 1..n : ~Cached(texts[i])})
             blank   == {j \in 1..Len(asked) : VectorOf(texts[asked[j]]) = Zero}
             inner   == [j \in 1..Len(asked) |-> IF j \in blank THEN Zero ELSE Nil]
             pending == Positions(Len(asked), (1..Len(asked)) \ blank)
         IN  /\ single => n = 1
             /\ job' = [job EXCEPT ![c] =
                    [at      |-> IF asked = <<>> THEN "done" ELSE IF shut THEN "failed"
                                 ELSE IF pending = <<>> THEN "storing" ELSE "asking",
                     single  |-> single, texts |-> texts,
                     results |-> [i \in 1..n |-> IF Cached(texts[i]) THEN Hit(texts[i]) ELSE Nil],
                     asked   |-> asked, inner |-> inner, pending |-> pending, attempt |-> 0]]
             /\ cache' = Touched(cache, texts)
    /\ UNCHANGED <<client, honest, shut>>

\* The batch in flight: at most BatchSize positions for Ollama, all of them for MLX.
Batch(j) == IF client = "ollama" /\ Len(j.pending) > BatchSize THEN SubSeq(j.pending, 1, BatchSize) ELSE j.pending
Rest(j)  == SubSeq(j.pending, Len(Batch(j)) + 1, Len(j.pending))

\* An attempt fails, by an error or its timeout: tried again after a backoff, up to
\* MaxAttempts in all.
AttemptFails(c) ==
    job' = [job EXCEPT ![c].attempt = @ + 1, ![c].at = IF job[c].attempt + 1 >= MaxAttempts THEN "failed" ELSE @]

\* The request of one text to MLX is tried once.
MLXSingleFails(c) == job' = [job EXCEPT ![c].at = "failed"]

RequestFails(c) ==
    /\ job[c].at = "asking"
    /\ IF client = "mlx" /\ job[c].single THEN MLXSingleFails(c) ELSE AttemptFails(c)
    /\ UNCHANGED <<client, honest, cache, shut, calls>>

\* The context of the call is done.
Cancel(c) ==
    /\ job[c].at = "asking"
    /\ job' = [job EXCEPT ![c].at = "failed"]
    /\ UNCHANGED <<client, honest, cache, shut, calls>>

\* A slip: the answers placed by their position in the batch.
PlacedByPosition(j, vectors) ==
    [i \in DOMAIN j.inner |-> IF i <= Len(vectors) THEN vectors[i] ELSE j.inner[i]]

\* The answers placed at the positions their texts came from.
Placed(j, vectors) ==
    [i \in DOMAIN j.inner |->
        IF \E k \in DOMAIN vectors : Batch(j)[k] = i
        THEN vectors[CHOOSE k \in DOMAIN vectors : Batch(j)[k] = i] ELSE j.inner[i]]

\* The vectors the server sends for a batch: one for each text, or, where it is not
\* honest, fewer.
Answers(j) ==
    {[i \in 1..k |-> j.texts[j.asked[Batch(j)[i]]]] :
        k \in IF honest THEN {Len(Batch(j))} ELSE 0..Len(Batch(j))}

\* Ollama: a batch takes what came and the next one is due; a request for one text
\* insists on a vector.
OllamaAnswer(c) ==
    LET j == job[c]
    IN  /\ j.at = "asking" /\ client = "ollama"
        /\ \E vectors \in Answers(j) :
             job' = [job EXCEPT ![c] =
                IF j.single /\ vectors = <<>> THEN [j EXCEPT !.at = "failed"]
                ELSE [j EXCEPT !.inner = Placed(j, vectors), !.pending = Rest(j), !.attempt = 0,
                               !.at = IF Rest(j) /= <<>> THEN "asking" ELSE "storing"]]
        /\ UNCHANGED <<client, honest, cache, shut, calls>>

\* MLX: whatever came is the result.
MLXAnswer(c) ==
    LET j == job[c]
    IN  /\ j.at = "asking" /\ client = "mlx"
        /\ \E vectors \in Answers(j) :
             job' = [job EXCEPT ![c] = [j EXCEPT !.inner = IF j.single THEN Placed(j, vectors) ELSE vectors,
                                                 !.pending = <<>>, !.at = "storing"]]
        /\ UNCHANGED <<client, honest, cache, shut, calls>>

\* The answers go to their places among the texts asked for and into the cache,
\* Ollama's missing vectors included; MLX's answer is shorter then, and reading
\* past its end panics, with the vectors before it cached.
StoreAnswers(c) ==
    /\ job[c].at = "storing"
    /\ LET j     == job[c]
           short == Len(j.inner) < Len(j.asked)
       IN  /\ job' = [job EXCEPT ![c] = [j EXCEPT !.at = IF short THEN "panicked" ELSE "done",
                                                  !.results = [i \in DOMAIN j.results |->
                  IF \E k \in DOMAIN j.inner : j.asked[k] = i
                  THEN j.inner[CHOOSE k \in DOMAIN j.inner : j.asked[k] = i] ELSE j.results[i]]]]
           /\ cache' = Stored(cache, [k \in DOMAIN j.inner |-> <<j.texts[j.asked[k]], j.inner[k]>>])
    /\ UNCHANGED <<client, honest, shut, calls>>

\* Close: calls under way are not looked at again.
CloseEmbedder ==
    /\ ~shut /\ shut' = TRUE
    /\ UNCHANGED <<client, honest, cache, job, calls>>

EmbedNext ==
    \/ \E c \in Asker : Call(c) \/ RequestFails(c) \/ Cancel(c) \/ OllamaAnswer(c) \/ MLXAnswer(c) \/ StoreAnswers(c)
    \/ CloseEmbedder

EmbedSpec == EmbedInit /\ [][EmbedNext]_embedVars

-----------------------------------------------------------------------------

\* A result is the vector of the text it stands for, whatever was cached, blank,
\* batched, retried or asked for at the same time by others, and so is every
\* cached vector; a vector is missing only where the server returned too few
\* (cached.go:79-117, ollama.go:260-325).
EmbeddingOfItsText ==
    /\ \A c \in Asker : job[c].at = "done" =>
          \A i \in DOMAIN job[c].texts :
             job[c].results[i] \in {VectorOf(job[c].texts[i])} \cup IF honest THEN {} ELSE {Nil}
    /\ \A e \in Range(cache) : e[2] \in {VectorOf(e[1])} \cup IF honest THEN {} ELSE {Nil}
=============================================================================
