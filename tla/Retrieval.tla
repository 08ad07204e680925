------------------------------ MODULE Retrieval ------------------------------
(***************************************************************************)
(* The retrieval service: the chunker, the two vector stores, the hybrid   *)
(* index and its fusion (backend/retrieval/app/ and                        *)
(* backend/libs/adapters/vectorstore_qdrant.py), while documents are       *)
(* edited, ingested again and searched, and the service restarts.          *)
(*                                                                         *)
(* With the Qdrant store every call is a thread and an await, and requests *)
(* interleave there; with the in-memory store no call gives way.  What an  *)
(* embedding or a term weight says of a text is a constant.                *)
(***************************************************************************)
EXTENDS Integers, Sequences, FiniteSets, Functions

CONSTANTS
  Texts,
  Blank,        \* the body of a section without one
  Documents,    \* versions of the source directory: sequences of [id, text], a
                \* heading's id being its slug up to the colon
  Queries,
  Near,         \* how near each query's embedding is to each text's
  Terms,        \* each query's BM25 score on each text, 0 if they share no term
  Ingests,      \* requests to /ingest
  TopK,
  Scale,        \* a whole number that every 1 / (60 + rank) divides
  NoQuery,
  MaxEdits,     \* bound: edits of the documents
  MaxRestarts   \* bound: restarts of the service

\* How deep both rankings go.
Depth == IF 2 * TopK > 5 THEN 2 * TopK ELSE 5

ASSUME RetrievalAssumption ==
  /\ Blank \notin Texts
  /\ Documents \subseteq Seq([id : Nat, text : Texts \cup {Blank}])
  /\ Near \in [Queries -> [Texts -> Nat]]
  /\ Terms \in [Queries -> [Texts -> Nat]]
  /\ NoQuery \notin Queries
  /\ TopK \in 1 .. 10
  /\ Scale \in Nat \ {0} /\ \A r \in 1 .. Depth : Scale % (60 + r) = 0
  /\ MaxEdits \in Nat /\ MaxRestarts \in Nat

VARIABLES
  backend,   \* RetrievalSettings.vector_backend
  docs,      \* the source directory
  store,     \* the vector store's points, [seed, id, text], as it lists them
  chunks,    \* HybridIndex.chunks, the snapshot BM25 is built from
  step,      \* where each ingest is
  batch,     \* the chunks it read
  fetched,   \* the points it fetched
  query,     \* the query of the search in progress
  dense,     \* its dense ranking
  hits,      \* what the last search returned, the ids it cut to and its rankings
  edits,
  restarts,
  overlap,   \* two ingests have overlapped
  taken      \* the documents as the last ingest to begin read them

index == <<store, chunks>>
ingest == <<step, batch, fetched>>
search == <<query, dense, hits>>
ghosts == <<overlap, taken>>
vars == <<backend, docs, index, ingest, search, edits, restarts, ghosts>>

------------------------------------------------------------------------------
\* Pure parts.

IdsIn(s) == {s[i].id : i \in DOMAIN s}
Greatest(S) == CHOOSE m \in S : \A n \in S : n <= m

\* The first members of the finite set S, at most k of them, in the order that the
\* pairs "before" put them in.
First(k, S, before) ==
  [n \in 1 .. (IF Cardinality(S) < k THEN Cardinality(S) ELSE k) |->
     CHOOSE x \in S : Cardinality({y \in S : <<y, x>> \in before}) = n - 1]

\* The entries of s at the positions K.
Picked(s, K) ==
  LET at == First(Cardinality(K), K, {p \in K \X K : p[1] < p[2]})
  IN  [n \in DOMAIN at |-> s[at[n]]]

\* chunk_markdown: a section without a body is left out.
Chunks(doc) == Picked(doc, {i \in DOMAIN doc : doc[i].text # Blank})

\* Mutant of UpsertMemory: only new ids are taken.
UpsertNew(points, new) ==
  points \o Picked(new, {k \in DOMAIN new : new[k].id \notin IdsIn(points)})

\* InMemoryVectorStore.upsert: positions are looked up before the loop, so a batch
\* that repeats a new id appends it every time.
UpsertMemory(points, new) ==
  LET last(id) == Greatest({i \in DOMAIN points : points[i].id = id})
      kept == [i \in DOMAIN points |->
                 LET by == {k \in DOMAIN new : new[k].id = points[i].id}
                 IN  IF by # {} /\ i = last(points[i].id) THEN new[Greatest(by)] ELSE points[i]]
  IN  kept \o Picked(new, {k \in DOMAIN new : new[k].id \notin IdsIn(points)})

Same(p, q) == p.seed = q.seed /\ p.id = q.id

\* Mutant of UpsertQdrant: every point gets an id of its own.
InsertQdrant(points, new) == {points \o new}

\* QdrantVectorStore._upsert_sync: a point's id is the hash of the chunk id, which
\* Python seeds anew in every process; new points are listed before or after
\* those there are, as the hash falls.
UpsertQdrant(points, new) ==
  LET by(p) == {k \in DOMAIN new : Same(new[k], p)}
      kept == [i \in DOMAIN points |->
                 IF by(points[i]) # {} THEN new[Greatest(by(points[i]))] ELSE points[i]]
      fresh == {k \in DOMAIN new : /\ \A i \in DOMAIN points : ~Same(points[i], new[k])
                                   /\ k = Greatest(by(new[k]))}
  IN  {kept \o Picked(new, fresh), Picked(new, fresh) \o kept}

Points(doc, seed) ==
  [i \in DOMAIN Chunks(doc) |-> [seed |-> seed, id |-> Chunks(doc)[i].id, text |-> Chunks(doc)[i].text]]

Upsert(points, new) ==
  IF new = <<>> THEN {points}
  ELSE IF backend = "memory" THEN {UpsertMemory(points, new)} ELSE UpsertQdrant(points, new)

\* The ids of a list's chunks at the positions K by descending score, ties by id.
Ranked(list, K, score) ==
  LET value(i) == score[list[i].text]
      at == First(Depth, K,
                  {p \in K \X K :
                     \/ value(p[1]) > value(p[2])
                     \/ /\ value(p[1]) = value(p[2])
                        /\ \/ list[p[1]].id < list[p[2]].id
                           \/ list[p[1]].id = list[p[2]].id /\ p[1] < p[2]})
  IN  [n \in DOMAIN at |-> list[at[n]].id]

\* BM25.rank: only chunks that share a term with the query.
Sparse(q) == Ranked(chunks, {i \in DOMAIN chunks : Terms[q][chunks[i].text] > 0}, Terms[q])

\* 1 / (60 + rank), in parts of Scale.
Share(rank) == Scale \div (60 + rank)

\* The places [ranking, rank] an id is at.
Places(rankings, id) ==
  {p \in (DOMAIN rankings) \X (1 .. Depth) :
     p[2] \in DOMAIN rankings[p[1]] /\ rankings[p[1]][p[2]] = id}

\* Mutant of Score: the dense ranking counts alone where there is one.
DenseScore(rankings, id) ==
  LET places == Places(rankings, id)
      in == {p \in places : \A q \in places : p[1] <= q[1]}
  IN  SumFunction([p \in in |-> Share(p[2])])

\* reciprocal_rank_fusion, of one id: a sum over every place it is ranked at.
Score(rankings, id) == SumFunction([p \in Places(rankings, id) |-> Share(p[2])])

\* fuse: the TopK best ids, ties by id.
Fused(rankings) ==
  LET ids == UNION {Range(rankings[i]) : i \in DOMAIN rankings}
      score == [id \in ids |-> Score(rankings, id)]
  IN  First(TopK, ids, {p \in ids \X ids : \/ score[p[1]] > score[p[2]]
                                           \/ score[p[1]] = score[p[2]] /\ p[1] < p[2]})

\* Of those the chunks that the snapshot knows, the last one listed where an id is
\* there twice.
Found(ids) ==
  LET known == Picked(ids, {n \in DOMAIN ids : ids[n] \in IdsIn(chunks)})
  IN  [i \in DOMAIN known |->
         chunks[Greatest({k \in DOMAIN chunks : chunks[k].id = known[i]})]]

------------------------------------------------------------------------------
Steps == {"idle", "read", "stored", "fetched", "over"}
Busy(i) == step[i] \in {"read", "stored", "fetched"}
NoHits == [ids |-> <<>>, chunks |-> <<>>, dense |-> <<>>, sparse |-> <<>>]

\* The lifespan's ingest runs before any request is served.
Boot(points, seed) ==
  /\ store' \in Upsert(points, Points(docs, seed))
  /\ chunks' = store'

Init ==
  /\ backend \in {"memory", "qdrant"}
  /\ docs \in Documents
  /\ store \in Upsert(<<>>, Points(docs, 0))
  /\ chunks = store
  /\ step = [i \in Ingests |-> "idle"]
  /\ batch = [i \in Ingests |-> <<>>]
  /\ fetched = [i \in Ingests |-> <<>>]
  /\ query = NoQuery
  /\ dense = <<>>
  /\ hits = NoHits
  /\ edits = 0
  /\ restarts = 0
  /\ overlap = FALSE
  /\ taken = docs

\* Nothing else is between two of its steps, or may give way there.
Free(i) ==
  backend = "memory" => query = NoQuery /\ \A j \in Ingests \ {i} : ~Busy(j)

Edit ==
  /\ edits < MaxEdits
  /\ edits' = edits + 1
  /\ docs' \in Documents \ {docs}
  /\ UNCHANGED <<backend, index, ingest, search, restarts, ghosts>>

\* ingest_directory reads and chunks the files, and hands the points to upsert.
Read(i) ==
  /\ step[i] = "idle"
  /\ Free(i)
  /\ batch' = [batch EXCEPT ![i] = Points(docs, restarts)]
  /\ step' = [step EXCEPT ![i] = "read"]
  /\ overlap' = (overlap \/ \E j \in Ingests \ {i} : Busy(j))
  /\ taken' = docs
  /\ UNCHANGED <<backend, docs, index, fetched, search, edits, restarts>>

Store(i) ==
  /\ step[i] = "read"
  /\ store' \in Upsert(store, batch[i])
  /\ step' = [step EXCEPT ![i] = "stored"]
  /\ UNCHANGED <<backend, docs, chunks, batch, fetched, search, edits, restarts, ghosts>>

\* all_chunks
Fetch(i) ==
  /\ step[i] = "stored"
  /\ fetched' = [fetched EXCEPT ![i] = store]
  /\ step' = [step EXCEPT ![i] = "fetched"]
  /\ UNCHANGED <<backend, docs, index, batch, search, edits, restarts, ghosts>>

\* Mutant of Install: the chunks of this ingest become the snapshot.
InstallBatch(i) ==
  /\ step[i] = "fetched"
  /\ chunks' = batch[i]
  /\ step' = [step EXCEPT ![i] = "over"]
  /\ batch' = [batch EXCEPT ![i] = <<>>]
  /\ fetched' = [fetched EXCEPT ![i] = <<>>]
  /\ UNCHANGED <<backend, docs, store, search, edits, restarts, ghosts>>

\* The snapshot and the BM25 index over it are replaced.
Install(i) ==
  /\ step[i] = "fetched"
  /\ chunks' = fetched[i]
  /\ step' = [step EXCEPT ![i] = "over"]
  /\ batch' = [batch EXCEPT ![i] = <<>>]
  /\ fetched' = [fetched EXCEPT ![i] = <<>>]
  /\ UNCHANGED <<backend, docs, store, search, edits, restarts, ghosts>>

\* search, up to the answer of the vector store.
Search(q) ==
  /\ query = NoQuery
  /\ chunks # <<>>
  /\ \A i \in Ingests : backend = "memory" => ~Busy(i)
  /\ query' = q
  /\ dense' = Ranked(store, DOMAIN store, Near[q])
  /\ hits' = NoHits
  /\ UNCHANGED <<backend, docs, index, ingest, edits, restarts, ghosts>>

\* The rest of it, without an await.
Fuse ==
  /\ query # NoQuery
  /\ LET ids == Fused(<<dense, Sparse(query)>>)
     IN  hits' = [ids |-> ids, chunks |-> Found(ids), dense |-> dense, sparse |-> Sparse(query)]
  /\ query' = NoQuery
  /\ dense' = <<>>
  /\ UNCHANGED <<backend, docs, index, ingest, edits, restarts, ghosts>>

\* The service is stopped and started: requests are gone and so is what was kept
\* in memory.
Restart ==
  /\ restarts < MaxRestarts
  /\ restarts' = restarts + 1
  /\ Boot(IF backend = "memory" THEN <<>> ELSE store, restarts')
  /\ step' = [i \in Ingests |-> IF Busy(i) THEN "over" ELSE step[i]]
  /\ batch' = [i \in Ingests |-> <<>>]
  /\ fetched' = [i \in Ingests |-> <<>>]
  /\ query' = NoQuery
  /\ dense' = <<>>
  /\ hits' = NoHits
  /\ taken' = docs
  /\ UNCHANGED <<backend, docs, edits, overlap>>

Next ==
  \/ Edit
  \/ \E i \in Ingests : Read(i) \/ Store(i) \/ Fetch(i) \/ Install(i)
  \/ \E q \in Queries : Search(q)
  \/ Fuse
  \/ Restart

Spec == Init /\ [][Next]_vars

------------------------------------------------------------------------------
Ids(s) == [i \in DOMAIN s |-> s[i].id]
Times(s, id) == Cardinality({i \in DOMAIN s : s[i].id = id})
Idle == \A i \in Ingests : ~Busy(i)

\* After an ingest that overlapped no other, every section it read is in the
\* index with the text it had then, provided no two share an id; and until the
\* process restarts over a kept store it is the text that a search shows.
\* ("Re-read the source directory ... the index does not need a restart",
\* retrieval/app/main.py, ingest.)
IngestTakes ==
  Idle /\ ~overlap /\ IsInjective(Ids(Chunks(taken))) =>
    \A c \in Range(Chunks(taken)) :
      /\ \E k \in DOMAIN chunks : chunks[k].id = c.id /\ chunks[k].text = c.text
      /\ backend = "memory" \/ restarts = 0 => Found(<<c.id>>)[1].text = c.text

\* A search that ends while no ingest is under way, none having overlapped,
\* returns as many chunks as it may: fuse cuts to top_k before it looks the ids up
\* in the snapshot, so an id the snapshot lacks is a result lost.
SearchIsWhole ==
  [][ /\ query # NoQuery /\ query' = NoQuery /\ restarts' = restarts
      /\ Idle /\ ~overlap
      => LET all == Range(hits'.dense) \cup Range(hits'.sparse)
         IN  Len(hits'.chunks) = IF Cardinality(all) < TopK THEN Cardinality(all) ELSE TopK ]_vars

\* Reciprocal rank fusion rewards agreement: where no id is listed twice, no chunk
\* that one retriever ranks displaces one that both rank (index.py, search).
AgreementWins ==
  LET both == Range(hits.dense) \cap Range(hits.sparse)
      here == Range(hits.ids)
  IN  IsInjective(hits.dense) /\ IsInjective(hits.sparse) =>
        /\ \A i, j \in DOMAIN hits.ids : i < j /\ hits.ids[j] \in both => hits.ids[i] \in both
        /\ here \subseteq both \/ both \subseteq here

\* A section is in the store once for each process that stored it in Qdrant, whose
\* point ids do not outlive the process, and in memory no more often than one
\* version of the documents repeats it.
CopiesAreBounded ==
  \A id \in IdsIn(store) :
    IF backend = "qdrant" THEN Times(store, id) <= restarts + 1
    ELSE \E d \in Documents : Times(store, id) <= Times(Chunks(d), id)
==============================================================================
