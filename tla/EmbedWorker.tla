---------------------------- MODULE EmbedWorker ----------------------------
(***************************************************************************)
(* embed.rs: the worker that takes embedding_jobs one at a time, decides   *)
(* whether the document is worth it, has its chunks embedded by the cloud  *)
(* API in batches, and stores chunk rows in PostgreSQL and vectors in      *)
(* Qdrant.                                                                 *)
(***************************************************************************)
EXTENDS EvidenceStore

CONSTANTS
    NumChunks,    \* chunks of a document
    BatchSize,    \* chunks in a request to the API (BATCH = 16 in the code)
    MaxAttempts,  \* errors after which a job is given up (3 in the code)
    Short,        \* documents below embed_min_words
    Near,         \* pairs of documents within simhash_max_hamming
    MaxOutages,   \* bound: how often the API or Qdrant goes away
    MaxPauses,    \* bound: how often the budget turns YELLOW
    MaxRequeues   \* bound: jobs added by hand for an embedded document

ASSUME EmbedAssumption ==
    /\ NumChunks \in Nat \ {0} /\ BatchSize \in Nat \ {0} /\ MaxAttempts \in Nat \ {0}
    /\ Short \subseteq Contents
    /\ Near \subseteq Contents \X Contents
    /\ MaxOutages \in Nat /\ MaxPauses \in Nat /\ MaxRequeues \in Nat

VARIABLES
    rows,     \* embedding_chunks: <<document, chunk>>
    points,   \* the Qdrant collection: <<document, chunk>>
    sent,     \* history: how often each chunk was sent to the API and billed
    metered,  \* cost_records: how often each chunk was charged
    w,        \* the worker
    api,      \* the embeddings API answers
    qdrant,   \* Qdrant answers
    paused,   \* embeddings_paused: the global budget is YELLOW or worse
    env       \* how much of each bound is used

embedVars == <<rows, points, sent, metered, w, api, qdrant, paused, env>>
services == <<api, qdrant, paused, env>>

ChunkIx == 1 .. NumChunks
Chunk == Contents \X ChunkIx

WorkerPc == {"idle", "gate", "decide", "embed", "rows", "upsert", "mark", "settle",
             "error", "doc_failed"}

\* job: row number; todo: chunks found missing; batch: chunks of the request
\* whose vectors are in hand; billed: chunks whose tokens this attempt has added
\* up; outcome: what process_document returned.
Asleep == [pc |-> "idle", job |-> 0, todo |-> {}, batch |-> {}, billed |-> {},
           outcome |-> "DONE"]

EmbedTypeOK ==
    /\ rows \subseteq Chunk
    /\ points \subseteq Chunk
    /\ sent \in [Chunk -> Nat]
    /\ metered \in [Chunk -> Nat]
    /\ w \in [pc : WorkerPc, job : 0 .. Len(jobs), todo : SUBSET ChunkIx,
              batch : SUBSET ChunkIx, billed : SUBSET ChunkIx, outcome : {"DONE", "SKIPPED"}]
    /\ api \in BOOLEAN /\ qdrant \in BOOLEAN /\ paused \in BOOLEAN
    /\ env \in [outages : 0 .. MaxOutages, pauses : 0 .. MaxPauses,
                requeues : 0 .. MaxRequeues]

EmbedInit ==
    /\ rows = {} /\ points = {}
    /\ sent = [c \in Chunk |-> 0]
    /\ metered = [c \in Chunk |-> 0]
    /\ w = Asleep
    /\ api = TRUE /\ qdrant = TRUE /\ paused = FALSE
    /\ env = [outages |-> 0, pauses |-> 0, requeues |-> 0]

-----------------------------------------------------------------------------
Doc == jobs[w.job].doc
Of(d, S) == {<<d, i>> : i \in S}

Counted(f, S) == [c \in Chunk |-> IF c \in S THEN f[c] + 1 ELSE f[c]]

\* The first n of a set of chunks.
First(S, n) == {i \in S : Cardinality({j \in S : j < i}) < n}

EmbedGoto(pc) == w' = [w EXCEPT !.pc = pc]

Pending == {i \in DOMAIN jobs : jobs[i].status = "PENDING"}

\* The oldest pending job becomes RUNNING, in one statement.
Claim ==
    /\ w.pc = "idle"
    /\ \E i \in Pending :
        /\ \A j \in Pending : i <= j
        /\ jobs' = [jobs EXCEPT ![i].status = "RUNNING"]
        /\ w' = [Asleep EXCEPT !.pc = "gate", !.job = i]
    /\ UNCHANGED <<docs, faults, cut, rows, points, sent, metered, services>>

\* A budget that is YELLOW sends a job nobody asked for back to the queue.
Pause ==
    /\ w.pc = "gate"
    /\ paused /\ ~jobs[w.job].force
    /\ jobs' = [jobs EXCEPT ![w.job].status = "PENDING"]
    /\ w' = Asleep
    /\ UNCHANGED <<docs, faults, cut, rows, points, sent, metered, services>>

Proceed ==
    /\ w.pc = "gate"
    /\ ~paused \/ jobs[w.job].force
    /\ EmbedGoto("decide")
    /\ UNCHANGED <<storeVars, rows, points, sent, metered, services>>

NearDone(d) == \E o \in Contents \ {d} : <<d, o>> \in Near /\ docs[o] = "DONE"

\* Too short, or nearly the same as an embedded document; the failure of the
\* UPDATE of documents is ignored.
Skip ==
    /\ w.pc = "decide"
    /\ ~jobs[w.job].force
    /\ Doc \in Short \/ NearDone(Doc)
    /\ \/ /\ docs' = [docs EXCEPT ![Doc] = "SKIPPED"]
          /\ UNCHANGED <<faults, cut>>
       \/ /\ Fault({Doc})
          /\ UNCHANGED docs
    /\ w' = [w EXCEPT !.pc = "settle", !.outcome = "SKIPPED"]
    /\ UNCHANGED <<jobs, rows, points, sent, metered, services>>

\* Mutant of ReadCache: the chunks stored already are not looked up.
ReadCacheNone ==
    /\ w.pc = "decide"
    /\ jobs[w.job].force \/ ~(Doc \in Short \/ NearDone(Doc))
    /\ w' = [w EXCEPT !.pc = "embed", !.todo = ChunkIx]
    /\ UNCHANGED <<storeVars, rows, points, sent, metered, services>>

\* Mutant of ReadCache: the numbers of the chunks and those of the stored rows do
\* not start alike.
ReadCacheFromZero ==
    /\ w.pc = "decide"
    /\ jobs[w.job].force \/ ~(Doc \in Short \/ NearDone(Doc))
    /\ w' = [w EXCEPT !.pc = "embed",
                      !.todo = {i \in 0 .. NumChunks - 1 : <<Doc, i>> \notin rows}]
    /\ UNCHANGED <<storeVars, rows, points, sent, metered, services>>

\* The chunks that have no row yet.
ReadCache ==
    /\ w.pc = "decide"
    /\ jobs[w.job].force \/ ~(Doc \in Short \/ NearDone(Doc))
    /\ w' = [w EXCEPT !.pc = "embed", !.todo = {i \in ChunkIx : <<Doc, i>> \notin rows}]
    /\ UNCHANGED <<storeVars, rows, points, sent, metered, services>>

\* embed_batch returns the vectors of the next batch.
EmbedBatch ==
    LET batch == First(w.todo, BatchSize) IN
    /\ w.pc = "embed" /\ w.todo # {}
    /\ api
    /\ sent' = Counted(sent, Of(Doc, batch))
    /\ w' = [w EXCEPT !.pc = "rows", !.batch = batch, !.billed = @ \cup batch]
    /\ UNCHANGED <<storeVars, rows, points, metered, services>>

\* One INSERT into embedding_chunks for each chunk of the batch, in order.
InsertChunk ==
    LET left == {i \in w.batch : <<Doc, i>> \notin rows} IN
    /\ w.pc = "rows"
    /\ rows' = rows \cup Of(Doc, First(left, 1))
    /\ EmbedGoto(IF Cardinality(left) <= 1 THEN "upsert" ELSE "rows")
    /\ UNCHANGED <<storeVars, points, sent, metered, services>>

\* Mutant of Upsert: the points go first, whatever rows there are.
UpsertAll ==
    /\ w.pc = "upsert"
    /\ qdrant
    /\ points' = points \cup Of(Doc, ChunkIx)
    /\ w' = [w EXCEPT !.pc = "embed", !.todo = @ \ w.batch, !.batch = {}]
    /\ UNCHANGED <<storeVars, rows, sent, metered, services>>

\* Mutant of Upsert: one batch is taken for the last.
UpsertLast ==
    /\ w.pc = "upsert"
    /\ qdrant
    /\ points' = points \cup Of(Doc, w.batch)
    /\ w' = [w EXCEPT !.pc = "embed", !.todo = {}, !.batch = {}]
    /\ UNCHANGED <<storeVars, rows, sent, metered, services>>

Upsert ==
    /\ w.pc = "upsert"
    /\ qdrant
    /\ points' = points \cup Of(Doc, w.batch)
    /\ w' = [w EXCEPT !.pc = "embed", !.todo = @ \ w.batch, !.batch = {}]
    /\ UNCHANGED <<storeVars, rows, sent, metered, services>>

\* Mutant of Meter: every chunk of the document is charged.
MeterAll ==
    /\ w.pc = "embed" /\ w.todo = {}
    /\ metered' = Counted(metered, Of(Doc, ChunkIx))
    /\ EmbedGoto("mark")
    /\ UNCHANGED <<storeVars, rows, points, sent, services>>

\* record_cost, when every batch is stored.
Meter ==
    /\ w.pc = "embed" /\ w.todo = {}
    /\ metered' = Counted(metered, Of(Doc, w.billed))
    /\ EmbedGoto("mark")
    /\ UNCHANGED <<storeVars, rows, points, sent, services>>

MarkDone ==
    /\ w.pc = "mark"
    /\ docs' = [docs EXCEPT ![Doc] = "DONE"]
    /\ w' = [w EXCEPT !.pc = "settle", !.outcome = "DONE"]
    /\ UNCHANGED <<jobs, faults, cut, rows, points, sent, metered, services>>

Settle ==
    /\ w.pc = "settle"
    /\ jobs' = [jobs EXCEPT ![w.job].status = w.outcome]
    /\ w' = Asleep
    /\ UNCHANGED <<docs, faults, cut, rows, points, sent, metered, services>>

-----------------------------------------------------------------------------
\* process_document returns an error: a request to the API or Qdrant fails, or
\* a statement does.
ProcessErr ==
    /\ \/ /\ w.pc = "embed" /\ w.todo # {} /\ ~api
          /\ UNCHANGED <<faults, cut>>
       \/ /\ w.pc = "upsert" /\ ~qdrant
          /\ UNCHANGED <<faults, cut>>
       \/ /\ w.pc \in {"decide", "embed", "rows", "mark"}
          /\ Fault({})
    /\ EmbedGoto("error")
    /\ UNCHANGED <<docs, jobs, rows, points, sent, metered, services>>

\* The reply of a request that was carried out is lost.
ReplyLost ==
    LET batch == First(w.todo, BatchSize) IN
    /\ Fault({})
    /\ \/ /\ w.pc = "embed" /\ w.todo # {} /\ api
          /\ sent' = Counted(sent, Of(Doc, batch))
          /\ UNCHANGED points
       \/ /\ w.pc = "upsert" /\ qdrant
          /\ points' = points \cup Of(Doc, w.batch)
          /\ UNCHANGED sent
    /\ EmbedGoto("error")
    /\ UNCHANGED <<docs, jobs, rows, metered, services>>

\* Mutant of Retry: the job is not put back.
RetryRunning ==
    /\ w.pc = "error"
    /\ jobs[w.job].attempts < MaxAttempts - 1
    /\ jobs' = [jobs EXCEPT ![w.job].attempts = @ + 1]
    /\ w' = Asleep
    /\ UNCHANGED <<docs, faults, cut, rows, points, sent, metered, services>>

Retry ==
    /\ w.pc = "error"
    /\ jobs[w.job].attempts < MaxAttempts - 1
    /\ jobs' = [jobs EXCEPT ![w.job].status = "PENDING", ![w.job].attempts = @ + 1]
    /\ w' = Asleep
    /\ UNCHANGED <<docs, faults, cut, rows, points, sent, metered, services>>

GiveUp ==
    /\ w.pc = "error"
    /\ jobs[w.job].attempts >= MaxAttempts - 1
    /\ jobs' = [jobs EXCEPT ![w.job].status = "FAILED", ![w.job].attempts = @ + 1]
    /\ EmbedGoto("doc_failed")
    /\ UNCHANGED <<docs, faults, cut, rows, points, sent, metered, services>>

\* The document follows its job; the failure of this UPDATE is ignored.
MarkFailed ==
    /\ w.pc = "doc_failed"
    /\ \/ /\ docs' = [docs EXCEPT ![Doc] = "FAILED"]
          /\ UNCHANGED <<faults, cut>>
       \/ /\ Fault({Doc})
          /\ UNCHANGED docs
    /\ w' = Asleep
    /\ UNCHANGED <<jobs, rows, points, sent, metered, services>>

\* The UPDATE that settles, pauses, retries or gives up the job fails: the tick
\* ends and the job keeps the status RUNNING, which nothing ever claims.
TickFails ==
    /\ w.pc \in {"gate", "settle", "error"}
    /\ w.pc = "gate" => paused /\ ~jobs[w.job].force
    /\ Fault({Doc})
    /\ w' = Asleep
    /\ UNCHANGED <<docs, jobs, rows, points, sent, metered, services>>

\* What hub-core loses of embedding when it stops.
EmbedCut == IF w.pc = "idle" THEN {} ELSE {Doc}

EmbedRestart ==
    /\ w' = Asleep
    /\ UNCHANGED <<rows, points, sent, metered, services>>

-----------------------------------------------------------------------------
\* Services.

ApiDown ==
    /\ api /\ env.outages < MaxOutages
    /\ api' = FALSE
    /\ env' = [env EXCEPT !.outages = @ + 1]
    /\ UNCHANGED <<storeVars, rows, points, sent, metered, w, qdrant, paused>>
ApiUp ==
    /\ ~api /\ api' = TRUE
    /\ UNCHANGED <<storeVars, rows, points, sent, metered, w, qdrant, paused, env>>
QdrantDown ==
    /\ qdrant /\ env.outages < MaxOutages
    /\ qdrant' = FALSE
    /\ env' = [env EXCEPT !.outages = @ + 1]
    /\ UNCHANGED <<storeVars, rows, points, sent, metered, w, api, paused>>
QdrantUp ==
    /\ ~qdrant /\ qdrant' = TRUE
    /\ UNCHANGED <<storeVars, rows, points, sent, metered, w, api, paused, env>>

\* The day's cost records cross 70 % of a global budget, or the day ends.
BudgetYellow ==
    /\ ~paused /\ env.pauses < MaxPauses
    /\ paused' = TRUE
    /\ env' = [env EXCEPT !.pauses = @ + 1]
    /\ UNCHANGED <<storeVars, rows, points, sent, metered, w, api, qdrant>>
BudgetGreen ==
    /\ paused /\ paused' = FALSE
    /\ UNCHANGED <<storeVars, rows, points, sent, metered, w, api, qdrant, env>>

\* The acceptance test queues an embedded document once more, forced.
Requeue ==
    /\ env.requeues < MaxRequeues
    /\ env' = [env EXCEPT !.requeues = @ + 1]
    /\ \E d \in Contents : docs[d] = "DONE" /\ jobs' = Append(jobs, NewJob(d, TRUE))
    /\ UNCHANGED <<docs, faults, cut, rows, points, sent, metered, w, api, qdrant, paused>>

Worker ==
    \/ Claim \/ Pause \/ Proceed \/ Skip \/ ReadCache \/ EmbedBatch \/ InsertChunk
    \/ Upsert \/ Meter \/ MarkDone \/ Settle \/ Retry \/ GiveUp \/ MarkFailed

Services ==
    \/ ApiDown \/ ApiUp \/ QdrantDown \/ QdrantUp \/ BudgetYellow \/ BudgetGreen

EmbedNext == Worker \/ ProcessErr \/ ReplyLost \/ TickFails \/ Services \/ Requeue
=============================================================================
