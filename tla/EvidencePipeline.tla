-------------------------- MODULE EvidencePipeline --------------------------
(***************************************************************************)
(* Ingest and the embedding worker together: from a text that somebody     *)
(* pushes to a document, a job, chunk rows and vectors.                    *)
(***************************************************************************)
EXTENDS Ingest, EmbedWorker

vars == <<storeVars, ingestVars, embedVars>>

TypeOK == StoreTypeOK /\ IngestTypeOK /\ EmbedTypeOK

Init == StoreInit /\ IngestInit /\ EmbedInit

\* hub-core stops at any point and is started again.
Restart ==
    /\ Fault(IngestCut \cup EmbedCut)
    /\ IngestRestart
    /\ EmbedRestart
    /\ UNCHANGED <<docs, jobs>>

Next ==
    \/ IngestNext /\ UNCHANGED embedVars
    \/ EmbedNext /\ UNCHANGED ingestVars
    \/ Restart

Spec == Init /\ [][Next]_vars

\* The workers are spawned tasks, and a call in flight runs on; outages end.
\* Nobody has to publish, call or spend, and a YELLOW budget may outlast
\* everything that happens on its day.
Fairness ==
    /\ WF_vars(StreamWorker /\ UNCHANGED embedVars)
    /\ \A p \in Callers : WF_vars(Ingesting(p) /\ UNCHANGED embedVars)
    /\ WF_vars((Worker \/ ProcessErr) /\ UNCHANGED ingestVars)
    /\ WF_vars((ApiUp \/ QdrantUp) /\ UNCHANGED ingestVars)

FairSpec == Spec /\ Fairness

-----------------------------------------------------------------------------
\* Safety.

\* A document is in somebody's hands: of the ingest that inserted its row, of a
\* pending job, or of the job at hand.
InHand(d) ==
    \/ \E p \in Processes : call[p].pc = "job" /\ call[p].doc = d
    \/ \E i \in DOMAIN jobs : jobs[i].doc = d /\ jobs[i].status = "PENDING"
    \/ w.pc # "idle" /\ Doc = d

\* Whatever agents, redelivered stream entries, retries and outages do, no
\* document is forgotten with the status PENDING: it is in somebody's hands, or
\* a crash or a failed statement struck exactly while it was.
NoDocumentForgotten ==
    \A d \in Contents : docs[d] = "PENDING" => InHand(d) \/ d \in cut

\* The same text pushed by several agents and by the stream at once, or again
\* after the stream worker starts over, is queued for embedding once.
QueuedOnce ==
    \A i, j \in DOMAIN jobs : jobs[i].doc = jobs[j].doc => i = j

\* A vector never stands in Qdrant without its row in embedding_chunks, and no
\* document is DONE before each of its chunks has one, although retries start
\* from whatever an earlier attempt left.
VectorsHaveRows == points \subseteq rows
DoneHasRows == \A d \in Contents : docs[d] = "DONE" => Of(d, ChunkIx) \subseteq rows

\* Section 42, "chunks already present are NEVER re-embedded": across retries,
\* restarts and jobs queued again by hand, a chunk that has a row is not sent
\* to the API again.
PresentNeverSent == [][\A c \in rows : sent'[c] = sent[c]]_vars

\* cost_records never charge more than the API was asked for, chunk by chunk:
\* whatever is retried, interrupted or answered in vain, a chunk is charged at most
\* once for each request that carried it.
NeverOvercharged == \A c \in Chunk : metered[c] <= sent[c]

\* A job is tried at most MaxAttempts times: FAILED is reached at the last of
\* them and no sooner, and what is settled stays settled.
AttemptsCounted ==
    \A i \in DOMAIN jobs :
        /\ jobs[i].status = "FAILED" <=> jobs[i].attempts >= MaxAttempts
        /\ jobs[i].status = "RUNNING" /\ jobs[i].doc \notin cut => w.job = i

\* The stored cursor never passes an entry whose text is neither a document nor
\* refused: what the stream worker had not finished is read again.
CursorBehind ==
    \A i \in 1 .. cursor : docs[stream[i]] # "absent" \/ i \in dropped

-----------------------------------------------------------------------------
\* Liveness, under FairSpec.

\* Every job is settled in the end, unless a crash or a failed statement left
\* it RUNNING or the budget stays YELLOW.
JobsSettle ==
    <>[](\A i \in DOMAIN jobs : Settled(jobs[i]) \/ jobs[i].doc \in cut \/ paused)

\* The stream is read to its end, unless the worker did not come up again.
StreamDrains == <>[](reader.pos = Len(stream) \/ ~reader.alive)

-----------------------------------------------------------------------------
\* What comments and documents say and the code does not do.

\* "Qdrant upsert -> job DONE" (the SP2B design, line 56): who sees a document
\* as DONE finds its vectors.
DoneIsSearchable ==
    \A d \in Contents : docs[d] = "DONE" => Of(d, ChunkIx) \subseteq points

\* "replay-safe because ingest is idempotent" (ingest.rs:222): when the worker
\* has read the stream to its end, whatever it was delivered twice, each entry it
\* took without an error has its document embedded or queued for it.
ReplaySafe ==
    reader.pos = Len(stream) /\ call["worker"].pc = "idle" =>
        \A i \in DOMAIN stream \ dropped :
            docs[stream[i]] = "PENDING" => \E j \in DOMAIN jobs : jobs[j].doc = stream[i]

=============================================================================
