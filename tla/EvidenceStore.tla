--------------------------- MODULE EvidenceStore ---------------------------
(***************************************************************************)
(* The tables that the ingest pipeline (Ingest) and the embedding worker   *)
(* (EmbedWorker) share: documents and embedding_jobs of migration 0001,    *)
(* with force and attempts of migration 0002.                              *)
(*                                                                         *)
(* A document is named by its content: documents.content_hash is UNIQUE.   *)
(***************************************************************************)
EXTENDS Integers, Sequences, FiniteSets

CONSTANTS
    Contents,    \* normalized texts, one per content_hash
    MaxFaults    \* bound: failed statements, lost replies, crashes

ASSUME FaultsAssumption == MaxFaults \in Nat

VARIABLES
    docs,    \* documents.embedding_status, "absent" when there is no row
    jobs,    \* embedding_jobs, in created_at order
    faults,  \* how much of MaxFaults is used
    cut      \* history: documents a crash or a fault took out of the pipeline

storeVars == <<docs, jobs, faults, cut>>

DocStatus == {"absent", "PENDING", "DONE", "SKIPPED", "FAILED"}
JobStatus == {"PENDING", "RUNNING", "DONE", "SKIPPED", "FAILED"}
Job == [doc : Contents, force : BOOLEAN, status : JobStatus, attempts : Nat]

NewJob(d, force) ==
    [doc |-> d, force |-> force, status |-> "PENDING", attempts |-> 0]

StoreTypeOK ==
    /\ docs \in [Contents -> DocStatus]
    /\ jobs \in Seq(Job)
    /\ faults \in 0 .. MaxFaults
    /\ cut \subseteq Contents

StoreInit ==
    /\ docs = [d \in Contents |-> "absent"]
    /\ jobs = <<>>
    /\ faults = 0
    /\ cut = {}

\* Something goes wrong; the documents of lost leave the pipeline with it.
Fault(lost) ==
    /\ faults < MaxFaults
    /\ faults' = faults + 1
    /\ cut' = cut \cup lost

Settled(job) == job.status \in {"DONE", "SKIPPED", "FAILED"}
=============================================================================
