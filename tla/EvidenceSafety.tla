---------------------------- MODULE EvidenceSafety ----------------------------
(***************************************************************************)
(* Proofs about EvidencePipeline: no document is forgotten, none is queued *)
(* twice unless by hand, attempts are counted, the stored cursor stays     *)
(* behind what the stream worker has done, and replaying the stream is     *)
(* safe unless a fault struck between a row and its job.                   *)
(*                                                                         *)
(* What these invariants speak of are the rows of documents and            *)
(* embedding_jobs, who is about to decide on a document, and the job at    *)
(* hand.  The first part sums up what each step does to them.              *)
(***************************************************************************)
EXTENDS EvidenceProofs

-----------------------------------------------------------------------------
\* What steps do to the rows.

\* Who inserted a document's row and has not decided on it, with the document.
Deciding == {x \in Processes \X Contents : call[x[1]].pc = "job" /\ call[x[1]].doc = x[2]}

\* The worker is trying a job.
Trying == {"gate", "decide", "embed", "rows", "upsert", "mark", "error"}

\* Job k gets the status s, with attempts in n.
JobTo(k, s, n) ==
    /\ k \in DOMAIN jobs /\ DOMAIN jobs' = DOMAIN jobs
    /\ \A i \in DOMAIN jobs : i # k => jobs'[i] = jobs[i]
    /\ jobs'[k].doc = jobs[k].doc /\ jobs'[k].status = s /\ jobs'[k].attempts = n

\* A job for d is added.
JobFor(d) ==
    \E k : /\ k \notin DOMAIN jobs /\ DOMAIN jobs' = DOMAIN jobs \cup {k} /\ k # 0
           /\ \A i \in DOMAIN jobs : jobs'[i] = jobs[i]
           /\ jobs'[k].doc = d /\ jobs'[k].status = "PENDING" /\ jobs'[k].attempts = 0

\* Document d gets the status s.
DocTo(d, s) ==
    /\ docs'[d] = s
    /\ \A o \in Contents : o # d => docs'[o] = docs[o]

\* The steps of ingest.
Inserts ==
    \E p \in Processes, d \in Contents :
        /\ docs[d] = "absent" /\ DocTo(d, "PENDING")
        /\ Deciding' = Deciding \cup {<<p, d>>}
        /\ UNCHANGED <<jobs, cut>>

Decides ==
    \E x \in Deciding :
        /\ Deciding' = Deciding \ {x}
        /\ \/ DocTo(x[2], "SKIPPED") /\ UNCHANGED <<jobs, cut>>
           \/ JobFor(x[2]) /\ UNCHANGED <<docs, cut>>
           \/ UNCHANGED <<docs, jobs>> /\ cut' = cut \cup {x[2]}

IngestStays == UNCHANGED <<docs, jobs, Deciding>> /\ cut \subseteq cut'

\* The steps of the worker.
Claims ==
    \E k \in DOMAIN jobs :
        /\ w.pc = "idle" /\ w'.pc = "gate" /\ w'.job = k
        /\ jobs[k].status = "PENDING" /\ JobTo(k, "RUNNING", jobs[k].attempts)
        /\ UNCHANGED <<docs, cut>>

Tries ==
    /\ w.pc \in Trying /\ w'.pc \in Trying /\ w'.job = w.job
    /\ UNCHANGED <<docs, jobs>> /\ cut \subseteq cut'

PutsBack ==
    /\ w.pc \in Trying /\ w' = Asleep
    /\ \E n \in {jobs[w.job].attempts, jobs[w.job].attempts + 1} :
            /\ n = jobs[w.job].attempts \/ n < MaxAttempts
            /\ JobTo(w.job, "PENDING", n)
    /\ UNCHANGED <<docs, cut>>

Concludes ==
    /\ w.pc \in Trying /\ w'.pc = "settle" /\ w'.job = w.job
    /\ UNCHANGED jobs /\ cut \subseteq cut'
    /\ \/ \E s \in {"DONE", "SKIPPED"} : DocTo(Doc, s)
       \/ UNCHANGED docs /\ Doc \in cut'

Settles ==
    /\ w.pc = "settle" /\ w' = Asleep
    /\ \E s \in {"DONE", "SKIPPED"} : JobTo(w.job, s, jobs[w.job].attempts)
    /\ UNCHANGED <<docs, cut>>

GivesUp ==
    /\ w.pc = "error" /\ w'.pc = "doc_failed" /\ w'.job = w.job
    /\ \E n : n = jobs[w.job].attempts + 1 /\ n >= MaxAttempts /\ JobTo(w.job, "FAILED", n)
    /\ UNCHANGED <<docs, cut>>

Fails ==
    /\ w.pc = "doc_failed" /\ w' = Asleep
    /\ UNCHANGED jobs /\ cut \subseteq cut'
    /\ DocTo(Doc, "FAILED") \/ (UNCHANGED docs /\ Doc \in cut')

Ends ==
    /\ w.pc # "idle" /\ w' = Asleep
    /\ UNCHANGED <<docs, jobs>> /\ cut' = cut \cup {Doc}

Requeues ==
    /\ MaxRequeues # 0 /\ UNCHANGED <<w, docs, cut>>
    /\ \E d \in Contents : docs[d] = "DONE" /\ JobFor(d)

Stops ==
    /\ Deciding' = {} /\ w' = Asleep /\ UNCHANGED <<docs, jobs>>
    /\ cut \subseteq cut' /\ \A x \in Deciding : x[2] \in cut'
    /\ w.pc # "idle" => Doc \in cut'

EvidenceMove ==
    \/ UNCHANGED w /\ (Inserts \/ Decides \/ IngestStays)
    \/ /\ UNCHANGED Deciding
       /\ Claims \/ Tries \/ PutsBack \/ Concludes \/ Settles \/ GivesUp \/ Fails \/ Ends
          \/ Requeues
    \/ Stops

-----------------------------------------------------------------------------
\* Calls and who decides.

LEMMA DecidingOf ==
    ASSUME NEW p \in Processes, NEW d \in Contents
    PROVE  <<p, d>> \in Deciding <=> call[p].pc = "job" /\ call[p].doc = d
  BY DEF Deciding

\* A step of one call that is not at "job" and does not come there.
LEMMA DecidingSame ==
    ASSUME NEW p \in Processes, call[p].pc # "job", call'[p].pc # "job",
           \A q \in Processes \ {p} : call'[q] = call[q]
    PROVE  UNCHANGED Deciding
  <1>1. \A q \in Processes, d \in Contents :
            (call'[q].pc = "job" /\ call'[q].doc = d) <=> (call[q].pc = "job" /\ call[q].doc = d)
    OBVIOUS
  <1> QED BY <1>1 DEF Deciding

LEMMA DecidingMore ==
    ASSUME NEW p \in Processes, NEW d \in Contents, call[p].pc # "job", call'[p].pc = "job",
           call'[p].doc = d, \A q \in Processes \ {p} : call'[q] = call[q]
    PROVE  Deciding' = Deciding \cup {<<p, d>>}
  <1>1. \A q \in Processes, o \in Contents :
            (call'[q].pc = "job" /\ call'[q].doc = o)
            <=> ((call[q].pc = "job" /\ call[q].doc = o) \/ <<q, o>> = <<p, d>>)
    OBVIOUS
  <1> QED BY <1>1 DEF Deciding

LEMMA DecidingLess ==
    ASSUME NEW p \in Processes, NEW d \in Contents, call[p].pc = "job", call[p].doc = d,
           call'[p].pc # "job", \A q \in Processes \ {p} : call'[q] = call[q]
    PROVE  <<p, d>> \in Deciding /\ Deciding' = Deciding \ {<<p, d>>}
  <1>1. \A q \in Processes, o \in Contents :
            (call'[q].pc = "job" /\ call'[q].doc = o)
            <=> ((call[q].pc = "job" /\ call[q].doc = o) /\ <<q, o>> # <<p, d>>)
    OBVIOUS
  <1> QED BY <1>1 DEF Deciding

LEMMA DecidingKept == ASSUME UNCHANGED call PROVE UNCHANGED Deciding
  BY DEF Deciding

\* A call that returns is not at "job".
LEMMA ReturnLeaves ==
    ASSUME IngestShape, NEW p \in Processes, Return(p)
    PROVE  call'[p].pc # "job" /\ \A q \in Processes \ {p} : call'[q] = call[q]
  BY ReturnSets DEF IngestShape, IngestTypeOK, CallRec, Idle

LEMMA NewJobFor ==
    ASSUME jobs \in Seq(Job), NEW d \in Contents, NEW force \in BOOLEAN,
           jobs' = Append(jobs, NewJob(d, force))
    PROVE  JobFor(d)
  <1>1. /\ Len(jobs') = Len(jobs) + 1 /\ Len(jobs) \in Nat
        /\ \A i \in DOMAIN jobs : jobs'[i] = jobs[i]
        /\ jobs'[Len(jobs')] = NewJob(d, force)
        /\ DOMAIN jobs' = DOMAIN jobs \cup {Len(jobs')}
    BY JobAdded
  <1>2. Len(jobs') \notin DOMAIN jobs /\ Len(jobs') # 0
    BY <1>1
  <1> QED BY <1>1, <1>2 DEF JobFor, NewJob

LEMMA IngestingMoves ==
    ASSUME StoreTypeOK, IngestShape, NEW p \in Processes, Ingesting(p) \/ IngestFails(p)
    PROVE  Inserts \/ Decides \/ IngestStays
  <1> DEFINE d == call[p].doc
  <1>0. /\ call \in [Processes -> CallRec] /\ jobs \in Seq(Job)
        /\ docs \in [Contents -> DocStatus]
        /\ call[p].pc \in {"check", "create", "write", "row", "job"} /\ d \in Contents
    BY DEF IngestShape, IngestTypeOK, CallShape, CallRec, StoreTypeOK, Ingesting, TooShort,
           CaptureCheck, CaptureCreate, CaptureWrite, InsertRow, Decide, IngestFails
  <1> HIDE DEF d
  <1>1. ASSUME call[p].pc # "job", UNCHANGED <<docs, jobs>>, cut \subseteq cut',
               \/ Return(p)
               \/ \E pc \in {"create", "write", "row"} : Goto(p, pc)
        PROVE  IngestStays
    <2>1. call'[p].pc # "job" /\ \A q \in Processes \ {p} : call'[q] = call[q]
      <3>1. CASE Return(p)
        BY <3>1, ReturnLeaves
      <3>2. CASE \E pc \in {"create", "write", "row"} : Goto(p, pc)
        <4>1. PICK pc \in {"create", "write", "row"} : Goto(p, pc)
          BY <3>2
        <4>2. pc \in CallPc
          BY DEF CallPc
        <4> QED BY <1>0, <4>1, <4>2, GotoSets
      <3> QED BY <1>1, <3>1, <3>2
    <2> QED BY <1>1, <2>1, DecidingSame DEF IngestStays
  <1>2. CASE TooShort(p) \/ CaptureCheck(p) \/ CaptureCreate(p) \/ CaptureWrite(p)
    <2>1. /\ call[p].pc # "job" /\ UNCHANGED storeVars
          /\ Return(p) \/ \E pc \in {"create", "write", "row"} : Goto(p, pc)
      BY <1>2 DEF TooShort, Err, CaptureCheck, CaptureCreate, CaptureWrite
    <2> QED BY <1>1, <2>1 DEF storeVars
  <1>3. CASE InsertRow(p)
    <2>1. CASE docs[d] # "absent"
      <3>1. call[p].pc # "job" /\ UNCHANGED <<docs, jobs, cut>> /\ Return(p)
        BY <1>3, <2>1 DEF InsertRow, d
      <3> QED BY <1>1, <3>1
    <2>2. CASE docs[d] = "absent"
      <3>1. /\ call[p].pc # "job" /\ UNCHANGED <<jobs, cut>> /\ Goto(p, "job")
            /\ docs' = [docs EXCEPT ![d] = "PENDING"] /\ "job" \in CallPc
        BY <1>3, <2>2 DEF InsertRow, d, CallPc
      <3>2. /\ call'[p].pc = "job" /\ call'[p].doc = d
            /\ \A q \in Processes \ {p} : call'[q] = call[q]
        BY <1>0, <3>1, GotoSets DEF d
      <3>3. Deciding' = Deciding \cup {<<p, d>>}
        BY <1>0, <3>1, <3>2, DecidingMore
      <3>4. DocTo(d, "PENDING")
        BY <1>0, <3>1 DEF DocTo
      <3> QED BY <1>0, <2>2, <3>1, <3>3, <3>4 DEF Inserts
    <2> QED BY <2>1, <2>2
  <1>4. CASE Decide(p) \/ (IngestFails(p) /\ call[p].pc = "job")
    <2> DEFINE x == <<p, d>>
    <2>1. call[p].pc = "job" /\ Return(p)
      BY <1>4 DEF Decide, IngestFails, Err
    <2>2. x \in Deciding /\ Deciding' = Deciding \ {x} /\ x[2] = d
      BY <1>0, <2>1, ReturnLeaves, DecidingLess DEF d
    <2> HIDE DEF x
    <2>3. \/ DocTo(d, "SKIPPED") /\ UNCHANGED <<jobs, cut>>
          \/ JobFor(d) /\ UNCHANGED <<docs, cut>>
          \/ UNCHANGED <<docs, jobs>> /\ cut' = cut \cup {d}
      <3>1. CASE Decide(p) /\ call[p].mode = "skip"
        BY <1>0, <3>1 DEF Decide, DocTo, d
      <3>2. CASE Decide(p) /\ call[p].mode # "skip"
        <4>1. /\ jobs' = Append(jobs, NewJob(d, call[p].mode = "force"))
              /\ UNCHANGED <<docs, cut>>
          BY <3>2 DEF Decide, d
        <4>2. (call[p].mode = "force") \in BOOLEAN
          OBVIOUS
        <4> QED BY <1>0, <4>1, <4>2, NewJobFor
      <3>3. CASE IngestFails(p) /\ call[p].pc = "job"
        BY <3>3 DEF IngestFails, Fault, d
      <3> QED BY <1>4, <3>1, <3>2, <3>3
    <2> QED BY <2>2, <2>3 DEF Decides
  <1>5. CASE IngestFails(p) /\ call[p].pc # "job"
    <2>1. UNCHANGED <<docs, jobs>> /\ cut \subseteq cut' /\ Return(p)
      BY <1>5 DEF IngestFails, Fault, Err
    <2> QED BY <1>1, <1>5, <2>1
  <1> QED BY <1>2, <1>3, <1>4, <1>5 DEF Ingesting

LEMMA IngestMoves ==
    ASSUME StoreTypeOK, IngestShape, IngestNext
    PROVE  Inserts \/ Decides \/ IngestStays
  <1>0. /\ call \in [Processes -> CallRec] /\ Callers \subseteq Processes
        /\ "worker" \in Processes
    BY DEF IngestShape, IngestTypeOK, CallRec, Processes
  <1>1. CASE Publish
    BY <1>1, DecidingKept DEF Publish, storeVars, IngestStays
  <1>2. CASE \E p \in Processes : Ingesting(p) \/ IngestFails(p)
    BY <1>2, IngestingMoves
  <1>3. CASE \E p \in Callers : StartCall(p)
    <2>1. PICK p \in Callers : StartCall(p)
      BY <1>3
    <2>2. PICK d \in Contents, m \in Modes :
              call' = [call EXCEPT ![p] = [pc |-> "check", doc |-> d, mode |-> m]]
      BY <2>1 DEF StartCall
    <2>3. /\ call[p].pc # "job" /\ call'[p].pc # "job" /\ p \in Processes
          /\ \A q \in Processes \ {p} : call'[q] = call[q]
      BY <1>0, <2>1, <2>2 DEF StartCall
    <2>4. UNCHANGED <<docs, jobs, cut>>
      BY <2>1 DEF StartCall, storeVars
    <2> QED BY <2>3, <2>4, DecidingSame DEF IngestStays
  <1>4. CASE ReadEntry \/ Advance \/ StoreCursor
    <2>1. UNCHANGED <<docs, jobs>> /\ cut \subseteq cut'
      <3>1. CASE UNCHANGED storeVars
        BY <3>1 DEF storeVars
      <3>2. CASE Fault({}) /\ UNCHANGED <<docs, jobs>>
        BY <3>2 DEF Fault
      <3> QED BY <1>4, <3>1, <3>2 DEF ReadEntry, Advance, StoreCursor
    <2>2. PICK c : call' = [call EXCEPT !["worker"] = c] /\ c.pc # "job"
      <3>1. CASE ReadEntry
        <4> DEFINE c == [pc |-> "check", doc |-> stream[reader.pos + 1], mode |-> "auto"]
        <4>1. call' = [call EXCEPT !["worker"] = c]
          BY <3>1 DEF ReadEntry
        <4>2. c.pc # "job"
          OBVIOUS
        <4> HIDE DEF c
        <4> QED BY <4>1, <4>2
      <3>2. CASE Advance
        <4> DEFINE c == [call["worker"] EXCEPT !.pc = "store"]
        <4>1. call' = [call EXCEPT !["worker"] = c]
          BY <3>2 DEF Advance, Goto
        <4>2. c.pc # "job"
          <5>1. call["worker"] \in CallRec
            BY <1>0
          <5> QED BY <5>1 DEF CallRec
        <4> HIDE DEF c
        <4> QED BY <4>1, <4>2
      <3>3. CASE StoreCursor
        <4>1. call' = [call EXCEPT !["worker"] = Idle]
          BY <3>3 DEF StoreCursor
        <4>2. Idle.pc # "job"
          BY DEF Idle
        <4> QED BY <4>1, <4>2
      <3> QED BY <1>4, <3>1, <3>2, <3>3
    <2>3. call["worker"].pc # "job"
      BY <1>4 DEF ReadEntry, Advance, StoreCursor
    <2>4. call'["worker"].pc # "job" /\ \A q \in Processes \ {"worker"} : call'[q] = call[q]
      BY <1>0, <2>2
    <2> QED BY <1>0, <2>1, <2>3, <2>4, DecidingSame DEF IngestStays
  <1> QED BY <1>0, <1>1, <1>2, <1>3, <1>4 DEF IngestNext, StreamWorker

-----------------------------------------------------------------------------
\* The steps of the worker and of services.

LEMMA JobGets ==
    ASSUME jobs \in Seq(Job), NEW k \in DOMAIN jobs, NEW s \in JobStatus,
           jobs' = [jobs EXCEPT ![k].status = s]
    PROVE  JobTo(k, s, jobs[k].attempts)
  BY StatusWritten DEF JobTo, JobsKept

LEMMA JobTried ==
    ASSUME jobs \in Seq(Job), NEW k \in DOMAIN jobs, NEW s \in JobStatus,
           jobs' = [jobs EXCEPT ![k].status = s, ![k].attempts = @ + 1]
    PROVE  JobTo(k, s, jobs[k].attempts + 1)
  BY AttemptWritten DEF JobTo, JobsKept

\* What the worker has in hand, for the steps below.
LEMMA AtHand ==
    ASSUME EvidenceInv, w.pc # "idle"
    PROVE  /\ w \in WorkerRec /\ w.job \in DOMAIN jobs /\ jobs \in Seq(Job)
           /\ jobs[w.job] \in Job /\ jobs[w.job].attempts \in Nat
           /\ Doc \in Contents /\ docs \in [Contents -> DocStatus]
           /\ w.outcome \in {"DONE", "SKIPPED"} /\ MaxAttempts \in Nat
  <1>1. w \in WorkerRec /\ w.job \in DOMAIN jobs /\ jobs \in Seq(Job)
        /\ docs \in [Contents -> DocStatus]
    BY DEF EvidenceInv, EmbedShape, WorkerShape, StoreTypeOK
  <1>2. jobs[w.job] \in Job
    BY <1>1
  <1> QED BY <1>1, <1>2, BoundsOfThePipeline DEF Job, Doc, WorkerRec

LEMMA WorkerMoves ==
    ASSUME EvidenceInv, WorkerStep
    PROVE  \/ Claims \/ Tries \/ PutsBack \/ Concludes \/ Settles \/ GivesUp \/ Fails \/ Ends
  <1>1. CASE Claim
    <2>1. PICK k \in Pending :
              /\ jobs' = [jobs EXCEPT ![k].status = "RUNNING"]
              /\ w' = [Asleep EXCEPT !.pc = "gate", !.job = k]
      BY <1>1 DEF Claim
    <2>2. k \in DOMAIN jobs /\ jobs[k].status = "PENDING" /\ "RUNNING" \in JobStatus
      BY DEF Pending, JobStatus
    <2>3. w.pc = "idle" /\ w'.pc = "gate" /\ w'.job = k /\ UNCHANGED <<docs, cut>>
      BY <1>1, <2>1 DEF Claim, Asleep
    <2>4. JobTo(k, "RUNNING", jobs[k].attempts)
      BY <2>1, <2>2, JobGets DEF EvidenceInv, StoreTypeOK
    <2> QED BY <2>2, <2>3, <2>4 DEF Claims
  <1>2. CASE Proceed \/ ReadCache \/ EmbedBatch \/ InsertChunk \/ Upsert \/ Meter
             \/ ProcessErr \/ ReplyLost
    <2>1. w.pc \in Trying
      BY <1>2 DEF Proceed, ReadCache, EmbedBatch, InsertChunk, Upsert, Meter, ProcessErr,
                  ReplyLost, Trying
    <2>2. UNCHANGED <<docs, jobs>> /\ cut \subseteq cut'
      <3>1. CASE UNCHANGED storeVars
        BY <3>1 DEF storeVars
      <3>2. CASE UNCHANGED <<docs, jobs>> /\ (UNCHANGED <<faults, cut>> \/ Fault({}))
        BY <3>2 DEF Fault
      <3> QED BY <1>2, <3>1, <3>2
              DEF Proceed, ReadCache, EmbedBatch, InsertChunk, Upsert, Meter, ProcessErr, ReplyLost
    <2>3. w \in WorkerRec
      BY DEF EvidenceInv, EmbedShape, WorkerShape
    <2>4. w'.pc \in Trying /\ w'.job = w.job
      <3>1. CASE ReadCache \/ EmbedBatch \/ Upsert
        BY <2>3, <3>1 DEF ReadCache, EmbedBatch, Upsert, WorkerRec, Trying
      <3>2. CASE \E pc \in {"decide", "upsert", "rows", "mark", "error"} : EmbedGoto(pc)
        BY <2>3, <3>2 DEF EmbedGoto, WorkerRec, Trying
      <3> QED BY <1>2, <3>1, <3>2 DEF Proceed, InsertChunk, Meter, ProcessErr, ReplyLost
    <2> QED BY <2>1, <2>2, <2>4 DEF Tries
  <1>3. CASE Pause \/ Retry
    <2>1. w.pc \in {"gate", "error"} /\ w' = Asleep /\ UNCHANGED <<docs, cut>>
      BY <1>3 DEF Pause, Retry
    <2>2. w.pc # "idle" /\ w.pc \in Trying /\ "PENDING" \in JobStatus
      BY <2>1 DEF Trying, JobStatus
    <2>3. CASE Pause
      <3>1. JobTo(w.job, "PENDING", jobs[w.job].attempts)
        BY <2>2, <2>3, AtHand, JobGets DEF Pause
      <3> QED BY <2>1, <2>2, <3>1 DEF PutsBack
    <2>4. CASE Retry
      <3> DEFINE n == jobs[w.job].attempts + 1
      <3>1. JobTo(w.job, "PENDING", n)
        BY <2>2, <2>4, AtHand, JobTried DEF Retry
      <3>2. n < MaxAttempts
        BY <2>2, <2>4, AtHand DEF Retry
      <3> QED BY <2>1, <2>2, <3>1, <3>2 DEF PutsBack
    <2> QED BY <1>3, <2>3, <2>4
  <1>4. CASE Skip \/ MarkDone
    <2>1. w.pc \in {"decide", "mark"} /\ UNCHANGED jobs
      BY <1>4 DEF Skip, MarkDone
    <2>2. w.pc # "idle" /\ w.pc \in Trying
      BY <2>1 DEF Trying
    <2>3. w'.pc = "settle" /\ w'.job = w.job
      BY <1>4, <2>2, AtHand DEF Skip, MarkDone, WorkerRec
    <2>4. /\ cut \subseteq cut'
          /\ (\E s \in {"DONE", "SKIPPED"} : DocTo(Doc, s)) \/ (UNCHANGED docs /\ Doc \in cut')
      <3>1. CASE \E s \in {"DONE", "SKIPPED"} : docs' = [docs EXCEPT ![Doc] = s] /\ UNCHANGED cut
        BY <2>2, <3>1, AtHand DEF DocTo
      <3>2. CASE UNCHANGED docs /\ Fault({Doc})
        BY <3>2 DEF Fault
      <3> QED BY <1>4, <3>1, <3>2 DEF Skip, MarkDone
    <2> QED BY <2>1, <2>2, <2>3, <2>4 DEF Concludes
  <1>5. CASE Settle
    <2>1. w.pc = "settle" /\ w.pc # "idle" /\ w' = Asleep /\ UNCHANGED <<docs, cut>>
      BY <1>5 DEF Settle
    <2>2. JobTo(w.job, w.outcome, jobs[w.job].attempts) /\ w.outcome \in {"DONE", "SKIPPED"}
      BY <1>5, <2>1, AtHand, JobGets DEF Settle, JobStatus
    <2> QED BY <2>1, <2>2 DEF Settles
  <1>6. CASE GiveUp
    <2> DEFINE n == jobs[w.job].attempts + 1
    <2>1. w.pc = "error" /\ w.pc # "idle" /\ UNCHANGED <<docs, cut>> /\ "FAILED" \in JobStatus
      BY <1>6 DEF GiveUp, JobStatus
    <2>2. n >= MaxAttempts
      BY <1>6, <2>1, AtHand DEF GiveUp
    <2>3. JobTo(w.job, "FAILED", n)
      BY <1>6, <2>1, AtHand, JobTried DEF GiveUp
    <2>4. w'.pc = "doc_failed" /\ w'.job = w.job
      BY <1>6, <2>1, AtHand DEF GiveUp, EmbedGoto, WorkerRec
    <2> QED BY <2>1, <2>2, <2>3, <2>4 DEF GivesUp
  <1>7. CASE MarkFailed
    <2>1. w.pc = "doc_failed" /\ w.pc # "idle" /\ w' = Asleep /\ UNCHANGED jobs
      BY <1>7 DEF MarkFailed
    <2>2. cut \subseteq cut' /\ (DocTo(Doc, "FAILED") \/ (UNCHANGED docs /\ Doc \in cut'))
      <3>1. CASE docs' = [docs EXCEPT ![Doc] = "FAILED"] /\ UNCHANGED cut
        BY <2>1, <3>1, AtHand DEF DocTo
      <3>2. CASE UNCHANGED docs /\ Fault({Doc})
        BY <3>2 DEF Fault
      <3> QED BY <1>7, <3>1, <3>2 DEF MarkFailed
    <2> QED BY <2>1, <2>2 DEF Fails
  <1>8. CASE TickFails
    BY <1>8 DEF TickFails, Fault, Ends
  <1> QED BY <1>1, <1>2, <1>3, <1>4, <1>5, <1>6, <1>7, <1>8 DEF WorkerStep, Worker

LEMMA ServiceMoves ==
    ASSUME EvidenceInv, Services \/ Requeue
    PROVE  (UNCHANGED w /\ UNCHANGED <<docs, jobs>> /\ cut \subseteq cut') \/ Requeues
  <1>1. CASE Services
    BY <1>1 DEF Services, ApiDown, ApiUp, QdrantDown, QdrantUp, BudgetYellow, BudgetGreen,
                storeVars
  <1>2. CASE Requeue
    <2>1. PICK d \in Contents : docs[d] = "DONE" /\ jobs' = Append(jobs, NewJob(d, TRUE))
      BY <1>2 DEF Requeue
    <2>2. JobFor(d)
      BY <2>1, NewJobFor DEF EvidenceInv, StoreTypeOK
    <2>3. MaxRequeues # 0
      <3>1. env.requeues \in Nat /\ env.requeues < MaxRequeues
        BY <1>2 DEF Requeue, EvidenceInv, EmbedShape, ServiceTypes
      <3> QED BY <3>1
    <2> QED BY <1>2, <2>1, <2>2, <2>3 DEF Requeue, Requeues
  <1> QED BY <1>1, <1>2

LEMMA RestartMoves == ASSUME EvidenceInv, Restart PROVE Stops
  <1>1. Fault(IngestCut \cup EmbedCut) /\ w' = Asleep /\ UNCHANGED <<docs, jobs>>
        /\ call' = [p \in Processes |-> Idle]
    BY DEF Restart, IngestRestart, EmbedRestart
  <1>2. Deciding' = {}
    BY <1>1 DEF Deciding, Idle
  <1>3. cut \subseteq cut' /\ IngestCut \subseteq cut' /\ EmbedCut \subseteq cut'
    BY <1>1 DEF Fault
  <1>4. \A x \in Deciding : x[2] \in IngestCut
    BY DEF Deciding, IngestCut
  <1>5. w.pc # "idle" => Doc \in EmbedCut
    BY DEF EmbedCut
  <1> QED BY <1>1, <1>2, <1>3, <1>4, <1>5 DEF Stops

\* Every step of the pipeline is one of these.
LEMMA StepMoves == ASSUME EvidenceInv, [Next]_vars PROVE EvidenceMove
  <1>0. StoreTypeOK /\ IngestShape /\ EmbedShape
    BY DEF EvidenceInv
  <1>1. CASE IngestNext /\ UNCHANGED embedVars
    <2>1. UNCHANGED w
      BY <1>1 DEF embedVars
    <2> QED BY <1>0, <1>1, <2>1, IngestMoves DEF EvidenceMove
  <1>2. CASE EmbedNext /\ UNCHANGED ingestVars
    <2>1. UNCHANGED Deciding
      <3>1. UNCHANGED call
        BY <1>2 DEF ingestVars
      <3> QED BY <3>1, DecidingKept
    <2>2. CASE WorkerStep
      BY <2>1, <2>2, WorkerMoves DEF EvidenceMove
    <2>3. CASE Services \/ Requeue
      BY <2>1, <2>3, ServiceMoves DEF EvidenceMove, IngestStays
    <2> QED BY <1>2, <2>2, <2>3 DEF EmbedNext, WorkerStep
  <1>3. CASE Restart
    BY <1>3, RestartMoves DEF EvidenceMove
  <1>4. CASE UNCHANGED vars
    <2>1. UNCHANGED <<docs, jobs, cut, call, w>>
      BY <1>4 DEF vars, storeVars, ingestVars, embedVars
    <2> QED BY <2>1, DecidingKept DEF EvidenceMove, IngestStays
  <1> QED BY <1>1, <1>2, <1>3, <1>4 DEF Next

-----------------------------------------------------------------------------
\* What the moves preserve.

\* A document that has a job, or that somebody decides on, has a row.
RowShape ==
    /\ \A i \in DOMAIN jobs : docs[jobs[i].doc] # "absent"
    /\ \A x \in Deciding : docs[x[2]] # "absent"

\* The job at hand, and what its attempts say.
JobShape ==
    /\ w.pc = "idle" => w.job = 0
    /\ w.pc \in Trying \cup {"settle"} => jobs[w.job].status = "RUNNING"
    /\ w.pc = "doc_failed" => jobs[w.job].status = "FAILED"
    /\ AttemptsCounted

\* Whose document is PENDING; one whose job is to be settled is not.
HandShape ==
    /\ NoDocumentForgotten
    /\ w.pc = "settle" => docs[Doc] # "PENDING" \/ Doc \in cut

\* Nobody queues a document by hand: then one call decides on it, and before
\* there is a job.
QueueShape ==
    MaxRequeues = 0 =>
        /\ QueuedOnce
        /\ \A x \in Deciding : \A i \in DOMAIN jobs : jobs[i].doc # x[2]
        /\ \A x, y \in Deciding : x[2] = y[2] => x = y

\* The premise of the lemmas below.
Here == EvidenceInv /\ EvidenceMove /\ JobsKept

\* No document loses its row, and none becomes PENDING that had one.
RowsStay ==
    \A d \in Contents : docs[d] # "absent" =>
        docs'[d] # "absent" /\ (docs'[d] = "PENDING" => docs[d] = "PENDING")

LEMMA HereTypes ==
    ASSUME Here
    PROVE  /\ docs \in [Contents -> DocStatus] /\ jobs \in Seq(Job) /\ w \in WorkerRec
           /\ \A i \in DOMAIN jobs : i \in Nat /\ i # 0 /\ jobs[i].doc \in Contents
                                     /\ jobs[i].attempts \in Nat
           /\ \A x \in Deciding : x[1] \in Processes /\ x[2] \in Contents /\ x = <<x[1], x[2]>>
           /\ w.pc # "idle" => w.job \in DOMAIN jobs /\ Doc \in Contents
           /\ MaxAttempts \in Nat /\ MaxAttempts # 0
  <1>1. docs \in [Contents -> DocStatus] /\ jobs \in Seq(Job) /\ w \in WorkerRec
        /\ (w.pc # "idle" => w.job \in DOMAIN jobs)
    BY DEF Here, EvidenceInv, StoreTypeOK, EmbedShape, WorkerShape
  <1>2. ASSUME NEW i \in DOMAIN jobs
        PROVE  i \in Nat /\ i # 0 /\ jobs[i].doc \in Contents /\ jobs[i].attempts \in Nat
    <2>1. jobs[i] \in Job
      BY <1>1
    <2> QED BY <1>1, <2>1 DEF Job
  <1>3. \A x \in Deciding : x[1] \in Processes /\ x[2] \in Contents /\ x = <<x[1], x[2]>>
    BY DEF Deciding
  <1> QED BY <1>1, <1>2, <1>3, BoundsOfThePipeline DEF Doc

LEMMA RowsStaying == ASSUME Here PROVE RowsStay
  <1>1. CASE Inserts
    BY <1>1 DEF Inserts, DocTo, RowsStay
  <1>2. CASE Decides
    BY <1>2 DEF Decides, DocTo, RowsStay
  <1>3. CASE UNCHANGED docs
    BY <1>3 DEF RowsStay
  <1>4. CASE Concludes \/ Fails
    BY <1>4 DEF Concludes, Fails, DocTo, RowsStay
  <1> QED BY <1>1, <1>2, <1>3, <1>4
          DEF Here, EvidenceMove, IngestStays, Claims, Tries, PutsBack, Settles, GivesUp, Ends,
              Requeues, Stops

LEMMA RowShapeStays == ASSUME Here, RowShape PROVE RowShape'
  <1>0. RowsStay
    BY RowsStaying
  <1>1. ASSUME NEW i \in DOMAIN jobs' PROVE docs'[jobs'[i].doc] # "absent"
    <2>1. CASE i \in DOMAIN jobs
      <3>1. jobs'[i].doc = jobs[i].doc
        BY <2>1 DEF Here, JobsKept
      <3> QED BY <1>0, <2>1, <3>1, HereTypes DEF RowShape, RowsStay
    <2>2. CASE i \notin DOMAIN jobs
      <3>1. PICK d \in Contents : JobFor(d) /\ docs[d] # "absent"
        <4>1. CASE Decides
          <5>1. PICK x \in Deciding : JobFor(x[2]) \/ UNCHANGED jobs
            BY <4>1 DEF Decides
          <5>2. docs[x[2]] # "absent" /\ x[2] \in Contents
            BY HereTypes DEF RowShape
          <5> QED BY <2>2, <5>1, <5>2
        <4>2. CASE Requeues
          BY <4>2 DEF Requeues
        <4>3. CASE DOMAIN jobs' = DOMAIN jobs
          BY <1>1, <2>2, <4>3
        <4> QED BY <4>1, <4>2, <4>3
                DEF Here, EvidenceMove, Inserts, IngestStays, Claims, Tries, PutsBack, Concludes,
                    Settles, GivesUp, Fails, Ends, Stops, JobTo
      <3>2. jobs'[i].doc = d
        BY <1>1, <2>2, <3>1 DEF JobFor
      <3> QED BY <1>0, <3>1, <3>2 DEF RowsStay
    <2> QED BY <2>1, <2>2
  <1>2. ASSUME NEW x \in Deciding' PROVE docs'[x[2]] # "absent"
    <2>1. CASE x \in Deciding
      BY <1>0, <2>1, HereTypes DEF RowShape, RowsStay
    <2>2. CASE x \notin Deciding
      <3>1. Inserts
        BY <1>2, <2>2 DEF Here, EvidenceMove, Decides, IngestStays, Stops
      <3> QED BY <1>2, <2>2, <3>1 DEF Inserts, DocTo
    <2> QED BY <2>1, <2>2
  <1> QED BY <1>1, <1>2 DEF RowShape

-----------------------------------------------------------------------------
\* Attempts.

\* A job's row agrees with itself, and one that runs is at hand.
RowCounted(i) ==
    /\ jobs[i].status = "FAILED" <=> jobs[i].attempts >= MaxAttempts
    /\ jobs[i].status = "RUNNING" /\ jobs[i].doc \notin cut => w.job = i

LEMMA AsleepIs == Asleep.pc = "idle" /\ Asleep.job = 0
  BY DEF Asleep

LEMMA JobShapeStays == ASSUME Here, JobShape PROVE JobShape'
  <1>0. \A i \in DOMAIN jobs : RowCounted(i)
    BY DEF JobShape, AttemptsCounted, RowCounted
  <1>1. ASSUME \A i \in DOMAIN jobs' : RowCounted(i)'
        PROVE  AttemptsCounted'
    BY <1>1 DEF AttemptsCounted, RowCounted
  <1> USE AsleepIs
  <1>2. CASE UNCHANGED w /\ UNCHANGED jobs /\ cut \subseteq cut'
    <2>1. \A i \in DOMAIN jobs' : RowCounted(i)'
      BY <1>0, <1>2 DEF RowCounted
    <2> QED BY <1>1, <1>2, <2>1 DEF JobShape
  <1>3. ASSUME NEW d, UNCHANGED w, cut \subseteq cut', JobFor(d)
        PROVE  JobShape'
    <2>1. \A i \in DOMAIN jobs' : RowCounted(i)'
      BY <1>0, <1>3, HereTypes DEF RowCounted, JobFor
    <2>2. w.pc # "idle" => jobs'[w.job] = jobs[w.job]
      BY <1>3, HereTypes DEF JobFor
    <2> QED BY <1>1, <1>3, <2>1, <2>2 DEF JobShape, Trying
  <1>4. CASE Claims
    <2>1. PICK k \in DOMAIN jobs :
              /\ w.pc = "idle" /\ w'.pc = "gate" /\ w'.job = k
              /\ jobs[k].status = "PENDING" /\ JobTo(k, "RUNNING", jobs[k].attempts)
              /\ UNCHANGED cut
      BY <1>4 DEF Claims
    <2>2. w.job = 0
      BY <2>1 DEF JobShape
    <2>3. \A i \in DOMAIN jobs' : RowCounted(i)'
      BY <1>0, <2>1, <2>2, HereTypes DEF RowCounted, JobTo
    <2> QED BY <1>1, <2>1, <2>3 DEF JobShape, JobTo, Trying
  <1>5. CASE Tries
    <2>1. \A i \in DOMAIN jobs' : RowCounted(i)'
      BY <1>0, <1>5 DEF RowCounted, Tries
    <2> QED BY <1>1, <1>5, <2>1 DEF JobShape, Tries, Trying
  <1>6. CASE PutsBack
    <2>1. PICK n : /\ n = jobs[w.job].attempts \/ n < MaxAttempts
                   /\ JobTo(w.job, "PENDING", n)
      BY <1>6 DEF PutsBack
    <2>2. w.pc \in Trying /\ w.pc # "idle" /\ w' = Asleep /\ UNCHANGED cut
      BY <1>6 DEF PutsBack, Trying
    <2>3. ~(n >= MaxAttempts)
      <3>1. CASE n = jobs[w.job].attempts
        BY <1>0, <2>2, <3>1, HereTypes DEF RowCounted, JobShape
      <3>2. CASE n # jobs[w.job].attempts
        <4>1. n = jobs[w.job].attempts + 1 /\ n < MaxAttempts
          BY <1>6, <2>1, <3>2 DEF PutsBack, JobTo
        <4> QED BY <2>2, <4>1, HereTypes
      <3> QED BY <3>1, <3>2
    <2>4. \A i \in DOMAIN jobs' : RowCounted(i)'
      BY <1>0, <2>1, <2>2, <2>3, HereTypes DEF RowCounted, JobTo
    <2> QED BY <1>1, <2>2, <2>4 DEF JobShape, Trying
  <1>7. CASE Concludes
    <2>1. \A i \in DOMAIN jobs' : RowCounted(i)'
      BY <1>0, <1>7 DEF RowCounted, Concludes
    <2> QED BY <1>1, <1>7, <2>1 DEF JobShape, Concludes, Trying
  <1>8. CASE Settles
    <2>1. PICK s \in {"DONE", "SKIPPED"} : JobTo(w.job, s, jobs[w.job].attempts)
      BY <1>8 DEF Settles
    <2>2. w.pc = "settle" /\ w.pc # "idle" /\ w' = Asleep /\ UNCHANGED cut
      BY <1>8 DEF Settles
    <2>3. jobs[w.job].status = "RUNNING"
      BY <2>2 DEF JobShape
    <2>4. \A i \in DOMAIN jobs' : RowCounted(i)'
      BY <1>0, <2>1, <2>2, <2>3, HereTypes DEF RowCounted, JobTo
    <2> QED BY <1>1, <2>2, <2>4 DEF JobShape, Trying
  <1>9. CASE GivesUp
    <2>1. PICK n : n >= MaxAttempts /\ JobTo(w.job, "FAILED", n)
      BY <1>9 DEF GivesUp
    <2>2. w.pc = "error" /\ w.pc # "idle" /\ w'.pc = "doc_failed" /\ w'.job = w.job
          /\ UNCHANGED cut
      BY <1>9 DEF GivesUp
    <2>3. \A i \in DOMAIN jobs' : RowCounted(i)'
      BY <1>0, <2>1, <2>2, HereTypes DEF RowCounted, JobTo
    <2> QED BY <1>1, <2>1, <2>2, <2>3 DEF JobShape, Trying, JobTo
  <1>10. CASE Fails
    <2>1. w.pc = "doc_failed" /\ w' = Asleep /\ UNCHANGED jobs /\ cut \subseteq cut'
      BY <1>10 DEF Fails
    <2>2. jobs[w.job].status = "FAILED"
      BY <2>1 DEF JobShape
    <2>3. \A i \in DOMAIN jobs' : RowCounted(i)'
      BY <1>0, <2>1, <2>2 DEF RowCounted
    <2> QED BY <1>1, <2>1, <2>3 DEF JobShape, Trying
  <1>11. CASE Ends \/ Stops
    <2>1. w' = Asleep /\ UNCHANGED jobs /\ cut \subseteq cut' /\ (w.pc # "idle" => Doc \in cut')
      BY <1>11 DEF Ends, Stops
    <2>2. w.pc = "idle" => w.job = 0
      BY DEF JobShape
    <2>3. \A i \in DOMAIN jobs' : RowCounted(i)'
      BY <1>0, <2>1, <2>2, HereTypes DEF RowCounted, Doc
    <2> QED BY <1>1, <2>1, <2>3 DEF JobShape, Trying
  <1>12. CASE UNCHANGED w /\ (Inserts \/ Decides \/ IngestStays)
    BY <1>2, <1>3, <1>12 DEF Inserts, Decides, IngestStays
  <1>13. CASE Requeues
    BY <1>3, <1>13 DEF Requeues
  <1> QED BY <1>4, <1>5, <1>6, <1>7, <1>8, <1>9, <1>10, <1>11, <1>12, <1>13
          DEF Here, EvidenceMove

-----------------------------------------------------------------------------
\* Documents that are PENDING.

\* InHand, with the set of those who decide.
Held(d) ==
    \/ \E x \in Deciding : x[2] = d
    \/ \E i \in DOMAIN jobs : jobs[i].doc = d /\ jobs[i].status = "PENDING"
    \/ w.pc # "idle" /\ Doc = d

LEMMA HeldIsInHand ==
    ASSUME NEW d \in Contents
    PROVE  (InHand(d) <=> Held(d)) /\ (InHand(d)' <=> Held(d)')
  <1>1. (\E p \in Processes : call[p].pc = "job" /\ call[p].doc = d)
        <=> (\E x \in Deciding : x[2] = d)
    <2>1. \A p \in Processes : call[p].pc = "job" /\ call[p].doc = d => <<p, d>> \in Deciding
      BY DecidingOf
    <2>2. \A x \in Deciding : x[1] \in Processes /\ call[x[1]].pc = "job"
                              /\ call[x[1]].doc = x[2]
      BY DEF Deciding
    <2> QED BY <2>1, <2>2
  <1>2. (\E p \in Processes : call'[p].pc = "job" /\ call'[p].doc = d)
        <=> (\E x \in Deciding' : x[2] = d)
    <2>1. \A p \in Processes : call'[p].pc = "job" /\ call'[p].doc = d => <<p, d>> \in Deciding'
      BY DEF Deciding
    <2>2. \A x \in Deciding' : x[1] \in Processes /\ call'[x[1]].pc = "job"
                               /\ call'[x[1]].doc = x[2]
      BY DEF Deciding
    <2> QED BY <2>1, <2>2
  <1> QED BY <1>1, <1>2 DEF InHand, Held

\* Who holds a document after a step that leaves its status PENDING.
LEMMA HandShapeStays == ASSUME Here, HandShape, RowShape, JobShape PROVE HandShape'
  <1>0. RowsStay /\ cut \subseteq cut'
    <2>1. cut \subseteq cut'
      BY DEF Here, EvidenceMove, Inserts, Decides, IngestStays, Claims, Tries, PutsBack,
             Concludes, Settles, GivesUp, Fails, Ends, Requeues, Stops
    <2> QED BY <2>1, RowsStaying
  <1>1. \A d \in Contents : docs[d] = "PENDING" => Held(d) \/ d \in cut
    BY HeldIsInHand DEF HandShape, NoDocumentForgotten
  <1> USE AsleepIs
  \* The other documents, under a move of the worker that writes its own job.
  <1>2. ASSUME NEW d \in Contents, docs'[d] = "PENDING", NEW k, NEW s, NEW n, JobTo(k, s, n),
               UNCHANGED docs, UNCHANGED Deciding, UNCHANGED cut, jobs[k].doc # d,
               w.pc = "idle" \/ w.job = k
        PROVE  Held(d)' \/ d \in cut'
    <2>1. Held(d) \/ d \in cut
      BY <1>1, <1>2
    <2>2. ~(w.pc # "idle" /\ Doc = d)
      BY <1>2 DEF Doc
    <2>3. CASE \E i \in DOMAIN jobs : jobs[i].doc = d /\ jobs[i].status = "PENDING"
      <3>1. PICK i \in DOMAIN jobs : jobs[i].doc = d /\ jobs[i].status = "PENDING"
        BY <2>3
      <3>2. i # k
        BY <1>2, <3>1
      <3>3. i \in DOMAIN jobs' /\ jobs'[i] = jobs[i]
        BY <1>2, <3>1, <3>2 DEF JobTo
      <3> QED BY <3>1, <3>3 DEF Held
    <2>4. CASE (\E x \in Deciding : x[2] = d) \/ d \in cut
      BY <1>2, <2>4 DEF Held
    <2> QED BY <2>1, <2>2, <2>3, <2>4 DEF Held
  <1>3. ASSUME NEW d \in Contents, docs'[d] = "PENDING" PROVE Held(d)' \/ d \in cut'
    <2>1. CASE UNCHANGED w /\ Inserts
      <3>1. CASE docs[d] = "PENDING"
        BY <1>1, <2>1, <3>1 DEF Held, Inserts, Doc
      <3>2. CASE docs[d] # "PENDING"
        <4>1. PICK p \in Processes, o \in Contents :
                  DocTo(o, "PENDING") /\ Deciding' = Deciding \cup {<<p, o>>}
          BY <2>1 DEF Inserts
        <4>2. o = d
          BY <1>3, <3>2, <4>1 DEF DocTo
        <4> DEFINE x == <<p, o>>
        <4>3. x \in Deciding' /\ x[2] = d
          BY <4>1, <4>2
        <4> HIDE DEF x
        <4> QED BY <4>3 DEF Held
      <3> QED BY <3>1, <3>2
    <2>2. CASE UNCHANGED w /\ Decides
      <3>1. PICK x \in Deciding :
                /\ Deciding' = Deciding \ {x}
                /\ \/ DocTo(x[2], "SKIPPED") /\ UNCHANGED <<jobs, cut>>
                   \/ JobFor(x[2]) /\ UNCHANGED <<docs, cut>>
                   \/ UNCHANGED <<docs, jobs>> /\ cut' = cut \cup {x[2]}
        BY <2>2 DEF Decides
      <3>2. docs[d] = "PENDING"
        BY <1>3, <3>1 DEF DocTo
      <3>3. CASE x[2] = d
        <4>1. CASE JobFor(x[2])
          BY <3>3, <4>1 DEF JobFor, Held
        <4>2. CASE ~JobFor(x[2])
          BY <1>3, <3>1, <3>3, <4>2 DEF DocTo
        <4> QED BY <4>1, <4>2
      <3>4. CASE x[2] # d
        <4>1. Held(d) \/ d \in cut
          BY <1>1, <3>2
        <4>2. \A i \in DOMAIN jobs : i \in DOMAIN jobs' /\ jobs'[i] = jobs[i]
          BY <3>1 DEF JobFor
        <4>3. w.pc # "idle" => Doc' = Doc
          BY <2>2, <4>2, HereTypes DEF Doc
        <4> QED BY <1>0, <2>2, <3>1, <3>4, <4>1, <4>2, <4>3 DEF Held
      <3> QED BY <3>3, <3>4
    <2>3. CASE UNCHANGED w /\ IngestStays
      BY <1>1, <1>3, <2>3 DEF IngestStays, Held, Doc
    <2>4. CASE UNCHANGED Deciding /\ Claims
      <3>1. PICK k \in DOMAIN jobs :
                /\ w.pc = "idle" /\ w'.pc = "gate" /\ w'.job = k
                /\ JobTo(k, "RUNNING", jobs[k].attempts) /\ UNCHANGED <<docs, cut>>
        BY <2>4 DEF Claims
      <3>2. CASE jobs[k].doc = d
        BY <3>1, <3>2 DEF JobTo, Held, Doc
      <3> QED BY <1>2, <1>3, <2>4, <3>1, <3>2
    <2>5. CASE UNCHANGED Deciding /\ Tries
      <3>1. UNCHANGED docs /\ w.pc # "idle" /\ w'.pc # "idle" /\ w'.job = w.job /\ UNCHANGED jobs
        BY <2>5 DEF Tries, Trying
      <3>2. Doc' = Doc
        BY <3>1 DEF Doc
      <3> QED BY <1>0, <1>1, <1>3, <2>5, <3>1, <3>2 DEF Held
    <2>6. CASE UNCHANGED Deciding /\ PutsBack
      <3>1. PICK n : JobTo(w.job, "PENDING", n)
        BY <2>6 DEF PutsBack
      <3>2. UNCHANGED <<docs, cut>>
        BY <2>6 DEF PutsBack
      <3>3. CASE jobs[w.job].doc = d
        BY <3>1, <3>3 DEF JobTo, Held
      <3> QED BY <1>2, <1>3, <2>6, <3>1, <3>2, <3>3
    <2>7. CASE UNCHANGED Deciding /\ Concludes
      <3>1. /\ w.pc # "idle" /\ w'.pc # "idle" /\ w'.job = w.job /\ UNCHANGED jobs
        BY <2>7 DEF Concludes, Trying
      <3>2. Doc' = Doc
        BY <3>1 DEF Doc
      <3>3. CASE docs[d] = "PENDING"
        BY <1>0, <1>1, <2>7, <3>1, <3>2, <3>3 DEF Held
      <3>4. docs[d] = "PENDING"
        BY <1>3, <2>7 DEF Concludes, DocTo
      <3> QED BY <3>3, <3>4
    <2>8. CASE UNCHANGED Deciding /\ Settles
      <3>1. PICK s \in {"DONE", "SKIPPED"} : JobTo(w.job, s, jobs[w.job].attempts)
        BY <2>8 DEF Settles
      <3>2. UNCHANGED <<docs, cut>> /\ w.pc = "settle"
        BY <2>8 DEF Settles
      <3>3. CASE jobs[w.job].doc = d
        BY <1>3, <3>2, <3>3 DEF HandShape, Doc
      <3> QED BY <1>2, <1>3, <2>8, <3>1, <3>2, <3>3
    <2>9. CASE UNCHANGED Deciding /\ GivesUp
      <3>1. PICK n : JobTo(w.job, "FAILED", n)
        BY <2>9 DEF GivesUp
      <3>2. UNCHANGED <<docs, cut>> /\ w'.pc # "idle" /\ w'.job = w.job
        BY <2>9 DEF GivesUp
      <3>3. CASE jobs[w.job].doc = d
        BY <3>1, <3>2, <3>3 DEF JobTo, Held, Doc
      <3> QED BY <1>2, <1>3, <2>9, <3>1, <3>2, <3>3
    <2>10. CASE UNCHANGED Deciding /\ Fails
      <3>1. CASE d = Doc
        BY <1>3, <2>10, <3>1 DEF Fails, DocTo
      <3>2. CASE d # Doc
        <4>1. docs[d] = "PENDING" /\ UNCHANGED jobs
          BY <1>3, <2>10, <3>2 DEF Fails, DocTo
        <4> QED BY <1>0, <1>1, <2>10, <3>2, <4>1 DEF Held
      <3> QED BY <3>1, <3>2
    <2>11. CASE UNCHANGED Deciding /\ Ends
      <3>1. UNCHANGED <<docs, jobs>> /\ Doc \in cut'
        BY <2>11 DEF Ends
      <3> QED BY <1>0, <1>1, <1>3, <2>11, <3>1 DEF Held
    <2>12. CASE UNCHANGED Deciding /\ Requeues
      <3>1. UNCHANGED <<docs, w>> /\ \A i \in DOMAIN jobs : i \in DOMAIN jobs' /\ jobs'[i] = jobs[i]
        BY <2>12 DEF Requeues, JobFor
      <3>2. w.pc # "idle" => Doc' = Doc
        BY <3>1, HereTypes DEF Doc
      <3> QED BY <1>0, <1>1, <1>3, <2>12, <3>1, <3>2 DEF Held
    <2>13. CASE Stops
      <3>1. UNCHANGED <<docs, jobs>> /\ \A x \in Deciding : x[2] \in cut'
        BY <2>13 DEF Stops
      <3>2. w.pc # "idle" => Doc \in cut'
        BY <2>13 DEF Stops
      <3> QED BY <1>0, <1>1, <1>3, <3>1, <3>2 DEF Held
    <2> QED BY <2>1, <2>2, <2>3, <2>4, <2>5, <2>6, <2>7, <2>8, <2>9, <2>10, <2>11, <2>12, <2>13
            DEF Here, EvidenceMove
  <1>4. ASSUME w'.pc = "settle" PROVE docs'[Doc'] # "PENDING" \/ Doc' \in cut'
    <2>1. CASE Concludes
      <3>1. Doc' = Doc
        BY <2>1 DEF Concludes, Doc
      <3> QED BY <2>1, <3>1 DEF Concludes, DocTo
    <2>2. CASE UNCHANGED w
      <3>1. w.pc = "settle" /\ Doc \in Contents /\ w.job \in DOMAIN jobs
        BY <1>4, <2>2, HereTypes
      <3>2. Doc' = Doc /\ docs[Doc] # "absent"
        BY <2>2, <3>1 DEF Doc, RowShape, Here, JobsKept
      <3> QED BY <1>0, <3>1, <3>2 DEF HandShape, RowsStay
    <2> QED BY <1>4, <2>1, <2>2
            DEF Here, EvidenceMove, Claims, Tries, PutsBack, Settles, GivesUp, Fails, Ends,
                Requeues, Stops, Trying
  <1> QED BY <1>3, <1>4, HeldIsInHand DEF HandShape, NoDocumentForgotten

-----------------------------------------------------------------------------
\* Documents queued once.

LEMMA QueueShapeStays == ASSUME Here, QueueShape, RowShape PROVE QueueShape'
  <1> SUFFICES ASSUME MaxRequeues = 0
               PROVE  /\ QueuedOnce'
                      /\ \A x \in Deciding' : \A i \in DOMAIN jobs' : jobs'[i].doc # x[2]
                      /\ \A x, y \in Deciding' : x[2] = y[2] => x = y
    BY DEF QueueShape
  <1>0. /\ QueuedOnce
        /\ \A x \in Deciding : \A i \in DOMAIN jobs : jobs[i].doc # x[2]
        /\ \A x, y \in Deciding : x[2] = y[2] => x = y
    BY DEF QueueShape
  <1>1. CASE Inserts
    <2>1. PICK p \in Processes, d \in Contents :
              docs[d] = "absent" /\ Deciding' = Deciding \cup {<<p, d>>} /\ UNCHANGED jobs
      BY <1>1 DEF Inserts
    <2>2. /\ \A i \in DOMAIN jobs : jobs[i].doc # d
          /\ \A x \in Deciding : x[2] # d
      BY <2>1 DEF RowShape
    <2> QED BY <1>0, <2>1, <2>2 DEF QueuedOnce
  <1>2. CASE Decides
    <2>1. PICK x \in Deciding :
              /\ Deciding' = Deciding \ {x}
              /\ UNCHANGED jobs \/ JobFor(x[2])
      BY <1>2 DEF Decides
    <2>2. CASE UNCHANGED jobs
      BY <1>0, <2>1, <2>2 DEF QueuedOnce
    <2>3. CASE JobFor(x[2])
      <3>1. PICK k : /\ k \notin DOMAIN jobs /\ DOMAIN jobs' = DOMAIN jobs \cup {k}
                     /\ \A i \in DOMAIN jobs : jobs'[i] = jobs[i]
                     /\ jobs'[k].doc = x[2]
        BY <2>3 DEF JobFor
      <3>2. QueuedOnce'
        BY <1>0, <2>1, <3>1 DEF QueuedOnce
      <3>3. \A y \in Deciding' : \A i \in DOMAIN jobs' : jobs'[i].doc # y[2]
        BY <1>0, <2>1, <3>1
      <3> QED BY <1>0, <2>1, <3>2, <3>3
    <2> QED BY <2>1, <2>2, <2>3
  <1>3. CASE /\ Deciding' \subseteq Deciding
             /\ DOMAIN jobs' = DOMAIN jobs /\ \A i \in DOMAIN jobs : jobs'[i].doc = jobs[i].doc
    BY <1>0, <1>3 DEF QueuedOnce
  <1>4. CASE UNCHANGED Deciding /\ \E k, s, n : JobTo(k, s, n)
    BY <1>3, <1>4 DEF JobTo
  <1>5. CASE Deciding' \subseteq Deciding /\ UNCHANGED jobs
    BY <1>3, <1>5
  <1>6. CASE UNCHANGED Deciding /\ (Claims \/ PutsBack \/ Settles \/ GivesUp)
    BY <1>4, <1>6 DEF Claims, PutsBack, Settles, GivesUp
  <1> QED BY <1>1, <1>2, <1>5, <1>6
          DEF Here, EvidenceMove, IngestStays, Tries, Concludes, Fails, Ends, Requeues, Stops

-----------------------------------------------------------------------------
\* The stream worker and its cursor.

\* Entry i of the stream is a document, or was refused.
Taken(i) == docs[stream[i]] # "absent" \/ i \in dropped

\* What the worker has passed is taken, and so is the entry it is about to pass.
ReadShape ==
    /\ \A i \in 1 .. reader.pos : Taken(i)
    /\ CursorBehind
    /\ call["worker"].pc = "advance" => Taken(reader.pos + 1)

\* The worker's place stays, and entries that are taken.
LEMMA PlaceStays ==
    ASSUME IngestTypeOK, CallShape, ReadShape, DOMAIN stream \subseteq DOMAIN stream',
           \A i \in DOMAIN stream : stream'[i] = stream[i], dropped \subseteq dropped',
           RowsStay, UNCHANGED <<reader, cursor>>,
           call'["worker"].pc = "advance" =>
               \/ call["worker"].pc = "advance"
               \/ reader.pos < Len(stream) /\ Taken(reader.pos + 1)'
    PROVE  ReadShape'
  <1>1. /\ stream \in Seq(Contents) /\ Len(stream) \in Nat /\ reader.pos \in 0 .. Len(stream)
        /\ cursor \in 0 .. Len(stream)
    BY DEF IngestTypeOK
  <1>2. ASSUME NEW i \in DOMAIN stream, Taken(i) PROVE Taken(i)'
    <2>1. stream[i] \in Contents /\ stream'[i] = stream[i]
      BY <1>1
    <2> QED BY <1>2, <2>1 DEF Taken, RowsStay
  <1>3. DOMAIN stream = 1 .. Len(stream)
    BY <1>1
  <1>4. (\A i \in 1 .. reader.pos : Taken(i))'
    BY <1>1, <1>2, <1>3 DEF ReadShape
  <1>5. CursorBehind'
    BY <1>1, <1>2, <1>3 DEF ReadShape, CursorBehind, Taken
  <1>6. ASSUME call'["worker"].pc = "advance" PROVE Taken(reader.pos + 1)'
    <2>1. CASE call["worker"].pc = "advance"
      <3>1. reader.pos + 1 \in DOMAIN stream
        BY <1>1, <1>3, <2>1 DEF CallShape
      <3> QED BY <1>2, <2>1, <3>1 DEF ReadShape
    <2> QED BY <1>6, <2>1
  <1> QED BY <1>4, <1>5, <1>6 DEF ReadShape

LEMMA ReadShapeStays ==
    ASSUME EvidenceInv, Here, RowShape, ReadShape, [Next]_vars
    PROVE  ReadShape'
  <1>0. /\ IngestTypeOK /\ CallShape /\ IngestShape /\ StoreTypeOK /\ RowsStay
        /\ call \in [Processes -> CallRec] /\ "worker" \in Processes
        /\ stream \in Seq(Contents) /\ reader.pos \in 0 .. Len(stream) /\ Len(stream) \in Nat
        /\ cursor \in 0 .. Len(stream)
    BY RowsStaying DEF EvidenceInv, IngestShape, IngestTypeOK, CallRec, Processes
  <1>1. CASE \/ UNCHANGED ingestVars
             \/ \E p \in Callers : StartCall(p) \/ Ingesting(p) \/ IngestFails(p)
    <2>1. UNCHANGED <<stream, reader, cursor>> /\ UNCHANGED dropped /\ UNCHANGED call["worker"]
      <3>1. CASE UNCHANGED ingestVars
        BY <3>1 DEF ingestVars
      <3>2. CASE \E p \in Callers : StartCall(p) \/ Ingesting(p) \/ IngestFails(p)
        <4>1. PICK p \in Callers : StartCall(p) \/ Ingesting(p) \/ IngestFails(p)
          BY <3>2
        <4>2. p \in Processes /\ p # "worker"
          BY BoundsOfThePipeline DEF Processes
        <4>3. UNCHANGED <<stream, reader, cursor>> /\ UNCHANGED dropped
          BY <4>1, <4>2 DEF StartCall, Ingesting, IngestFails, TooShort, CaptureCheck,
                 CaptureCreate, CaptureWrite, InsertRow, Decide, Err
        <4>4. \E c : call' = [call EXCEPT ![p] = c]
          BY <1>0, <4>1, <4>2
             DEF StartCall, Ingesting, IngestFails, TooShort, CaptureCheck,
                 CaptureCreate, CaptureWrite, InsertRow, Decide, Err, Return, Goto
        <4> QED BY <1>0, <4>2, <4>3, <4>4
      <3> QED BY <1>1, <3>1, <3>2
    <2> QED BY <1>0, <2>1, PlaceStays
  <1>2. CASE Ingesting("worker") \/ IngestFails("worker")
    <2>1. UNCHANGED <<stream, reader, cursor>> /\ dropped \subseteq dropped'
          /\ call["worker"].pc \in {"check", "create", "write", "row", "job"}
      BY <1>2 DEF Ingesting, IngestFails, TooShort, CaptureCheck, CaptureCreate, CaptureWrite,
                  InsertRow, Decide, Err
    <2>2. /\ reader.pos < Len(stream) /\ call["worker"].doc = stream[reader.pos + 1]
          /\ call["worker"].doc \in Contents
      BY <1>0, <2>1 DEF CallShape
    <2>3. call'["worker"].pc = "advance" => Taken(reader.pos + 1)'
      <3>1. CASE dropped' = dropped \cup {reader.pos + 1}
        BY <2>1, <3>1 DEF Taken
      <3>2. CASE docs[call["worker"].doc] # "absent"
        BY <1>0, <2>1, <2>2, <3>2 DEF Taken, RowsStay
      <3>3. CASE \E pc \in {"create", "write", "row", "job"} : Goto("worker", pc)
        <4>1. PICK pc \in {"create", "write", "row", "job"} : Goto("worker", pc)
          BY <3>3
        <4>2. pc \in CallPc
          BY DEF CallPc
        <4> QED BY <1>0, <4>1, <4>2, GotoSets
      <3>4. CASE Decide("worker")
        <4>1. <<"worker", call["worker"].doc>> \in Deciding
          BY <1>0, <2>2, <3>4, DecidingOf DEF Decide
        <4> DEFINE x == <<"worker", call["worker"].doc>>
        <4>2. x \in Deciding /\ x[2] = call["worker"].doc
          BY <4>1
        <4> HIDE DEF x
        <4>3. docs[call["worker"].doc] # "absent"
          BY <4>2 DEF RowShape
        <4> QED BY <3>2, <4>3
      <3> QED BY <1>2, <3>1, <3>2, <3>3, <3>4
              DEF Ingesting, IngestFails, TooShort, Err, CaptureCheck, CaptureCreate,
                  CaptureWrite, InsertRow
    <2> QED BY <1>0, <2>1, <2>2, <2>3, PlaceStays
  <1>3. CASE Publish
    <2>1. PICK d \in Contents : stream' = Append(stream, d)
      BY <1>3 DEF Publish
    <2>2. DOMAIN stream \subseteq DOMAIN stream' /\ \A i \in DOMAIN stream : stream'[i] = stream[i]
      BY <1>0, <2>1
    <2>3. UNCHANGED <<call, cursor, reader, dropped>>
      BY <1>3 DEF Publish
    <2> QED BY <1>0, <2>2, <2>3, PlaceStays
  <1>4. CASE ReadEntry
    <2>1. UNCHANGED <<stream, cursor, reader, dropped>>
      BY <1>4 DEF ReadEntry
    <2>2. call'["worker"].pc # "advance"
      BY <1>0, <1>4 DEF ReadEntry
    <2> QED BY <1>0, <2>1, <2>2, PlaceStays
  <1>5. CASE Advance
    <2>1. UNCHANGED <<stream, cursor, dropped, docs>> /\ Taken(reader.pos + 1)
      BY <1>5 DEF Advance, ReadShape, storeVars
    <2>2. reader'.pos = reader.pos + 1
      <3>1. reader \in [alive : BOOLEAN, pos : 0 .. Len(stream)]
        BY <1>0 DEF IngestTypeOK
      <3> QED BY <1>5, <3>1 DEF Advance
    <2>3. call'["worker"].pc # "advance"
      <3>1. Goto("worker", "store") /\ "store" \in CallPc
        BY <1>5 DEF Advance, CallPc
      <3> QED BY <1>0, <3>1, GotoSets
    <2>4. (\A i \in 1 .. reader.pos : Taken(i))'
      <3>1. ASSUME NEW i \in 1 .. reader.pos + 1 PROVE Taken(i)'
        <4>1. i \in 1 .. reader.pos \/ i = reader.pos + 1
          BY <1>0
        <4>2. Taken(i)
          BY <2>1, <4>1 DEF ReadShape
        <4> QED BY <2>1, <4>2 DEF Taken
      <3> QED BY <2>2, <3>1
    <2>5. CursorBehind'
      BY <2>1 DEF ReadShape, CursorBehind
    <2> QED BY <2>3, <2>4, <2>5 DEF ReadShape
  <1>6. CASE StoreCursor
    <2>1. UNCHANGED <<stream, reader, dropped, docs>> /\ (cursor' = reader.pos \/ UNCHANGED cursor)
      BY <1>6 DEF StoreCursor, storeVars
    <2>2. call'["worker"].pc # "advance"
      BY <1>0, <1>6 DEF StoreCursor, Idle
    <2>3. (\A i \in 1 .. reader.pos : Taken(i))'
      BY <2>1 DEF ReadShape, Taken
    <2>4. CursorBehind'
      BY <2>1 DEF ReadShape, CursorBehind, Taken
    <2> QED BY <2>2, <2>3, <2>4 DEF ReadShape
  <1>7. CASE Restart
    <2>1. UNCHANGED <<stream, cursor, dropped, docs>> /\ call'["worker"].pc # "advance"
      BY <1>0, <1>7 DEF Restart, IngestRestart, Idle
    <2>2. reader'.pos \in {0, cursor}
      BY <1>7 DEF Restart, IngestRestart
    <2>3. CursorBehind'
      BY <2>1 DEF ReadShape, CursorBehind
    <2>4. (\A i \in 1 .. reader.pos : Taken(i))'
      BY <2>1, <2>2, <2>3 DEF CursorBehind, Taken
    <2> QED BY <2>1, <2>3, <2>4 DEF ReadShape
  <1> QED
    <2>1. CASE UNCHANGED vars
      BY <1>1, <2>1 DEF vars
    <2>2. CASE IngestNext
      BY <1>1, <1>2, <1>3, <1>4, <1>5, <1>6, <2>2 DEF IngestNext, StreamWorker, Processes
    <2> QED BY <1>1, <1>7, <2>1, <2>2 DEF Next

-----------------------------------------------------------------------------
\* The invariant and what follows from it.

SafeInv ==
    EvidenceInv /\ RowShape /\ JobShape /\ HandShape /\ QueueShape /\ ReadShape

LEMMA SafeStarts == Init => SafeInv
  <1> SUFFICES ASSUME Init PROVE SafeInv
    OBVIOUS
  <1>1. EvidenceInv
    BY EvidenceStarts
  <1>2. /\ docs = [d \in Contents |-> "absent"] /\ jobs = <<>> /\ w = Asleep
        /\ call = [p \in Processes |-> Idle] /\ cursor = 0
        /\ reader = [alive |-> TRUE, pos |-> 0] /\ "worker" \in Processes
    BY DEF Init, StoreInit, IngestInit, EmbedInit, Processes
  <1>3. Deciding = {} /\ DOMAIN jobs = {} /\ call["worker"].pc = "idle" /\ reader.pos = 0
    BY <1>2 DEF Deciding, Idle
  <1>4. w.pc = "idle" /\ w.job = 0
    BY <1>2, AsleepIs
  <1>5. RowShape /\ JobShape /\ QueueShape
    BY <1>3, <1>4 DEF RowShape, JobShape, QueueShape, AttemptsCounted, QueuedOnce, Trying
  <1>6. HandShape
    BY <1>2, <1>4 DEF HandShape, NoDocumentForgotten
  <1>7. ReadShape
    BY <1>2, <1>3 DEF ReadShape, CursorBehind
  <1> QED BY <1>1, <1>5, <1>6, <1>7 DEF SafeInv

LEMMA SafeStep == SafeInv /\ [Next]_vars => SafeInv'
  <1> SUFFICES ASSUME SafeInv, [Next]_vars PROVE SafeInv'
    OBVIOUS
  <1>1. EvidenceInv /\ EvidenceInv' /\ JobsKept
    BY EvidenceStep DEF SafeInv
  <1>2. Here
    BY <1>1, StepMoves DEF Here
  <1> QED BY <1>1, <1>2, RowShapeStays, JobShapeStays, HandShapeStays, QueueShapeStays,
             ReadShapeStays DEF SafeInv

LEMMA SafeHolds == Spec => []SafeInv
  BY SafeStarts, SafeStep, PTL DEF Spec

\* No document is forgotten: one whose row says PENDING is being decided on by
\* the ingest that inserted it, has a pending job, or is the document of the job
\* at hand, unless a crash or a failed statement struck while it was.
THEOREM NobodyIsForgotten == Spec => []NoDocumentForgotten
  <1>1. SafeInv => NoDocumentForgotten
    BY DEF SafeInv, HandShape
  <1> QED BY <1>1, SafeHolds, PTL

\* ingest_content queues a text once, however many agents push it and however
\* often the stream is read again: INSERT .. ON CONFLICT picks one of them, and
\* only that one queues a job.  (Jobs queued by hand are left out.)
THEOREM OnceIsQueued == ASSUME MaxRequeues = 0 PROVE Spec => []QueuedOnce
  <1>1. SafeInv => QueuedOnce
    BY DEF SafeInv, QueueShape
  <1> QED BY <1>1, SafeHolds, PTL

\* A job is FAILED at its last attempt and no sooner, and a job that is RUNNING
\* is the one at hand unless a crash or a failed UPDATE left it so.
THEOREM AttemptsStayCounted == Spec => []AttemptsCounted
  <1>1. SafeInv => AttemptsCounted
    BY DEF SafeInv, JobShape
  <1> QED BY <1>1, SafeHolds, PTL

\* hub:ingest:lastid never passes an entry that is neither a document nor
\* refused, whenever the worker stops and wherever it starts again.
THEOREM CursorStaysBehind == Spec => []CursorBehind
  <1>1. SafeInv => CursorBehind
    BY DEF SafeInv, ReadShape
  <1> QED BY <1>1, SafeHolds, PTL

\* An entry of the stream is struck: a crash or a failed statement took its
\* document from the call, or from the worker, that had it in hand.
Struck(i) == stream[i] \in cut

\* Somebody has inserted the row of the entry's text and not yet decided on it.
Undecided(i) == \E p \in Processes : <<p, stream[i]>> \in Deciding

\* ReplaySafe, which the code breaks, is broken by what strikes a document
\* between its row and its job and by nothing else: restarts elsewhere, a cursor
\* that was not stored, redelivery and other callers of the same text leave no
\* entry with a pending document and no job.
THEOREM ReplaySafeUnlessStruck ==
    Spec => []((\A i \in DOMAIN stream : ~Struck(i) /\ ~Undecided(i)) => ReplaySafe)
  <1>1. SafeInv => ((\A i \in DOMAIN stream : ~Struck(i) /\ ~Undecided(i)) => ReplaySafe)
    <2> SUFFICES ASSUME SafeInv,
                        \A i \in DOMAIN stream : ~Struck(i) /\ ~Undecided(i),
                        NEW i \in DOMAIN stream, docs[stream[i]] = "PENDING"
                 PROVE  \E j \in DOMAIN jobs : jobs[j].doc = stream[i]
      BY DEF ReplaySafe
    <2> DEFINE d == stream[i]
    <2>1. d \in Contents
      BY DEF SafeInv, EvidenceInv, IngestShape, IngestTypeOK
    <2>2. InHand(d)
      BY <2>1 DEF SafeInv, HandShape, NoDocumentForgotten, Struck
    <2>3. ~\E p \in Processes : call[p].pc = "job" /\ call[p].doc = d
      BY <2>1, DecidingOf DEF Undecided
    <2>4. ASSUME w.pc # "idle", Doc = d PROVE w.job \in DOMAIN jobs /\ jobs[w.job].doc = d
      BY <2>4 DEF SafeInv, EvidenceInv, EmbedShape, WorkerShape, Doc
    <2> QED BY <2>2, <2>3, <2>4 DEF InHand
  <1> QED BY <1>1, SafeHolds, PTL
=============================================================================
