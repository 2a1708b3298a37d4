---------------------------- MODULE EvidenceProofs ----------------------------
(***************************************************************************)
(* Proofs about EvidencePipeline: its types, that vectors have rows and    *)
(* that documents which are DONE have all of theirs, that a chunk with a   *)
(* row is never sent to the API again and none is charged oftener than it  *)
(* was sent, and that what is DONE is searchable unless disturbed.         *)
(***************************************************************************)
EXTENDS EvidencePipeline, FiniteSetTheorems, SequenceTheorems, TLAPS

-----------------------------------------------------------------------------
\* Sets of chunks.

LEMMA BoundsOfThePipeline ==
    /\ MaxFaults \in Nat /\ MaxCalls \in Nat /\ MaxEntries \in Nat
    /\ NumChunks \in Nat \ {0} /\ BatchSize \in Nat \ {0} /\ MaxAttempts \in Nat \ {0}
    /\ MaxOutages \in Nat /\ MaxPauses \in Nat /\ MaxRequeues \in Nat
    /\ Modes \subseteq {"auto", "force", "skip"} /\ None \notin Contents
    /\ "worker" \notin Callers
  BY FaultsAssumption, IngestAssumption, EmbedAssumption

LEMMA ChunksAreFinite ==
    ASSUME NEW S \in SUBSET ChunkIx
    PROVE  IsFiniteSet(S) /\ Cardinality(S) \in 0 .. NumChunks /\ (Cardinality(S) = 0 => S = {})
  <1>1. IsFiniteSet(ChunkIx) /\ Cardinality(ChunkIx) = NumChunks
    BY BoundsOfThePipeline, FS_Interval DEF ChunkIx
  <1>2. IsFiniteSet(S) /\ Cardinality(S) <= NumChunks
    BY <1>1, FS_Subset
  <1>3. Cardinality(S) \in Nat
    BY <1>2, FS_CardinalityType
  <1> QED BY <1>2, <1>3, FS_EmptySet, BoundsOfThePipeline

\* The first chunk of a set with one is all of it.
LEMMA FirstOfOne ==
    ASSUME NEW S \in SUBSET ChunkIx, Cardinality(S) <= 1
    PROVE  First(S, 1) = S
  <1>1. ASSUME NEW i \in S PROVE Cardinality({j \in S : j < i}) < 1
    <2> DEFINE T == {j \in S : j < i}
    <2>0. IsFiniteSet(S) /\ Cardinality(S) \in Nat
      BY ChunksAreFinite
    <2>1. S \ {i} \in SUBSET ChunkIx /\ IsFiniteSet(S \ {i}) /\ Cardinality(S \ {i}) = Cardinality(S) - 1
      BY <2>0, <1>1, FS_RemoveElement
    <2>2. Cardinality(S \ {i}) \in Nat /\ Cardinality(S \ {i}) <= 0
      BY <2>0, <2>1, FS_CardinalityType
    <2>3. T \in SUBSET (S \ {i})
      BY DEF ChunkIx
    <2>4. Cardinality(T) <= Cardinality(S \ {i}) /\ IsFiniteSet(T)
      BY <2>1, <2>3, FS_Subset
    <2>5. Cardinality(T) \in Nat
      BY <2>4, FS_CardinalityType
    <2> QED BY <2>2, <2>4, <2>5
  <1> QED BY <1>1 DEF First

-----------------------------------------------------------------------------
\* The tables.

\* What no step takes back: jobs keep their place and their document.
JobsKept ==
    /\ jobs' \in Seq(Job) /\ Len(jobs') >= Len(jobs)
    /\ \A i \in DOMAIN jobs : i \in DOMAIN jobs' /\ jobs'[i].doc = jobs[i].doc

LEMMA JobsSame == ASSUME jobs \in Seq(Job), UNCHANGED jobs PROVE JobsKept
  BY DEF JobsKept

LEMMA JobAdded ==
    ASSUME jobs \in Seq(Job), NEW d \in Contents, NEW force \in BOOLEAN,
           jobs' = Append(jobs, NewJob(d, force))
    PROVE  /\ JobsKept /\ Len(jobs') = Len(jobs) + 1
           /\ \A i \in DOMAIN jobs : jobs'[i] = jobs[i]
           /\ jobs'[Len(jobs')] = NewJob(d, force)
           /\ DOMAIN jobs' = DOMAIN jobs \cup {Len(jobs')}
  <1>1. NewJob(d, force) \in Job
    BY DEF NewJob, Job, JobStatus
  <1> QED BY <1>1 DEF JobsKept

LEMMA JobWritten ==
    ASSUME jobs \in Seq(Job), NEW k \in DOMAIN jobs, NEW row \in Job, row.doc = jobs[k].doc,
           jobs' = [jobs EXCEPT ![k] = row]
    PROVE  /\ JobsKept /\ Len(jobs') = Len(jobs) /\ DOMAIN jobs' = DOMAIN jobs
           /\ \A i \in DOMAIN jobs : jobs'[i] = IF i = k THEN row ELSE jobs[i]
  BY DEF JobsKept

\* UPDATE embedding_jobs SET status.
LEMMA StatusWritten ==
    ASSUME jobs \in Seq(Job), NEW k \in DOMAIN jobs, NEW s \in JobStatus,
           jobs' = [jobs EXCEPT ![k].status = s]
    PROVE  /\ JobsKept /\ Len(jobs') = Len(jobs) /\ DOMAIN jobs' = DOMAIN jobs
           /\ \A i \in DOMAIN jobs : i # k => jobs'[i] = jobs[i]
           /\ jobs'[k].status = s /\ jobs'[k].attempts = jobs[k].attempts
           /\ jobs'[k].force = jobs[k].force
  <1> DEFINE row == [jobs[k] EXCEPT !.status = s]
  <1>1. row \in Job /\ row.doc = jobs[k].doc /\ row.status = s
        /\ row.attempts = jobs[k].attempts /\ row.force = jobs[k].force
    <2>1. jobs[k] \in Job
      OBVIOUS
    <2> QED BY <2>1 DEF Job
  <1>2. jobs' = [jobs EXCEPT ![k] = row]
    OBVIOUS
  <1> HIDE DEF row
  <1> QED BY <1>1, <1>2, JobWritten

\* The same, with attempts = attempts + 1.
LEMMA AttemptWritten ==
    ASSUME jobs \in Seq(Job), NEW k \in DOMAIN jobs, NEW s \in JobStatus,
           jobs' = [jobs EXCEPT ![k].status = s, ![k].attempts = @ + 1]
    PROVE  /\ JobsKept /\ Len(jobs') = Len(jobs) /\ DOMAIN jobs' = DOMAIN jobs
           /\ \A i \in DOMAIN jobs : i # k => jobs'[i] = jobs[i]
           /\ jobs'[k].status = s /\ jobs'[k].attempts = jobs[k].attempts + 1
  <1> DEFINE attempts == jobs[k].attempts + 1
             row == [jobs[k] EXCEPT !.status = s, !.attempts = attempts]
  <1>0. jobs[k] \in Job /\ attempts \in Nat
    <2>1. jobs[k] \in Job
      OBVIOUS
    <2> QED BY <2>1 DEF Job
  <1>1. jobs' = [jobs EXCEPT ![k] = row]
    BY <1>0
  <1>2. row \in Job /\ row.doc = jobs[k].doc /\ row.status = s /\ row.attempts = attempts
    <2> HIDE DEF attempts
    <2> QED BY <1>0 DEF Job
  <1> HIDE DEF row
  <1> QED BY <1>1, <1>2, JobWritten

LEMMA FaultCounts ==
    ASSUME faults \in 0 .. MaxFaults, cut \subseteq Contents, NEW lost \in SUBSET Contents,
           Fault(lost)
    PROVE  faults' \in 0 .. MaxFaults /\ cut' \subseteq Contents /\ cut \subseteq cut'
           /\ lost \subseteq cut'
  BY BoundsOfThePipeline DEF Fault

-----------------------------------------------------------------------------
\* Ingest.

CallRec == [pc : CallPc, doc : Contents \cup {None}, mode : {"auto", "force", "skip"}]

LEMMA IdleType == Idle \in CallRec
  BY DEF Idle, CallRec, CallPc

\* A call at work has its text; that of the stream worker is the entry it read.
CallShape ==
    /\ \A p \in Processes : call[p].pc # "idle" => call[p].doc \in Contents
    /\ call["worker"].pc \notin {"idle", "store"} =>
           reader.pos < Len(stream) /\ call["worker"].doc = stream[reader.pos + 1]

IngestShape == IngestTypeOK /\ CallShape

LEMMA CallSet ==
    ASSUME call \in [Processes -> CallRec], NEW p \in Processes, NEW c \in CallRec,
           call' = [call EXCEPT ![p] = c]
    PROVE  /\ call' \in [Processes -> CallRec] /\ call'[p] = c
           /\ \A q \in Processes \ {p} : call'[q] = call[q]
  OBVIOUS

LEMMA GotoSets ==
    ASSUME call \in [Processes -> CallRec], NEW p \in Processes, NEW pc \in CallPc, Goto(p, pc)
    PROVE  /\ call' \in [Processes -> CallRec]
           /\ call'[p].pc = pc /\ call'[p].doc = call[p].doc /\ call'[p].mode = call[p].mode
           /\ \A q \in Processes \ {p} : call'[q] = call[q]
  <1> DEFINE c == [call[p] EXCEPT !.pc = pc]
  <1>1. c \in CallRec /\ c.pc = pc /\ c.doc = call[p].doc /\ c.mode = call[p].mode
    <2>1. call[p] \in CallRec
      OBVIOUS
    <2> QED BY <2>1 DEF CallRec
  <1>2. call' = [call EXCEPT ![p] = c]
    BY DEF Goto
  <1> HIDE DEF c
  <1> QED BY <1>1, <1>2, CallSet

LEMMA ReturnSets ==
    ASSUME call \in [Processes -> CallRec], NEW p \in Processes, Return(p)
    PROVE  /\ call' \in [Processes -> CallRec]
           /\ p # "worker" => call'[p] = Idle
           /\ p = "worker" => call'[p].pc = "advance" /\ call'[p].doc = call[p].doc
           /\ \A q \in Processes \ {p} : call'[q] = call[q]
  <1>1. CASE p = "worker"
    <2>1. Goto(p, "advance") /\ "advance" \in CallPc
      BY <1>1 DEF Return, Goto, CallPc
    <2> QED BY <1>1, <2>1, GotoSets
  <1>2. CASE p # "worker"
    <2>1. call' = [call EXCEPT ![p] = Idle]
      BY <1>2 DEF Return
    <2> QED BY <1>2, <2>1, IdleType, CallSet
  <1> QED BY <1>1, <1>2

\* A call that goes on, or returns, leaves the shape of the calls alone.
LEMMA CallGoesOn ==
    ASSUME IngestShape, NEW p \in Processes, call[p].pc \notin {"idle", "advance", "store"},
           UNCHANGED <<calls, stream, cursor, reader>>,
           raw' \in [Contents -> {"none", "partial", "whole"}],
           \/ Return(p)
           \/ \E pc \in {"create", "write", "row", "job"} : Goto(p, pc),
           dropped' = dropped \/ (p = "worker" /\ dropped' = dropped \cup {reader.pos + 1})
    PROVE  IngestShape'
  <1>0. call \in [Processes -> CallRec] /\ IngestTypeOK /\ CallShape
    BY DEF IngestShape, IngestTypeOK, CallRec
  <1>1. /\ call' \in [Processes -> CallRec]
        /\ \A q \in Processes \ {p} : call'[q] = call[q]
        /\ call'[p].pc # "idle" => call'[p].doc = call[p].doc
    <2>1. CASE Return(p)
      BY <1>0, <2>1, ReturnSets DEF Idle
    <2>2. CASE \E pc \in {"create", "write", "row", "job"} : Goto(p, pc)
      <3>1. PICK pc \in {"create", "write", "row", "job"} : Goto(p, pc)
        BY <2>2
      <3>2. pc \in CallPc
        BY DEF CallPc
      <3> QED BY <1>0, <3>1, <3>2, GotoSets
    <2> QED BY <2>1, <2>2
  <1>2. CallShape'
    <2>1. ASSUME NEW q \in Processes, call'[q].pc # "idle" PROVE call'[q].doc \in Contents
      BY <1>0, <1>1, <2>1 DEF CallShape
    <2>2. ASSUME call'["worker"].pc \notin {"idle", "store"}
          PROVE  reader'.pos < Len(stream') /\ call'["worker"].doc = stream'[reader'.pos + 1]
      <3>1. "worker" \in Processes
        BY DEF Processes
      <3>2. call["worker"].pc \notin {"idle", "store"} /\ call'["worker"].doc = call["worker"].doc
        BY <1>1, <2>2, <3>1
      <3> QED BY <1>0, <3>2 DEF CallShape
    <2> QED BY <2>1, <2>2 DEF CallShape
  <1>3. dropped' \subseteq DOMAIN stream
    <2>1. p = "worker" => reader.pos + 1 \in DOMAIN stream
      BY <1>0 DEF CallShape, IngestTypeOK
    <2> QED BY <1>0, <2>1 DEF IngestTypeOK
  <1>4. IngestTypeOK'
    BY <1>0, <1>1, <1>3 DEF IngestTypeOK, CallRec
  <1> QED BY <1>2, <1>4 DEF IngestShape

\* What ingest does to the tables: it marks no document DONE.
IngestWrites ==
    /\ StoreTypeOK' /\ JobsKept
    /\ \A d \in Contents : docs'[d] = "DONE" => docs[d] = "DONE"

LEMMA StoreStays == ASSUME StoreTypeOK, UNCHANGED storeVars PROVE IngestWrites
  BY JobsSame DEF StoreTypeOK, storeVars, IngestWrites

LEMMA StatusOfDoc ==
    ASSUME docs \in [Contents -> DocStatus], NEW d \in Contents, NEW s \in DocStatus,
           docs' = [docs EXCEPT ![d] = s]
    PROVE  /\ docs' \in [Contents -> DocStatus] /\ docs'[d] = s
           /\ \A o \in Contents \ {d} : docs'[o] = docs[o]
  OBVIOUS

\* The steps of a call.
LEMMA IngestingDone ==
    ASSUME StoreTypeOK, IngestShape, NEW p \in Processes, Ingesting(p)
    PROVE  IngestWrites /\ IngestShape'
  <1> DEFINE d == call[p].doc
  <1>0. /\ IngestTypeOK /\ CallShape /\ call[p] \in CallRec
        /\ call[p].pc \in {"check", "create", "write", "row", "job"}
        /\ raw \in [Contents -> {"none", "partial", "whole"}]
    BY DEF IngestShape, IngestTypeOK, CallRec, Ingesting, TooShort, CaptureCheck,
           CaptureCreate, CaptureWrite, InsertRow, Decide
  <1>1. d \in Contents
    BY <1>0 DEF CallShape
  <1> HIDE DEF d
  <1>2. CASE TooShort(p)
    <2>1. /\ Return(p) /\ UNCHANGED <<storeVars, raw, calls, stream, cursor, reader>>
          /\ dropped' = dropped \/ (p = "worker" /\ dropped' = dropped \cup {reader.pos + 1})
      BY <1>2 DEF TooShort, Err
    <2> QED BY <1>0, <2>1, CallGoesOn, StoreStays
  <1>3. CASE CaptureCheck(p)
    <2>1. /\ \E pc \in {"create", "write", "row", "job"} : Goto(p, pc)
          /\ UNCHANGED <<storeVars, raw, calls, stream, cursor, reader, dropped>>
      BY <1>3 DEF CaptureCheck
    <2> QED BY <1>0, <2>1, CallGoesOn, StoreStays
  <1>4. CASE CaptureCreate(p) \/ CaptureWrite(p)
    <2>1. /\ \E pc \in {"create", "write", "row", "job"} : Goto(p, pc)
          /\ UNCHANGED <<storeVars, calls, stream, cursor, reader, dropped>>
          /\ \E s \in {"partial", "whole"} : raw' = [raw EXCEPT ![d] = s]
      BY <1>4 DEF CaptureCreate, CaptureWrite, d
    <2>2. raw' \in [Contents -> {"none", "partial", "whole"}]
      BY <1>0, <2>1
    <2> QED BY <1>0, <2>1, <2>2, CallGoesOn, StoreStays
  <1>5. CASE InsertRow(p)
    <2>1. /\ Return(p) \/ (\E pc \in {"create", "write", "row", "job"} : Goto(p, pc))
          /\ UNCHANGED <<jobs, faults, cut, raw, calls, stream, cursor, reader, dropped>>
          /\ docs' = docs \/ docs' = [docs EXCEPT ![d] = "PENDING"]
      BY <1>5 DEF InsertRow, d
    <2>2. IngestWrites
      <3>1. /\ docs' \in [Contents -> DocStatus]
            /\ \A o \in Contents : docs'[o] = "DONE" => docs[o] = "DONE"
        BY <1>1, <2>1, StatusOfDoc DEF StoreTypeOK, DocStatus
      <3> QED BY <2>1, <3>1, JobsSame DEF StoreTypeOK, IngestWrites
    <2> QED BY <1>0, <2>1, <2>2, CallGoesOn
  <1>6. CASE Decide(p)
    <2>1. /\ Return(p) /\ UNCHANGED <<faults, cut, raw, calls, stream, cursor, reader, dropped>>
          /\ \/ docs' = [docs EXCEPT ![d] = "SKIPPED"] /\ UNCHANGED jobs
             \/ jobs' = Append(jobs, NewJob(d, call[p].mode = "force")) /\ UNCHANGED docs
      BY <1>6 DEF Decide, d
    <2>2. JobsKept
      BY <1>1, <2>1, JobsSame, JobAdded DEF StoreTypeOK
    <2>3. /\ docs' \in [Contents -> DocStatus]
          /\ \A o \in Contents : docs'[o] = "DONE" => docs[o] = "DONE"
      BY <1>1, <2>1, StatusOfDoc DEF StoreTypeOK, DocStatus
    <2>4. IngestWrites
      BY <2>1, <2>2, <2>3 DEF StoreTypeOK, IngestWrites, JobsKept
    <2> QED BY <1>0, <2>1, <2>4, CallGoesOn
  <1> QED BY <1>2, <1>3, <1>4, <1>5, <1>6 DEF Ingesting

\* The other steps of ingest.
LEMMA StartCallDone ==
    ASSUME StoreTypeOK, IngestShape, NEW p \in Callers, StartCall(p)
    PROVE  IngestWrites /\ IngestShape'
  <1>0. /\ IngestTypeOK /\ CallShape /\ call \in [Processes -> CallRec]
        /\ p \in Processes /\ p # "worker" /\ "worker" \in Processes
    BY BoundsOfThePipeline DEF IngestShape, IngestTypeOK, CallRec, Processes
  <1>1. PICK d \in Contents, m \in Modes :
            call' = [call EXCEPT ![p] = [pc |-> "check", doc |-> d, mode |-> m]]
    BY DEF StartCall
  <1>2. [pc |-> "check", doc |-> d, mode |-> m] \in CallRec
    BY BoundsOfThePipeline DEF CallRec, CallPc
  <1>3. /\ call' \in [Processes -> CallRec] /\ call'[p].doc = d
        /\ \A q \in Processes \ {p} : call'[q] = call[q]
    BY <1>0, <1>1, <1>2, CallSet
  <1>4. CallShape'
    BY <1>0, <1>3 DEF CallShape, StartCall
  <1>5. calls' \in 0 .. MaxCalls
    BY <1>0, BoundsOfThePipeline DEF StartCall, IngestTypeOK
  <1>6. IngestTypeOK'
    BY <1>0, <1>3, <1>5 DEF IngestTypeOK, StartCall, CallRec
  <1> QED BY <1>4, <1>6, StoreStays DEF IngestShape, StartCall

LEMMA StreamDone ==
    ASSUME StoreTypeOK, IngestShape, Publish \/ ReadEntry \/ Advance \/ StoreCursor
    PROVE  IngestWrites /\ IngestShape'
  <1>0. /\ IngestTypeOK /\ CallShape /\ call \in [Processes -> CallRec]
        /\ "worker" \in Processes
        /\ stream \in Seq(Contents) /\ Len(stream) \in Nat
        /\ reader.pos \in 0 .. Len(stream) /\ reader.alive \in BOOLEAN
    BY DEF IngestShape, IngestTypeOK, CallRec, Processes
  <1>1. CASE Publish
    <2>1. PICK d \in Contents : stream' = Append(stream, d)
      BY <1>1 DEF Publish
    <2>2. /\ stream' \in Seq(Contents) /\ Len(stream') = Len(stream) + 1
          /\ DOMAIN stream \subseteq DOMAIN stream'
          /\ \A i \in 1 .. Len(stream) : stream'[i] = stream[i]
      BY <1>0, <2>1
    <2>3. UNCHANGED <<storeVars, raw, call, calls, cursor, reader, dropped>>
      BY <1>1 DEF Publish
    <2>4. CallShape'
      BY <1>0, <2>2, <2>3 DEF CallShape
    <2>5. /\ Len(stream') <= MaxEntries /\ cursor' \in 0 .. Len(stream')
          /\ reader' \in [alive : BOOLEAN, pos : 0 .. Len(stream')]
      BY <1>0, <1>1, <2>2, <2>3, BoundsOfThePipeline DEF Publish, IngestTypeOK
    <2>6. dropped' \subseteq DOMAIN stream'
      BY <1>0, <2>2, <2>3 DEF IngestTypeOK
    <2>7. IngestTypeOK'
      BY <1>0, <2>2, <2>3, <2>5, <2>6 DEF IngestTypeOK
    <2> QED BY <2>3, <2>4, <2>7, StoreStays DEF IngestShape
  <1>2. CASE ReadEntry
    <2> DEFINE c == [pc |-> "check", doc |-> stream[reader.pos + 1], mode |-> "auto"]
    <2>1. reader.pos + 1 \in 1 .. Len(stream) /\ reader.pos < Len(stream)
      BY <1>0, <1>2 DEF ReadEntry
    <2>2. c \in CallRec /\ c.doc \in Contents
      BY <1>0, <2>1 DEF CallRec, CallPc
    <2>3. /\ call' \in [Processes -> CallRec] /\ call'["worker"] = c
          /\ \A q \in Processes \ {"worker"} : call'[q] = call[q]
      BY <1>0, <1>2, <2>2, CallSet DEF ReadEntry
    <2>4. UNCHANGED <<storeVars, raw, calls, stream, cursor, reader, dropped>>
      BY <1>2 DEF ReadEntry
    <2>5. CallShape'
      BY <1>0, <2>1, <2>2, <2>3, <2>4 DEF CallShape
    <2>6. IngestTypeOK'
      BY <1>0, <2>3, <2>4 DEF IngestTypeOK, CallRec
    <2> QED BY <2>4, <2>5, <2>6, StoreStays DEF IngestShape
  <1>3. CASE Advance
    <2>1. reader.pos < Len(stream)
      BY <1>0, <1>3 DEF Advance, CallShape
    <2>2. reader' \in [alive : BOOLEAN, pos : 0 .. Len(stream)]
      <3> DEFINE pos == reader.pos + 1
      <3>1. pos \in 0 .. Len(stream) /\ reader' = [reader EXCEPT !.pos = pos]
        BY <1>0, <1>3, <2>1 DEF Advance
      <3> HIDE DEF pos
      <3>2. reader \in [alive : BOOLEAN, pos : 0 .. Len(stream)]
        BY <1>0 DEF IngestTypeOK
      <3> QED BY <3>1, <3>2
    <2>3. /\ call' \in [Processes -> CallRec] /\ call'["worker"].pc = "store"
          /\ call'["worker"].doc = call["worker"].doc
          /\ \A q \in Processes \ {"worker"} : call'[q] = call[q]
      <3>1. Goto("worker", "store") /\ "store" \in CallPc
        BY <1>3 DEF Advance, CallPc
      <3> QED BY <1>0, <3>1, GotoSets
    <2>4. UNCHANGED <<storeVars, raw, calls, stream, cursor, dropped>>
      BY <1>3 DEF Advance
    <2>5. CallShape'
      BY <1>0, <1>3, <2>3, <2>4 DEF CallShape, Advance
    <2>6. IngestTypeOK'
      BY <1>0, <2>2, <2>3, <2>4 DEF IngestTypeOK, CallRec
    <2> QED BY <2>4, <2>5, <2>6, StoreStays DEF IngestShape
  <1>4. CASE StoreCursor
    <2>1. /\ call' \in [Processes -> CallRec] /\ call'["worker"] = Idle
          /\ \A q \in Processes \ {"worker"} : call'[q] = call[q]
      <3>1. call' = [call EXCEPT !["worker"] = Idle]
        BY <1>4 DEF StoreCursor
      <3> QED BY <1>0, <3>1, IdleType, CallSet
    <2>2. UNCHANGED <<raw, calls, stream, reader, dropped, docs, jobs>>
      BY <1>4 DEF StoreCursor, storeVars
    <2>3. CallShape'
      BY <1>0, <2>1, <2>2 DEF CallShape, Idle
    <2>4. cursor' \in 0 .. Len(stream)
      BY <1>0, <1>4 DEF StoreCursor, IngestTypeOK
    <2>5. IngestTypeOK'
      BY <1>0, <2>1, <2>2, <2>4 DEF IngestTypeOK, CallRec
    <2>6. faults' \in 0 .. MaxFaults /\ cut' \subseteq Contents
      <3>1. CASE UNCHANGED storeVars
        BY <3>1 DEF storeVars, StoreTypeOK
      <3>2. CASE Fault({})
        BY <3>2, FaultCounts DEF StoreTypeOK
      <3> QED BY <1>4, <3>1, <3>2 DEF StoreCursor
    <2>7. IngestWrites
      BY <2>2, <2>6, JobsSame DEF IngestWrites, StoreTypeOK
    <2> QED BY <2>3, <2>5, <2>7 DEF IngestShape
  <1> QED BY <1>1, <1>2, <1>3, <1>4

LEMMA IngestFailsDone ==
    ASSUME StoreTypeOK, IngestShape, NEW p \in Processes, IngestFails(p)
    PROVE  IngestWrites /\ IngestShape'
  <1>1. /\ call[p].pc \in {"create", "write", "row", "job"} /\ Return(p)
        /\ UNCHANGED <<docs, jobs, raw, calls, stream, cursor, reader>>
        /\ dropped' = dropped \/ (p = "worker" /\ dropped' = dropped \cup {reader.pos + 1})
    BY DEF IngestFails, Err
  <1>2. /\ call[p].doc \in Contents /\ raw \in [Contents -> {"none", "partial", "whole"}]
    BY <1>1 DEF IngestShape, IngestTypeOK, CallShape
  <1>3. IngestShape'
    BY <1>1, <1>2, CallGoesOn
  <1>4. faults' \in 0 .. MaxFaults /\ cut' \subseteq Contents
    <2> DEFINE lost == IF call[p].pc = "job" THEN {call[p].doc} ELSE {}
    <2>1. lost \in SUBSET Contents /\ Fault(lost)
      BY <1>2 DEF IngestFails
    <2> HIDE DEF lost
    <2> QED BY <2>1, FaultCounts DEF StoreTypeOK
  <1>5. IngestWrites
    BY <1>1, <1>4, JobsSame DEF IngestWrites, StoreTypeOK
  <1> QED BY <1>3, <1>5

LEMMA IngestNextDone ==
    ASSUME StoreTypeOK, IngestShape, IngestNext PROVE IngestWrites /\ IngestShape'
  <1>1. "worker" \in Processes /\ Callers \subseteq Processes
    BY DEF Processes
  <1> QED BY <1>1, IngestingDone, StartCallDone, StreamDone, IngestFailsDone
          DEF IngestNext, StreamWorker

-----------------------------------------------------------------------------
\* The worker.

WorkerRec ==
    [pc : WorkerPc, job : Nat, todo : SUBSET ChunkIx, batch : SUBSET ChunkIx,
     billed : SUBSET ChunkIx, outcome : {"DONE", "SKIPPED"}]

Embedding == {"embed", "rows", "upsert"}

\* What the worker has in hand: the chunks on its list but not of its batch have
\* no row, the chunks off its list have one, and so have those it upserts.
WorkerShape ==
    /\ w \in WorkerRec
    /\ w.job <= Len(jobs)
    /\ w.pc # "idle" => w.job \in DOMAIN jobs
    /\ w.pc \in {"gate", "decide"} => w.billed = {}
    /\ w.pc \in {"gate", "decide", "embed"} => w.batch = {}
    /\ w.pc = "mark" => w.todo = {}
    /\ w.pc \in Embedding => w.batch \subseteq w.todo

ChunkShape ==
    /\ VectorsHaveRows
    /\ w.pc = "upsert" => \A i \in w.batch : <<Doc, i>> \in rows
    /\ w.pc \in Embedding => \A i \in w.todo \ w.batch : <<Doc, i>> \notin rows
    /\ w.pc \in Embedding \cup {"mark"} => \A i \in ChunkIx \ w.todo : <<Doc, i>> \in rows

RowTypes == rows \subseteq Chunk /\ points \subseteq Chunk
MeterTypes == sent \in [Chunk -> Nat] /\ metered \in [Chunk -> Nat]
ServiceTypes ==
    /\ api \in BOOLEAN /\ qdrant \in BOOLEAN /\ paused \in BOOLEAN
    /\ env \in [outages : 0 .. MaxOutages, pauses : 0 .. MaxPauses,
                requeues : 0 .. MaxRequeues]

EmbedShape ==
    /\ RowTypes /\ MeterTypes /\ ServiceTypes
    /\ WorkerShape /\ ChunkShape /\ DoneHasRows

\* The document at hand stays the one it is.
LEMMA SameDoc ==
    ASSUME JobsKept, w.pc # "idle", WorkerShape, w'.job = w.job
    PROVE  Doc' = Doc
  BY DEF JobsKept, WorkerShape, Doc

LEMMA SameJobDoc == ASSUME UNCHANGED jobs, w'.job = w.job PROVE Doc' = Doc
  BY DEF Doc

LEMMA DocInContents ==
    ASSUME StoreTypeOK, WorkerShape, w.pc # "idle" PROVE Doc \in Contents /\ jobs[w.job] \in Job
  <1>1. w.job \in DOMAIN jobs /\ jobs \in Seq(Job)
    BY DEF WorkerShape, StoreTypeOK
  <1>2. jobs[w.job] \in Job
    BY <1>1
  <1> QED BY <1>2 DEF Doc, Job

LEMMA AsleepType == Asleep \in WorkerRec /\ Asleep.pc = "idle" /\ Asleep.job = 0
  BY BoundsOfThePipeline DEF Asleep, WorkerRec, WorkerPc

\* A worker that sleeps holds nothing.
LEMMA Sleeps ==
    ASSUME w' = Asleep, JobsKept, jobs \in Seq(Job), VectorsHaveRows'
    PROVE  WorkerShape' /\ ChunkShape'
  <1>1. Len(jobs') \in Nat /\ Len(jobs) \in Nat
    BY DEF JobsKept
  <1>2. /\ w' \in WorkerRec /\ w'.pc = "idle" /\ w'.job = 0
    BY AsleepType
  <1> QED BY <1>1, <1>2 DEF WorkerShape, ChunkShape, Embedding

\* Steps beside the worker.
LEMMA Aside ==
    ASSUME StoreTypeOK, EmbedShape, JobsKept, UNCHANGED <<w, rows, points, sent, metered>>,
           ServiceTypes', \A d \in Contents : docs'[d] = "DONE" => docs[d] = "DONE"
    PROVE  EmbedShape'
  <1>1. jobs \in Seq(Job) /\ Len(jobs) \in Nat /\ Len(jobs') \in Nat /\ w.job \in Nat
    BY DEF StoreTypeOK, EmbedShape, WorkerShape, WorkerRec, JobsKept
  <1>2. w.pc # "idle" => Doc' = Doc
    BY SameDoc DEF EmbedShape
  <1>3. WorkerShape'
    BY <1>1 DEF EmbedShape, WorkerShape, JobsKept
  <1>4. ChunkShape'
    BY <1>2 DEF EmbedShape, ChunkShape, VectorsHaveRows, Embedding
  <1>5. DoneHasRows' /\ RowTypes' /\ MeterTypes'
    BY DEF EmbedShape, DoneHasRows, RowTypes, MeterTypes
  <1> QED BY <1>3, <1>4, <1>5 DEF EmbedShape

LEMMA WorkerGoto ==
    ASSUME w \in WorkerRec, NEW pc \in WorkerPc, EmbedGoto(pc)
    PROVE  /\ w' \in WorkerRec /\ w'.pc = pc /\ w'.job = w.job /\ w'.todo = w.todo
           /\ w'.batch = w.batch /\ w'.billed = w.billed
  BY DEF WorkerRec, EmbedGoto

\* What a step of the worker establishes.
EmbedDone ==
    /\ StoreTypeOK' /\ JobsKept
    /\ RowTypes' /\ MeterTypes' /\ WorkerShape' /\ ChunkShape' /\ DoneHasRows'

\* What the steps of the worker start from.
EmbedHere ==
    /\ StoreTypeOK /\ EmbedShape /\ w \in WorkerRec /\ jobs \in Seq(Job)
    /\ docs \in [Contents -> DocStatus] /\ VectorsHaveRows

LEMMA ShapeOfWorker == StoreTypeOK /\ EmbedShape => EmbedHere
  BY DEF StoreTypeOK, EmbedShape, WorkerShape, ChunkShape, EmbedHere

LEMMA ClaimDone == ASSUME EmbedHere, Claim PROVE EmbedDone
  <1>1. PICK i \in Pending :
            /\ jobs' = [jobs EXCEPT ![i].status = "RUNNING"]
            /\ w' = [Asleep EXCEPT !.pc = "gate", !.job = i]
    BY DEF Claim
  <1>2. i \in DOMAIN jobs /\ "RUNNING" \in JobStatus /\ i \in Nat /\ i <= Len(jobs)
    BY DEF Pending, EmbedHere, JobStatus
  <1>3. JobsKept /\ Len(jobs') = Len(jobs) /\ DOMAIN jobs' = DOMAIN jobs
    BY <1>1, <1>2, StatusWritten DEF EmbedHere
  <1>4. /\ w' \in WorkerRec /\ w'.pc = "gate" /\ w'.job = i /\ w'.billed = {} /\ w'.batch = {}
    BY <1>1, <1>2, AsleepType DEF Asleep, WorkerRec, WorkerPc
  <1>5. UNCHANGED <<docs, faults, cut, rows, points, sent, metered>>
    BY DEF Claim
  <1>6. WorkerShape'
    BY <1>2, <1>3, <1>4 DEF WorkerShape, Embedding
  <1>7. ChunkShape' /\ DoneHasRows' /\ RowTypes' /\ MeterTypes'
    BY <1>4, <1>5 DEF EmbedHere, EmbedShape, ChunkShape, DoneHasRows, RowTypes, MeterTypes,
                      VectorsHaveRows, Embedding
  <1>8. StoreTypeOK'
    BY <1>3, <1>5 DEF EmbedHere, StoreTypeOK, JobsKept
  <1> QED BY <1>3, <1>6, <1>7, <1>8 DEF EmbedDone

\* The worker lays the job down: the tables of chunks stay.
LEMMA LaysDown ==
    ASSUME EmbedHere, w' = Asleep, JobsKept, UNCHANGED <<rows, points, sent, metered>>,
           docs' \in [Contents -> DocStatus],
           \A d \in Contents : docs'[d] = "DONE" => docs[d] = "DONE",
           faults' \in 0 .. MaxFaults, cut' \subseteq Contents
    PROVE  EmbedDone
  <1>1. VectorsHaveRows' /\ DoneHasRows' /\ RowTypes' /\ MeterTypes'
    BY DEF EmbedHere, EmbedShape, DoneHasRows, RowTypes, MeterTypes, VectorsHaveRows
  <1>2. WorkerShape' /\ ChunkShape'
    BY <1>1, Sleeps DEF EmbedHere
  <1>3. StoreTypeOK'
    BY DEF StoreTypeOK, JobsKept
  <1> QED BY <1>1, <1>2, <1>3 DEF EmbedDone

\* The worker goes on with the same job outside the embedding of chunks.
LEMMA MovesOn ==
    ASSUME EmbedHere, w.pc # "idle", JobsKept, UNCHANGED <<rows, points, sent, metered>>,
           w' \in WorkerRec, w'.job = w.job,
           w'.pc \in {"decide", "settle", "error", "doc_failed"},
           w'.pc = "decide" => w.pc = "gate" /\ w'.billed = w.billed /\ w'.batch = w.batch,
           docs' \in [Contents -> DocStatus],
           \A d \in Contents : docs'[d] = "DONE" => docs[d] = "DONE" \/ (d = Doc /\ w.pc = "mark"),
           faults' \in 0 .. MaxFaults, cut' \subseteq Contents
    PROVE  EmbedDone
  <1>1. VectorsHaveRows' /\ RowTypes' /\ MeterTypes'
    BY DEF EmbedHere, EmbedShape, RowTypes, MeterTypes, VectorsHaveRows
  <1>2. Len(jobs) \in Nat /\ Len(jobs') \in Nat /\ Len(jobs') >= Len(jobs) /\ w.job \in Nat
    BY DEF EmbedHere, WorkerRec, JobsKept
  <1>3. WorkerShape'
    BY <1>2 DEF EmbedHere, EmbedShape, WorkerShape, JobsKept, Embedding
  <1>4. ChunkShape'
    BY <1>1 DEF ChunkShape, Embedding
  <1>5. DoneHasRows'
    <2>1. w.pc = "mark" => Of(Doc, ChunkIx) \subseteq rows
      BY DEF EmbedHere, EmbedShape, ChunkShape, WorkerShape, Of
    <2>2. ASSUME NEW d \in Contents, docs'[d] = "DONE" PROVE Of(d, ChunkIx) \subseteq rows'
      <3>1. CASE docs[d] = "DONE"
        BY <3>1 DEF EmbedHere, EmbedShape, DoneHasRows
      <3>2. CASE d = Doc /\ w.pc = "mark"
        BY <2>1, <3>2
      <3> QED BY <2>2, <3>1, <3>2
    <2> QED BY <2>2 DEF DoneHasRows, Of
  <1>6. StoreTypeOK'
    BY DEF StoreTypeOK, JobsKept
  <1> QED BY <1>1, <1>3, <1>4, <1>5, <1>6 DEF EmbedDone

\* Pause, Settle, Retry, MarkFailed and TickFails.
LEMMA LaidDown ==
    ASSUME EmbedHere, Pause \/ Settle \/ Retry \/ MarkFailed \/ TickFails
    PROVE  EmbedDone
  <1>0. /\ w.pc # "idle" /\ w' = Asleep /\ UNCHANGED <<rows, points, sent, metered>>
    BY DEF Pause, Settle, Retry, MarkFailed, TickFails
  <1>1. /\ Doc \in Contents /\ w.job \in DOMAIN jobs /\ jobs \in Seq(Job)
        /\ w.outcome \in JobStatus /\ faults \in 0 .. MaxFaults /\ cut \subseteq Contents
        /\ docs \in [Contents -> DocStatus]
    BY <1>0, DocInContents
       DEF EmbedHere, EmbedShape, WorkerShape, WorkerRec, StoreTypeOK, JobStatus
  <1>2. CASE Pause \/ Settle
    <2>1. /\ \E s \in JobStatus : jobs' = [jobs EXCEPT ![w.job].status = s]
          /\ UNCHANGED <<docs, faults, cut>>
      BY <1>1, <1>2 DEF Pause, Settle, JobStatus
    <2>2. JobsKept
      BY <1>1, <2>1, StatusWritten
    <2> QED BY <1>0, <1>1, <2>1, <2>2, LaysDown
  <1>3. CASE Retry
    <2>1. /\ jobs' = [jobs EXCEPT ![w.job].status = "PENDING", ![w.job].attempts = @ + 1]
          /\ UNCHANGED <<docs, faults, cut>> /\ "PENDING" \in JobStatus
      BY <1>3 DEF Retry, JobStatus
    <2>2. JobsKept
      BY <1>1, <2>1, AttemptWritten
    <2> QED BY <1>0, <1>1, <2>1, <2>2, LaysDown
  <1>4. CASE MarkFailed \/ TickFails
    <2>1. /\ docs' = docs \/ docs' = [docs EXCEPT ![Doc] = "FAILED"]
          /\ UNCHANGED <<faults, cut>> \/ Fault({Doc})
          /\ UNCHANGED jobs
      BY <1>4 DEF MarkFailed, TickFails
    <2>2. faults' \in 0 .. MaxFaults /\ cut' \subseteq Contents
      BY <1>1, <2>1, FaultCounts
    <2>3. /\ docs' \in [Contents -> DocStatus]
          /\ \A d \in Contents : docs'[d] = "DONE" => docs[d] = "DONE"
      BY <1>1, <2>1, StatusOfDoc DEF DocStatus
    <2>4. JobsKept
      BY <1>1, <2>1, JobsSame
    <2> QED BY <1>0, <2>2, <2>3, <2>4, LaysDown
  <1> QED BY <1>2, <1>3, <1>4

\* Proceed, Skip, MarkDone, GiveUp and ProcessErr.
LEMMA MovedOn ==
    ASSUME EmbedHere, Proceed \/ Skip \/ MarkDone \/ GiveUp \/ ProcessErr
    PROVE  EmbedDone
  <1>0. w.pc # "idle" /\ UNCHANGED <<rows, points, sent, metered>>
    BY DEF Proceed, Skip, MarkDone, GiveUp, ProcessErr
  <1>1. /\ Doc \in Contents /\ w.job \in DOMAIN jobs /\ jobs \in Seq(Job)
        /\ faults \in 0 .. MaxFaults /\ cut \subseteq Contents
        /\ docs \in [Contents -> DocStatus] /\ w \in WorkerRec
    BY <1>0, DocInContents DEF EmbedHere, EmbedShape, WorkerShape, StoreTypeOK
  <1>2. CASE Proceed
    <2>1. /\ EmbedGoto("decide") /\ "decide" \in WorkerPc /\ w.pc = "gate"
          /\ UNCHANGED <<docs, jobs, faults, cut>>
      BY <1>2 DEF Proceed, WorkerPc, storeVars
    <2>2. /\ w' \in WorkerRec /\ w'.pc = "decide" /\ w'.job = w.job
          /\ w'.billed = w.billed /\ w'.batch = w.batch
      BY <1>1, <2>1, WorkerGoto
    <2>3. JobsKept
      BY <1>1, <2>1, JobsSame
    <2> QED BY <1>0, <1>1, <2>1, <2>2, <2>3, MovesOn
  <1>3. CASE Skip
    <2>1. /\ docs' = docs \/ docs' = [docs EXCEPT ![Doc] = "SKIPPED"]
          /\ UNCHANGED <<faults, cut>> \/ Fault({Doc})
          /\ UNCHANGED jobs
          /\ w' = [w EXCEPT !.pc = "settle", !.outcome = "SKIPPED"]
      BY <1>3 DEF Skip
    <2>2. faults' \in 0 .. MaxFaults /\ cut' \subseteq Contents
      BY <1>1, <2>1, FaultCounts
    <2>3. /\ docs' \in [Contents -> DocStatus]
          /\ \A d \in Contents : docs'[d] = "DONE" => docs[d] = "DONE"
      BY <1>1, <2>1, StatusOfDoc DEF DocStatus
    <2>4. w' \in WorkerRec /\ w'.pc = "settle" /\ w'.job = w.job
      BY <1>1, <2>1 DEF WorkerRec, WorkerPc
    <2>5. JobsKept
      BY <1>1, <2>1, JobsSame
    <2> QED BY <1>0, <2>2, <2>3, <2>4, <2>5, MovesOn
  <1>4. CASE MarkDone
    <2>1. /\ docs' = [docs EXCEPT ![Doc] = "DONE"] /\ w.pc = "mark"
          /\ UNCHANGED <<jobs, faults, cut>>
          /\ w' = [w EXCEPT !.pc = "settle", !.outcome = "DONE"]
      BY <1>4 DEF MarkDone
    <2>2. /\ docs' \in [Contents -> DocStatus]
          /\ \A d \in Contents : docs'[d] = "DONE" => docs[d] = "DONE" \/ d = Doc
      BY <1>1, <2>1, StatusOfDoc DEF DocStatus
    <2>3. w' \in WorkerRec /\ w'.pc = "settle" /\ w'.job = w.job
      BY <1>1, <2>1 DEF WorkerRec, WorkerPc
    <2>4. JobsKept
      BY <1>1, <2>1, JobsSame
    <2> QED BY <1>0, <1>1, <2>1, <2>2, <2>3, <2>4, MovesOn
  <1>5. CASE GiveUp
    <2>1. /\ jobs' = [jobs EXCEPT ![w.job].status = "FAILED", ![w.job].attempts = @ + 1]
          /\ "FAILED" \in JobStatus /\ UNCHANGED <<docs, faults, cut>>
          /\ EmbedGoto("doc_failed") /\ "doc_failed" \in WorkerPc
      BY <1>5 DEF GiveUp, JobStatus, WorkerPc
    <2>2. JobsKept
      BY <1>1, <2>1, AttemptWritten
    <2>3. w' \in WorkerRec /\ w'.pc = "doc_failed" /\ w'.job = w.job
      BY <1>1, <2>1, WorkerGoto
    <2> QED BY <1>0, <1>1, <2>1, <2>2, <2>3, MovesOn
  <1>6. CASE ProcessErr
    <2>1. /\ UNCHANGED <<faults, cut>> \/ Fault({}) 
          /\ EmbedGoto("error") /\ "error" \in WorkerPc /\ UNCHANGED <<docs, jobs>>
      BY <1>6 DEF ProcessErr, WorkerPc
    <2>2. faults' \in 0 .. MaxFaults /\ cut' \subseteq Contents
      BY <1>1, <2>1, FaultCounts
    <2>3. w' \in WorkerRec /\ w'.pc = "error" /\ w'.job = w.job
      BY <1>1, <2>1, WorkerGoto
    <2>4. JobsKept
      BY <1>1, <2>1, JobsSame
    <2> QED BY <1>0, <1>1, <2>1, <2>2, <2>3, <2>4, MovesOn
  <1> QED BY <1>2, <1>3, <1>4, <1>5, <1>6

-----------------------------------------------------------------------------
\* Embedding the chunks.

\* The premise of a step that embeds, and what it keeps.
AtChunks ==
    /\ EmbedHere /\ w.pc # "idle" /\ UNCHANGED storeVars

LEMMA ChunkFacts ==
    ASSUME AtChunks
    PROVE  /\ Doc \in Contents /\ (w'.job = w.job => Doc' = Doc) /\ JobsKept /\ StoreTypeOK'
           /\ w.job \in DOMAIN jobs /\ Len(jobs) \in Nat /\ UNCHANGED <<jobs, docs>>
           /\ w \in WorkerRec /\ w.todo \in SUBSET ChunkIx /\ w.batch \in SUBSET ChunkIx
           /\ w.billed \in SUBSET ChunkIx /\ w.job \in Nat /\ w.job <= Len(jobs)
  <1>1. UNCHANGED <<jobs, docs, faults, cut>> /\ JobsKept /\ StoreTypeOK'
    BY JobsSame DEF AtChunks, EmbedHere, storeVars, StoreTypeOK
  <1>2. Doc \in Contents /\ w.job \in DOMAIN jobs
    BY DocInContents DEF AtChunks, EmbedHere, EmbedShape, WorkerShape
  <1>3. /\ w \in WorkerRec /\ w.todo \in SUBSET ChunkIx /\ w.batch \in SUBSET ChunkIx
        /\ w.billed \in SUBSET ChunkIx /\ w.job \in Nat /\ w.job <= Len(jobs)
        /\ Len(jobs) \in Nat
    BY DEF AtChunks, EmbedHere, WorkerRec, EmbedShape, WorkerShape
  <1> QED BY <1>1, <1>2, <1>3, SameJobDoc DEF AtChunks

LEMMA ReadCacheDone == ASSUME EmbedHere, ReadCache PROVE EmbedDone
  <1> DEFINE todo == {i \in ChunkIx : <<Doc, i>> \notin rows}
  <1>1. AtChunks /\ w.pc = "decide" /\ UNCHANGED <<rows, points, sent, metered>>
    BY DEF ReadCache, AtChunks
  <1>2. w' = [w EXCEPT !.pc = "embed", !.todo = todo]
    BY DEF ReadCache
  <1>3. w.billed = {} /\ w.batch = {}
    BY <1>1 DEF EmbedHere, EmbedShape, WorkerShape
  <1>4. todo \in SUBSET ChunkIx
    OBVIOUS
  <1>5. /\ w' \in WorkerRec /\ w'.pc = "embed" /\ w'.job = w.job /\ w'.todo = todo
        /\ w'.batch = {} /\ w'.billed = {}
    <2> HIDE DEF todo
    <2> QED BY <1>1, <1>2, <1>3, <1>4, ChunkFacts DEF WorkerRec, WorkerPc
  <1>7. WorkerShape'
    <2> HIDE DEF todo
    <2> QED BY <1>1, <1>5, ChunkFacts DEF WorkerShape, Embedding
  <1>8. ChunkShape'
    BY <1>1, <1>5, ChunkFacts DEF ChunkShape, VectorsHaveRows, Embedding, EmbedHere
  <1>9. DoneHasRows' /\ RowTypes' /\ MeterTypes'
    BY <1>1, ChunkFacts DEF EmbedHere, EmbedShape, DoneHasRows, RowTypes, MeterTypes
  <1> QED BY <1>1, <1>7, <1>8, <1>9, ChunkFacts DEF EmbedDone

LEMMA CountedType ==
    ASSUME NEW f \in [Chunk -> Nat], NEW S
    PROVE  Counted(f, S) \in [Chunk -> Nat]
  BY DEF Counted

LEMMA EmbedBatchDone == ASSUME EmbedHere, EmbedBatch PROVE EmbedDone
  <1> DEFINE batch == First(w.todo, BatchSize)
             billed == w.billed \cup batch
  <1>1. AtChunks /\ w.pc = "embed" /\ UNCHANGED <<rows, points, metered>>
    BY DEF EmbedBatch, AtChunks
  <1>2. w' = [w EXCEPT !.pc = "rows", !.batch = batch, !.billed = billed]
    BY DEF EmbedBatch
  <1>3. batch \in SUBSET w.todo
    BY DEF First
  <1>4. MeterTypes'
    BY <1>1, CountedType DEF EmbedBatch, EmbedHere, EmbedShape, MeterTypes
  <1> HIDE DEF batch
  <1>5. w.batch = {} /\ w.todo \ {} = w.todo
    BY <1>1 DEF EmbedHere, EmbedShape, WorkerShape
  <1>7. billed \in SUBSET ChunkIx
    BY <1>1, <1>3, ChunkFacts
  <1> HIDE DEF billed
  <1>8. /\ w' \in WorkerRec /\ w'.pc = "rows" /\ w'.job = w.job /\ w'.todo = w.todo
        /\ w'.batch = batch /\ w'.billed = billed
    BY <1>1, <1>2, <1>3, <1>7, ChunkFacts DEF WorkerRec, WorkerPc
  <1>9. WorkerShape'
    BY <1>1, <1>3, <1>8, ChunkFacts DEF WorkerShape, Embedding
  <1>10. ChunkShape'
    BY <1>1, <1>5, <1>8, ChunkFacts
       DEF ChunkShape, VectorsHaveRows, Embedding, EmbedHere, EmbedShape
  <1>11. DoneHasRows' /\ RowTypes'
    BY <1>1, ChunkFacts DEF EmbedHere, EmbedShape, DoneHasRows, RowTypes
  <1> QED BY <1>1, <1>4, <1>9, <1>10, <1>11, ChunkFacts DEF EmbedDone

LEMMA InsertChunkDone == ASSUME EmbedHere, InsertChunk PROVE EmbedDone
  <1> DEFINE left == {i \in w.batch : <<Doc, i>> \notin rows}
             pc == IF Cardinality(left) <= 1 THEN "upsert" ELSE "rows"
             new == First(left, 1)
  <1>1. AtChunks /\ w.pc = "rows" /\ UNCHANGED <<points, sent, metered>>
    BY DEF InsertChunk, AtChunks
  <1>2. rows' = rows \cup Of(Doc, new) /\ EmbedGoto(pc)
    BY DEF InsertChunk
  <1>3. new \subseteq left /\ left \in SUBSET ChunkIx /\ left \subseteq w.batch
    BY <1>1, ChunkFacts DEF First
  <1>4. Cardinality(left) <= 1 => new = left
    <2> HIDE DEF left
    <2> QED BY <1>3, FirstOfOne
  <1>5. pc \in {"upsert", "rows"} /\ (pc = "upsert" => new = left)
    <2> HIDE DEF left, new
    <2> QED BY <1>4
  <1> HIDE DEF pc
  <1>6. /\ w' \in WorkerRec /\ w'.pc = pc /\ w'.job = w.job /\ w'.todo = w.todo
        /\ w'.batch = w.batch /\ w'.billed = w.billed
    BY <1>1, <1>2, <1>5, ChunkFacts, WorkerGoto DEF WorkerPc
  <1>7. w.batch \subseteq w.todo
    BY <1>1 DEF EmbedHere, EmbedShape, WorkerShape, Embedding
  <1>8. WorkerShape'
    BY <1>1, <1>5, <1>6, <1>7, ChunkFacts DEF WorkerShape, Embedding
  <1>9. rows \subseteq rows' /\ \A i \in w.todo \ w.batch : <<Doc, i>> \notin rows'
    <2>1. \A i \in w.todo \ w.batch : <<Doc, i>> \notin rows
      BY <1>1 DEF EmbedHere, EmbedShape, ChunkShape, Embedding
    <2>2. new \subseteq w.batch
      BY <1>3
    <2> HIDE DEF new
    <2> QED BY <1>2, <2>1, <2>2 DEF Of
  <1>10. pc = "upsert" => \A i \in w.batch : <<Doc, i>> \in rows'
    <2>1. pc = "upsert" => new = left
      BY <1>5
    <2> HIDE DEF new, pc
    <2> QED BY <1>2, <2>1 DEF Of
  <1>11. rows' \subseteq Chunk
    <2>1. new \subseteq ChunkIx
      BY <1>3
    <2> HIDE DEF new
    <2> QED BY <1>1, <1>2, <2>1, ChunkFacts DEF EmbedHere, EmbedShape, RowTypes, Of, Chunk
  <1> HIDE DEF new, left
  <1>12. ChunkShape'
    <2>1. \A i \in ChunkIx \ w.todo : <<Doc, i>> \in rows
      BY <1>1 DEF EmbedHere, EmbedShape, ChunkShape, Embedding
    <2> QED BY <1>1, <1>6, <1>9, <1>10, <2>1, ChunkFacts
            DEF ChunkShape, VectorsHaveRows, Embedding, EmbedHere
  <1>13. DoneHasRows' /\ RowTypes' /\ MeterTypes'
    BY <1>1, <1>9, <1>11, ChunkFacts DEF EmbedHere, EmbedShape, DoneHasRows, RowTypes, MeterTypes
  <1> QED BY <1>1, <1>8, <1>12, <1>13, ChunkFacts DEF EmbedDone

LEMMA UpsertDone == ASSUME EmbedHere, Upsert PROVE EmbedDone
  <1> DEFINE todo == w.todo \ w.batch
  <1>1. AtChunks /\ w.pc = "upsert" /\ UNCHANGED <<rows, sent, metered>>
    BY DEF Upsert, AtChunks
  <1>2. /\ points' = points \cup Of(Doc, w.batch)
        /\ w' = [w EXCEPT !.pc = "embed", !.todo = todo, !.batch = {}]
    BY DEF Upsert
  <1>3. todo \in SUBSET ChunkIx /\ todo \ {} = todo
    BY <1>1, ChunkFacts
  <1>4. /\ \A i \in w.batch : <<Doc, i>> \in rows
        /\ \A i \in todo : <<Doc, i>> \notin rows
        /\ \A i \in ChunkIx \ w.todo : <<Doc, i>> \in rows
    BY <1>1 DEF EmbedHere, EmbedShape, WorkerShape, ChunkShape, Embedding
  <1>5. \A i \in ChunkIx \ todo : <<Doc, i>> \in rows
    BY <1>4
  <1> HIDE DEF todo
  <1>6. /\ w' \in WorkerRec /\ w'.pc = "embed" /\ w'.job = w.job /\ w'.todo = todo
        /\ w'.batch = {} /\ w'.billed = w.billed
    BY <1>1, <1>2, <1>3, ChunkFacts DEF WorkerRec, WorkerPc
  <1>7. WorkerShape'
    BY <1>1, <1>3, <1>4, <1>6, ChunkFacts DEF WorkerShape, Embedding
  <1>8. VectorsHaveRows' /\ points' \subseteq Chunk
    BY <1>1, <1>2, <1>4, ChunkFacts
       DEF VectorsHaveRows, Of, EmbedHere, EmbedShape, RowTypes, Chunk
  <1>9. ChunkShape'
    BY <1>1, <1>3, <1>4, <1>5, <1>6, <1>8, ChunkFacts DEF ChunkShape, Embedding
  <1>10. DoneHasRows' /\ RowTypes' /\ MeterTypes'
    BY <1>1, <1>8, ChunkFacts DEF EmbedHere, EmbedShape, DoneHasRows, RowTypes, MeterTypes
  <1> QED BY <1>1, <1>7, <1>9, <1>10, ChunkFacts DEF EmbedDone

LEMMA MeterDone == ASSUME EmbedHere, Meter PROVE EmbedDone
  <1>1. /\ AtChunks /\ w.pc = "embed" /\ w.todo = {} /\ UNCHANGED <<rows, points, sent>>
        /\ metered' = Counted(metered, Of(Doc, w.billed)) /\ EmbedGoto("mark") /\ "mark" \in WorkerPc
    BY DEF Meter, AtChunks, WorkerPc
  <1>2. /\ w' \in WorkerRec /\ w'.pc = "mark" /\ w'.job = w.job /\ w'.todo = w.todo
    BY <1>1, ChunkFacts, WorkerGoto
  <1>3. WorkerShape'
    BY <1>1, <1>2, ChunkFacts DEF WorkerShape, Embedding
  <1>4. ChunkShape'
    BY <1>1, <1>2, ChunkFacts
       DEF ChunkShape, VectorsHaveRows, Embedding, EmbedHere, EmbedShape
  <1>5. MeterTypes'
    BY <1>1, CountedType, ChunkFacts DEF EmbedHere, EmbedShape, MeterTypes
  <1>6. DoneHasRows' /\ RowTypes'
    BY <1>1, ChunkFacts DEF EmbedHere, EmbedShape, DoneHasRows, RowTypes
  <1> QED BY <1>1, <1>3, <1>4, <1>5, <1>6, ChunkFacts DEF EmbedDone

\* A request that was carried out and whose reply is lost.
LEMMA ReplyLostDone == ASSUME EmbedHere, ReplyLost PROVE EmbedDone
  <1>0. /\ w.pc \in {"embed", "upsert"} /\ EmbedGoto("error") /\ "error" \in WorkerPc
        /\ Fault({}) /\ UNCHANGED <<docs, jobs, rows, metered>>
    BY DEF ReplyLost, WorkerPc
  <1>1. Doc \in Contents /\ w.job \in DOMAIN jobs
    BY <1>0, DocInContents DEF EmbedHere, EmbedShape, WorkerShape
  <1>2. JobsKept /\ StoreTypeOK'
    <2>1. faults' \in 0 .. MaxFaults /\ cut' \subseteq Contents
      BY <1>0, FaultCounts DEF EmbedHere, StoreTypeOK
    <2> QED BY <1>0, <2>1, JobsSame DEF EmbedHere, StoreTypeOK
  <1>3. w' \in WorkerRec /\ w'.pc = "error" /\ w'.job = w.job
    BY <1>0, WorkerGoto DEF EmbedHere
  <1>4. MeterTypes'
    <2>1. UNCHANGED sent
          \/ sent' = Counted(sent, Of(Doc, First(w.todo, BatchSize)))
      BY DEF ReplyLost
    <2> QED BY <1>0, <2>1, CountedType DEF EmbedHere, EmbedShape, MeterTypes
  <1>5. VectorsHaveRows' /\ RowTypes'
    <2>1. CASE UNCHANGED points
      BY <1>0, <2>1 DEF EmbedHere, EmbedShape, RowTypes, VectorsHaveRows
    <2>2. CASE w.pc = "upsert" /\ points' = points \cup Of(Doc, w.batch)
      <3>1. \A i \in w.batch : <<Doc, i>> \in rows
        BY <2>2 DEF EmbedHere, EmbedShape, ChunkShape
      <3> QED BY <1>0, <2>2, <3>1 DEF EmbedHere, EmbedShape, RowTypes, VectorsHaveRows, Of
    <2> QED BY <2>1, <2>2 DEF ReplyLost
  <1>6. WorkerShape'
    BY <1>0, <1>1, <1>3 DEF EmbedHere, EmbedShape, WorkerShape, Embedding
  <1>7. ChunkShape'
    BY <1>3, <1>5 DEF ChunkShape, Embedding
  <1>8. DoneHasRows'
    BY <1>0 DEF EmbedHere, EmbedShape, DoneHasRows
  <1> QED BY <1>2, <1>4, <1>5, <1>6, <1>7, <1>8 DEF EmbedDone

-----------------------------------------------------------------------------
\* Services and jobs queued by hand.

\* A counter of env below its bound is counted up, or none is.
LEMMA ServicesTyped ==
    ASSUME ServiceTypes,
           \/ UNCHANGED env
           \/ env.outages < MaxOutages /\ env' = [env EXCEPT !.outages = @ + 1]
           \/ env.pauses < MaxPauses /\ env' = [env EXCEPT !.pauses = @ + 1]
           \/ env.requeues < MaxRequeues /\ env' = [env EXCEPT !.requeues = @ + 1],
           api' \in BOOLEAN, qdrant' \in BOOLEAN, paused' \in BOOLEAN
    PROVE  ServiceTypes'
  <1> DEFINE Env == [outages : 0 .. MaxOutages, pauses : 0 .. MaxPauses,
                     requeues : 0 .. MaxRequeues]
  <1>0. env \in Env
    BY DEF ServiceTypes
  <1>1. env.outages \in 0 .. MaxOutages /\ env.pauses \in 0 .. MaxPauses
        /\ env.requeues \in 0 .. MaxRequeues
    BY <1>0
  <1>2. CASE UNCHANGED env
    BY <1>2 DEF ServiceTypes
  <1>3. CASE env.outages < MaxOutages /\ env' = [env EXCEPT !.outages = @ + 1]
    <2> DEFINE n == env.outages + 1
    <2>1. n \in 0 .. MaxOutages /\ env' = [env EXCEPT !.outages = n]
      BY <1>1, <1>3, BoundsOfThePipeline
    <2> HIDE DEF n
    <2>2. env' \in Env
      BY <1>0, <2>1
    <2> QED BY <2>2 DEF ServiceTypes
  <1>4. CASE env.pauses < MaxPauses /\ env' = [env EXCEPT !.pauses = @ + 1]
    <2> DEFINE n == env.pauses + 1
    <2>1. n \in 0 .. MaxPauses /\ env' = [env EXCEPT !.pauses = n]
      BY <1>1, <1>4, BoundsOfThePipeline
    <2> HIDE DEF n
    <2>2. env' \in Env
      BY <1>0, <2>1
    <2> QED BY <2>2 DEF ServiceTypes
  <1>5. CASE env.requeues < MaxRequeues /\ env' = [env EXCEPT !.requeues = @ + 1]
    <2> DEFINE n == env.requeues + 1
    <2>1. n \in 0 .. MaxRequeues /\ env' = [env EXCEPT !.requeues = n]
      BY <1>1, <1>5, BoundsOfThePipeline
    <2> HIDE DEF n
    <2>2. env' \in Env
      BY <1>0, <2>1
    <2> QED BY <2>2 DEF ServiceTypes
  <1> QED BY <1>2, <1>3, <1>4, <1>5

LEMMA ServicesDone ==
    ASSUME StoreTypeOK, EmbedShape, Services \/ Requeue
    PROVE  StoreTypeOK' /\ JobsKept /\ EmbedShape'
  <1>0. api \in BOOLEAN /\ qdrant \in BOOLEAN /\ paused \in BOOLEAN /\ ServiceTypes
        /\ jobs \in Seq(Job)
    BY DEF EmbedShape, ServiceTypes, StoreTypeOK
  <1>1. ServiceTypes'
    <2>1. /\ api' \in BOOLEAN /\ qdrant' \in BOOLEAN /\ paused' \in BOOLEAN
      BY <1>0 DEF Services, Requeue, ApiDown, ApiUp, QdrantDown, QdrantUp, BudgetYellow,
                  BudgetGreen
    <2>2. \/ UNCHANGED env
          \/ env.outages < MaxOutages /\ env' = [env EXCEPT !.outages = @ + 1]
          \/ env.pauses < MaxPauses /\ env' = [env EXCEPT !.pauses = @ + 1]
          \/ env.requeues < MaxRequeues /\ env' = [env EXCEPT !.requeues = @ + 1]
      BY DEF Services, Requeue, ApiDown, ApiUp, QdrantDown, QdrantUp, BudgetYellow, BudgetGreen
    <2> QED BY <1>0, <2>1, <2>2, ServicesTyped
  <1>2. UNCHANGED <<docs, faults, cut, w, rows, points, sent, metered>>
    BY DEF Services, Requeue, ApiDown, ApiUp, QdrantDown, QdrantUp, BudgetYellow, BudgetGreen,
           storeVars
  <1>3. JobsKept
    <2>1. CASE Services
      <3>1. UNCHANGED jobs
        BY <2>1 DEF Services, ApiDown, ApiUp, QdrantDown, QdrantUp, BudgetYellow,
                    BudgetGreen, storeVars
      <3> QED BY <1>0, <3>1, JobsSame
    <2>2. CASE Requeue
      <3>1. PICK d \in Contents : jobs' = Append(jobs, NewJob(d, TRUE))
        BY <2>2 DEF Requeue
      <3> QED BY <1>0, <3>1, JobAdded
    <2> QED BY <2>1, <2>2
  <1>4. StoreTypeOK'
    BY <1>2, <1>3 DEF StoreTypeOK, JobsKept
  <1> QED BY <1>1, <1>2, <1>3, <1>4, Aside

\* A step of the worker.
WorkerStep == Worker \/ ProcessErr \/ ReplyLost \/ TickFails

LEMMA WorkerStepDone ==
    ASSUME StoreTypeOK, EmbedShape, WorkerStep
    PROVE  StoreTypeOK' /\ JobsKept /\ EmbedShape'
  <1>1. EmbedHere
    BY ShapeOfWorker
  <1>2. EmbedDone
    BY <1>1, ClaimDone, LaidDown, MovedOn, ReadCacheDone, EmbedBatchDone, InsertChunkDone,
       UpsertDone, MeterDone, ReplyLostDone DEF WorkerStep, Worker
  <1>3. UNCHANGED services
    BY DEF WorkerStep, Worker, Claim, Pause, Proceed, Skip, ReadCache, EmbedBatch, InsertChunk,
           Upsert, Meter, MarkDone, Settle, Retry, GiveUp, MarkFailed, ProcessErr, ReplyLost,
           TickFails
  <1>4. ServiceTypes'
    BY <1>3 DEF EmbedShape, ServiceTypes, services
  <1> QED BY <1>2, <1>4 DEF EmbedDone, EmbedShape

LEMMA EmbedNextDone ==
    ASSUME StoreTypeOK, EmbedShape, EmbedNext
    PROVE  StoreTypeOK' /\ JobsKept /\ EmbedShape'
  BY ServicesDone, WorkerStepDone DEF EmbedNext, WorkerStep

-----------------------------------------------------------------------------
\* The invariant of the pipeline.

EvidenceInv == StoreTypeOK /\ IngestShape /\ EmbedShape

LEMMA EvidenceStarts == Init => EvidenceInv
  <1> SUFFICES ASSUME Init PROVE EvidenceInv
    OBVIOUS
  <1> USE DEF Init, StoreInit, IngestInit, EmbedInit
  <1>1. StoreTypeOK
    BY BoundsOfThePipeline DEF StoreTypeOK, DocStatus
  <1>2. IngestShape
    <2>1. IngestTypeOK
      BY IdleType, BoundsOfThePipeline DEF IngestTypeOK, CallRec
    <2>2. CallShape
      BY DEF CallShape, Idle, Processes
    <2> QED BY <2>1, <2>2 DEF IngestShape
  <1>3. RowTypes /\ MeterTypes /\ ServiceTypes
    <2>1. RowTypes
      BY DEF RowTypes
    <2>2. sent = [c \in Chunk |-> 0] /\ metered = [c \in Chunk |-> 0]
      OBVIOUS
    <2>3. MeterTypes
      BY ONLY <2>2 DEF MeterTypes
    <2>4. env \in [outages : 0 .. MaxOutages, pauses : 0 .. MaxPauses,
                   requeues : 0 .. MaxRequeues]
      <3>1. 0 \in 0 .. MaxOutages /\ 0 \in 0 .. MaxPauses /\ 0 \in 0 .. MaxRequeues
        BY ONLY BoundsOfThePipeline
      <3>2. env = [outages |-> 0, pauses |-> 0, requeues |-> 0]
        OBVIOUS
      <3> QED BY ONLY <3>1, <3>2
    <2>5. ServiceTypes
      BY <2>4 DEF ServiceTypes
    <2> QED BY <2>1, <2>3, <2>5
  <1>4. WorkerShape /\ ChunkShape
    <2>1. Len(jobs) = 0 /\ VectorsHaveRows
      BY DEF VectorsHaveRows
    <2> QED BY <2>1, AsleepType DEF WorkerShape, ChunkShape, Embedding
  <1>5. DoneHasRows
    BY DEF DoneHasRows
  <1> QED BY <1>1, <1>2, <1>3, <1>4, <1>5 DEF EvidenceInv, EmbedShape

\* The calls a restart loses.
LEMMA LostInContents ==
    ASSUME EvidenceInv
    PROVE  IngestCut \subseteq Contents /\ EmbedCut \subseteq Contents
  <1>1. IngestCut \subseteq Contents
    BY DEF EvidenceInv, IngestShape, CallShape, IngestCut
  <1>2. EmbedCut \subseteq Contents
    BY DocInContents DEF EvidenceInv, EmbedShape, EmbedCut
  <1> QED BY <1>1, <1>2

LEMMA RestartDone == ASSUME EvidenceInv, Restart PROVE EvidenceInv' /\ JobsKept
  <1>0. StoreTypeOK /\ IngestShape /\ EmbedShape /\ EmbedHere
    BY ShapeOfWorker DEF EvidenceInv
  <1>1. faults' \in 0 .. MaxFaults /\ cut' \subseteq Contents
    <2> DEFINE lost == IngestCut \cup EmbedCut
    <2>1. lost \in SUBSET Contents /\ Fault(lost)
      BY LostInContents DEF Restart
    <2> HIDE DEF lost
    <2> QED BY <1>0, <2>1, FaultCounts DEF StoreTypeOK
  <1>2. JobsKept /\ docs' \in [Contents -> DocStatus] /\ UNCHANGED <<docs, jobs>>
    BY <1>0, JobsSame DEF Restart, StoreTypeOK
  <1>3. EmbedDone /\ UNCHANGED services
    <2>1. w' = Asleep /\ UNCHANGED <<rows, points, sent, metered, services>>
      BY DEF Restart, EmbedRestart
    <2> QED BY <1>0, <1>1, <1>2, <2>1, LaysDown
  <1>4. ServiceTypes'
    BY <1>0, <1>3 DEF EmbedShape, ServiceTypes, services
  <1>5. IngestShape'
    <2>1. /\ call' = [p \in Processes |-> Idle]
          /\ UNCHANGED <<raw, calls, stream, cursor, dropped>>
      BY DEF Restart, IngestRestart
    <2>2. PICK pos \in {0, cursor}, alive \in BOOLEAN : reader' = [alive |-> alive, pos |-> pos]
      BY DEF Restart, IngestRestart
    <2>3. IngestTypeOK /\ pos \in 0 .. Len(stream)
      BY <1>0 DEF IngestShape, IngestTypeOK
    <2>4. reader' \in [alive : BOOLEAN, pos : 0 .. Len(stream)]
      BY <2>2, <2>3
    <2>5. IngestTypeOK'
      BY <2>1, <2>3, <2>4, IdleType DEF IngestTypeOK, CallRec
    <2>6. CallShape'
      BY <2>1 DEF CallShape, Idle, Processes
    <2> QED BY <2>5, <2>6 DEF IngestShape
  <1> QED BY <1>2, <1>3, <1>4, <1>5 DEF EvidenceInv, EmbedShape, EmbedDone

LEMMA EvidenceStep == EvidenceInv /\ [Next]_vars => EvidenceInv' /\ JobsKept
  <1> SUFFICES ASSUME EvidenceInv, [Next]_vars PROVE EvidenceInv' /\ JobsKept
    OBVIOUS
  <1>0. StoreTypeOK /\ IngestShape /\ EmbedShape
    BY DEF EvidenceInv
  <1>1. CASE IngestNext /\ UNCHANGED embedVars
    <2>1. IngestWrites /\ IngestShape'
      BY <1>0, <1>1, IngestNextDone
    <2>2. UNCHANGED <<w, rows, points, sent, metered>> /\ ServiceTypes'
      BY <1>0, <1>1 DEF embedVars, EmbedShape, ServiceTypes
    <2>3. EmbedShape'
      BY <1>0, <2>1, <2>2, Aside DEF IngestWrites
    <2> QED BY <2>1, <2>3 DEF EvidenceInv, IngestWrites
  <1>2. CASE EmbedNext /\ UNCHANGED ingestVars
    <2>1. StoreTypeOK' /\ JobsKept /\ EmbedShape'
      BY <1>0, <1>2, EmbedNextDone
    <2>2. IngestShape'
      BY <1>0, <1>2 DEF ingestVars, IngestShape, IngestTypeOK, CallShape
    <2> QED BY <2>1, <2>2 DEF EvidenceInv
  <1>3. CASE Restart
    BY <1>3, RestartDone
  <1>4. CASE UNCHANGED vars
    <2>1. UNCHANGED storeVars /\ UNCHANGED ingestVars /\ UNCHANGED embedVars
      BY <1>4 DEF vars
    <2>2. StoreTypeOK' /\ JobsKept /\ UNCHANGED docs
      BY <1>0, <2>1, JobsSame DEF storeVars, StoreTypeOK
    <2>3. IngestShape'
      BY <1>0, <2>1 DEF ingestVars, IngestShape, IngestTypeOK, CallShape
    <2>4. UNCHANGED <<w, rows, points, sent, metered>> /\ ServiceTypes'
      BY <1>0, <2>1 DEF embedVars, EmbedShape, ServiceTypes
    <2>5. EmbedShape'
      BY <1>0, <2>2, <2>4, Aside
    <2> QED BY <2>2, <2>3, <2>5 DEF EvidenceInv
  <1> QED BY <1>1, <1>2, <1>3, <1>4 DEF Next

LEMMA EvidenceHolds == Spec => []EvidenceInv
  <1>1. Init => EvidenceInv
    BY EvidenceStarts
  <1>2. EvidenceInv /\ [Next]_vars => EvidenceInv'
    BY EvidenceStep
  <1> QED BY <1>1, <1>2, PTL DEF Spec

\* Every variable of ingest and of the embedding worker keeps its type, whatever
\* is pushed, read again, retried, queued by hand or cut off, for every number
\* of documents, callers, chunks, attempts and faults.
THEOREM EvidenceTypes == Spec => []TypeOK
  <1>1. ASSUME EvidenceInv PROVE TypeOK
    <2>1. StoreTypeOK /\ IngestTypeOK /\ RowTypes /\ MeterTypes /\ ServiceTypes
      BY <1>1 DEF EvidenceInv, IngestShape, EmbedShape
    <2>2. w \in [pc : WorkerPc, job : 0 .. Len(jobs), todo : SUBSET ChunkIx,
                 batch : SUBSET ChunkIx, billed : SUBSET ChunkIx,
                 outcome : {"DONE", "SKIPPED"}]
      <3>1. w \in WorkerRec /\ w.job <= Len(jobs) /\ Len(jobs) \in Nat
        BY <1>1 DEF EvidenceInv, EmbedShape, WorkerShape, StoreTypeOK
      <3>2. w.job \in 0 .. Len(jobs)
        BY <3>1 DEF WorkerRec
      <3> QED BY <3>1, <3>2 DEF WorkerRec
    <2>3. EmbedTypeOK
      BY <2>1, <2>2 DEF EmbedTypeOK, RowTypes, MeterTypes, ServiceTypes
    <2> QED BY <2>1, <2>3 DEF TypeOK
  <1> QED BY <1>1, EvidenceHolds, PTL

\* A vector in Qdrant always has its row in embedding_chunks: upsert_points runs
\* only for chunks whose INSERT is done, also when an earlier attempt did it.
THEOREM VectorsKeepRows == Spec => []VectorsHaveRows
  <1>1. EvidenceInv => VectorsHaveRows
    BY DEF EvidenceInv, EmbedShape, ChunkShape
  <1> QED BY <1>1, EvidenceHolds, PTL

\* A document whose embedding_status is DONE has a row for each of its chunks,
\* although an attempt that fails or stops leaves some and the next skips them.
THEOREM DoneKeepsRows == Spec => []DoneHasRows
  <1>1. EvidenceInv => DoneHasRows
    BY DEF EvidenceInv, EmbedShape
  <1> QED BY <1>1, EvidenceHolds, PTL

\* No step sends a chunk that has a row.
LEMMA SendsAbsent ==
    ASSUME EvidenceInv, [Next]_vars, NEW c \in rows
    PROVE  sent'[c] = sent[c]
  <1>1. CASE UNCHANGED sent
    BY <1>1
  <1>2. CASE /\ w.pc = "embed"
             /\ sent' = Counted(sent, Of(Doc, First(w.todo, BatchSize)))
    <2>1. \A i \in w.todo \ w.batch : <<Doc, i>> \notin rows
      BY <1>2 DEF EvidenceInv, EmbedShape, ChunkShape, Embedding
    <2>2. w.batch = {} /\ c \in Chunk
      BY <1>2 DEF EvidenceInv, EmbedShape, WorkerShape, RowTypes
    <2>3. First(w.todo, BatchSize) \subseteq w.todo
      BY DEF First
    <2>4. c \notin Of(Doc, First(w.todo, BatchSize))
      BY <2>1, <2>2, <2>3 DEF Of
    <2> QED BY <1>2, <2>2, <2>4 DEF Counted
  <1>3. \/ UNCHANGED sent
        \/ /\ w.pc = "embed"
           /\ sent' = Counted(sent, Of(Doc, First(w.todo, BatchSize)))
    <2>1. CASE EmbedNext
      BY <2>1 DEF EmbedNext, Worker, Claim, Pause, Proceed, Skip, ReadCache, EmbedBatch,
                  InsertChunk, Upsert, Meter, MarkDone, Settle, Retry, GiveUp, MarkFailed,
                  ProcessErr, ReplyLost, TickFails, Services, Requeue, ApiDown, ApiUp,
                  QdrantDown, QdrantUp, BudgetYellow, BudgetGreen
    <2>2. CASE Restart
      BY <2>2 DEF Restart, EmbedRestart
    <2>3. CASE UNCHANGED embedVars \/ UNCHANGED vars
      BY <2>3 DEF embedVars, vars
    <2> QED BY <2>1, <2>2, <2>3 DEF Next
  <1> QED BY <1>1, <1>2, <1>3

\* "Chunks already present are NEVER re-embedded": no step of the pipeline, in
\* any attempt, restart or job queued again, sends a chunk that has a row.
THEOREM PresentIsNeverSent == Spec => PresentNeverSent
  <1>1. EvidenceInv /\ [Next]_vars => [\A c \in rows : sent'[c] = sent[c]]_vars
    BY SendsAbsent
  <1> QED BY <1>1, EvidenceHolds, PTL DEF Spec, PresentNeverSent

-----------------------------------------------------------------------------
\* What is charged.

\* While an attempt lasts, each chunk it has added up was sent once more than it
\* was charged.
Paying == {"gate", "decide"} \cup Embedding
MeterShape ==
    /\ NeverOvercharged
    /\ w.pc \in Paying => \A i \in w.billed : metered[<<Doc, i>>] < sent[<<Doc, i>>]

\* The steps as sent and metered see them.
Bills ==
    /\ w.pc \in Paying /\ UNCHANGED metered /\ w'.job = w.job
    /\ \E B \in SUBSET ChunkIx :
            w'.billed = w.billed \cup B /\ sent' = Counted(sent, Of(Doc, B))
Charges ==
    /\ w.pc \in Paying /\ w'.pc \notin Paying /\ UNCHANGED sent
    /\ metered' = Counted(metered, Of(Doc, w.billed))
Wastes ==
    /\ w'.pc \notin Paying /\ UNCHANGED metered
    /\ \E S \in SUBSET Chunk : sent' = Counted(sent, S)
Carries ==
    /\ UNCHANGED <<sent, metered>>
    /\ w'.pc \in Paying => w.pc \in Paying /\ w'.job = w.job /\ w'.billed = w.billed
StartsAfresh == UNCHANGED <<sent, metered>> /\ w'.billed = {}

LEMMA WorkerMeters ==
    ASSUME EvidenceInv, WorkerStep
    PROVE  Bills \/ Charges \/ Wastes \/ Carries \/ StartsAfresh
  <1>0. w \in WorkerRec
    BY DEF EvidenceInv, EmbedShape, WorkerShape
  <1>1. CASE Claim \/ Pause \/ Settle \/ Retry \/ MarkFailed \/ TickFails
    <2>1. UNCHANGED <<sent, metered>>
      BY <1>1 DEF Claim, Pause, Settle, Retry, MarkFailed, TickFails
    <2>2. ASSUME Claim PROVE w'.billed = {}
      <3>1. PICK i \in Pending : w' = [Asleep EXCEPT !.pc = "gate", !.job = i]
        BY <2>2 DEF Claim
      <3> QED BY <3>1 DEF Asleep
    <2>3. w'.billed = {}
      BY <1>1, <2>2 DEF Pause, Settle, Retry, MarkFailed, TickFails, Asleep
    <2> QED BY <2>1, <2>3 DEF StartsAfresh
  <1>2. CASE Proceed \/ Skip \/ ReadCache \/ InsertChunk \/ Upsert \/ MarkDone \/ GiveUp
             \/ ProcessErr
    <2>1. UNCHANGED <<sent, metered>>
      BY <1>2 DEF Proceed, Skip, ReadCache, InsertChunk, Upsert, MarkDone, GiveUp, ProcessErr
    <2>2. w'.job = w.job /\ w'.billed = w.billed
      BY <1>0, <1>2 DEF Proceed, Skip, ReadCache, InsertChunk, Upsert, MarkDone, GiveUp,
                        ProcessErr, EmbedGoto, WorkerRec
    <2>3. w'.pc \in Paying => w.pc \in Paying
      BY <1>0, <1>2 DEF Proceed, Skip, ReadCache, InsertChunk, Upsert, MarkDone, GiveUp,
                        ProcessErr, EmbedGoto, WorkerRec, Paying, Embedding
    <2> QED BY <2>1, <2>2, <2>3 DEF Carries
  <1>3. CASE EmbedBatch
    <2> DEFINE B == First(w.todo, BatchSize)
    <2>1. /\ w.pc = "embed" /\ UNCHANGED metered /\ sent' = Counted(sent, Of(Doc, B))
          /\ w' = [w EXCEPT !.pc = "rows", !.batch = B, !.billed = @ \cup B]
      BY <1>3 DEF EmbedBatch
    <2>2. B \in SUBSET ChunkIx
      BY <1>0 DEF WorkerRec, First
    <2> HIDE DEF B
    <2>3. w'.job = w.job /\ w'.billed = w.billed \cup B
      BY <1>0, <2>1 DEF WorkerRec
    <2> QED BY <2>1, <2>2, <2>3 DEF Bills, Paying, Embedding
  <1>4. CASE Meter
    <2>1. /\ w.pc = "embed" /\ UNCHANGED sent /\ EmbedGoto("mark")
          /\ metered' = Counted(metered, Of(Doc, w.billed))
      BY <1>4 DEF Meter
    <2>2. w'.pc = "mark"
      BY <1>0, <2>1 DEF EmbedGoto, WorkerRec
    <2> QED BY <2>1, <2>2 DEF Charges, Paying, Embedding
  <1>5. CASE ReplyLost
    <2>1. w.pc # "idle" /\ EmbedGoto("error") /\ UNCHANGED metered
      BY <1>5 DEF ReplyLost
    <2>2. w'.pc = "error"
      BY <1>0, <2>1 DEF EmbedGoto, WorkerRec
    <2>3. CASE UNCHANGED sent
      BY <2>1, <2>2, <2>3 DEF Carries, Paying, Embedding
    <2>4. CASE sent' = Counted(sent, Of(Doc, First(w.todo, BatchSize)))
      <3>1. Doc \in Contents
        BY <2>1, DocInContents DEF EvidenceInv, EmbedShape
      <3>2. Of(Doc, First(w.todo, BatchSize)) \in SUBSET Chunk
        <4>1. First(w.todo, BatchSize) \subseteq ChunkIx
          BY <1>0 DEF First, WorkerRec
        <4> QED BY <3>1, <4>1 DEF Of, Chunk
      <3> QED BY <2>1, <2>2, <2>4, <3>2 DEF Wastes, Paying, Embedding
    <2> QED BY <1>5, <2>3, <2>4 DEF ReplyLost
  <1> QED BY <1>1, <1>2, <1>3, <1>4, <1>5 DEF WorkerStep, Worker

LEMMA StepMeters ==
    ASSUME EvidenceInv, [Next]_vars
    PROVE  Bills \/ Charges \/ Wastes \/ Carries \/ StartsAfresh
  <1>1. CASE WorkerStep
    BY <1>1, WorkerMeters
  <1>2. CASE Services \/ Requeue \/ UNCHANGED embedVars
    <2>1. UNCHANGED <<w, sent, metered>>
      BY <1>2 DEF Services, Requeue, ApiDown, ApiUp, QdrantDown, QdrantUp, BudgetYellow,
                  BudgetGreen, embedVars
    <2> QED BY <2>1 DEF Carries
  <1>3. CASE Restart
    <2>1. w' = Asleep /\ UNCHANGED <<sent, metered>>
      BY <1>3 DEF Restart, EmbedRestart
    <2> QED BY <2>1 DEF StartsAfresh, Asleep
  <1> QED BY <1>1, <1>2, <1>3 DEF Next, EmbedNext, WorkerStep, vars

LEMMA MeterShapeStays ==
    ASSUME EvidenceInv, [Next]_vars, MeterShape
    PROVE  MeterShape'
  <1>1. /\ sent \in [Chunk -> Nat] /\ metered \in [Chunk -> Nat]
        /\ \A c \in Chunk : metered[c] <= sent[c] /\ sent[c] \in Nat /\ metered[c] \in Nat
    BY DEF EvidenceInv, EmbedShape, MeterTypes, MeterShape, NeverOvercharged
  <1>2. w.pc # "idle" => Doc \in Contents /\ (w'.job = w.job => Doc' = Doc)
    <2>1. JobsKept
      BY EvidenceStep
    <2> QED BY <2>1, DocInContents, SameDoc DEF EvidenceInv, EmbedShape
  <1>3. w.billed \subseteq ChunkIx /\ (w.pc \in Paying => w.pc # "idle")
    BY DEF EvidenceInv, EmbedShape, WorkerShape, WorkerRec, Paying, Embedding
  <1>4. \A d \in Contents, i \in ChunkIx : <<d, i>> \in Chunk
    BY DEF Chunk
  <1>5. CASE Bills
    <2>1. PICK B \in SUBSET ChunkIx :
              w'.billed = w.billed \cup B /\ sent' = Counted(sent, Of(Doc, B))
      BY <1>5 DEF Bills
    <2>2. w.pc \in Paying /\ metered' = metered /\ Doc' = Doc /\ Doc \in Contents
      BY <1>2, <1>3, <1>5 DEF Bills
    <2>3. \A c \in Chunk : sent'[c] = IF c \in Of(Doc, B) THEN sent[c] + 1 ELSE sent[c]
      BY <2>1 DEF Counted
    <2>4. NeverOvercharged'
      BY <1>1, <2>2, <2>3 DEF NeverOvercharged
    <2>5. ASSUME NEW i \in w'.billed PROVE metered'[<<Doc', i>>] < sent'[<<Doc', i>>]
      <3>1. i \in ChunkIx /\ <<Doc, i>> \in Chunk
        BY <1>3, <1>4, <2>1, <2>2, <2>5
      <3>2. CASE i \in B
        <4>1. <<Doc, i>> \in Of(Doc, B)
          BY <3>2 DEF Of
        <4> QED BY <1>1, <2>2, <2>3, <3>1, <4>1
      <3>3. CASE i \in w.billed
        <4>1. metered[<<Doc, i>>] < sent[<<Doc, i>>]
          BY <2>2, <3>3 DEF MeterShape
        <4> QED BY <1>1, <2>2, <2>3, <3>1, <4>1
      <3> QED BY <2>1, <2>5, <3>2, <3>3
    <2> QED BY <2>4, <2>5 DEF MeterShape
  <1>6. CASE Charges
    <2>1. /\ w.pc \in Paying /\ w'.pc \notin Paying /\ sent' = sent /\ Doc \in Contents
          /\ metered' = Counted(metered, Of(Doc, w.billed))
      BY <1>2, <1>3, <1>6 DEF Charges
    <2>2. ASSUME NEW c \in Chunk PROVE metered'[c] <= sent'[c]
      <3>1. metered'[c] = IF c \in Of(Doc, w.billed) THEN metered[c] + 1 ELSE metered[c]
        BY <2>1 DEF Counted
      <3>2. c \in Of(Doc, w.billed) => metered[c] < sent[c]
        BY <2>1 DEF MeterShape, Of
      <3> QED BY <1>1, <2>1, <3>1, <3>2
    <2> QED BY <2>1, <2>2 DEF MeterShape, NeverOvercharged
  <1>7. CASE Wastes
    <2>1. PICK S \in SUBSET Chunk : sent' = Counted(sent, S)
      BY <1>7 DEF Wastes
    <2>2. \A c \in Chunk : sent'[c] = IF c \in S THEN sent[c] + 1 ELSE sent[c]
      BY <2>1 DEF Counted
    <2>3. metered' = metered /\ w'.pc \notin Paying
      BY <1>7 DEF Wastes
    <2> QED BY <1>1, <2>2, <2>3 DEF MeterShape, NeverOvercharged
  <1>8. CASE Carries
    BY <1>2, <1>3, <1>8 DEF Carries, MeterShape, NeverOvercharged
  <1>9. CASE StartsAfresh
    BY <1>9 DEF StartsAfresh, MeterShape, NeverOvercharged
  <1> QED BY <1>5, <1>6, <1>7, <1>8, <1>9, StepMeters

\* cost_records charge a chunk no more often than a request carried it: an
\* attempt that fails charges nothing, one that ends well charges the chunks it
\* sent itself, and a chunk found in the cache costs nothing.
THEOREM NobodyIsOvercharged == Spec => []NeverOvercharged
  <1>1. Init => MeterShape
    <2> SUFFICES ASSUME Init PROVE MeterShape
      OBVIOUS
    <2>1. /\ sent = [c \in Chunk |-> 0] /\ metered = [c \in Chunk |-> 0] /\ w = Asleep
      BY DEF Init, EmbedInit
    <2>2. NeverOvercharged
      BY ONLY <2>1 DEF NeverOvercharged
    <2>3. w.billed = {}
      BY <2>1 DEF Asleep
    <2> QED BY <2>2, <2>3 DEF MeterShape
  <1>2. EvidenceInv /\ MeterShape /\ [Next]_vars => MeterShape'
    BY MeterShapeStays
  <1>3. MeterShape => NeverOvercharged
    BY DEF MeterShape
  <1> QED BY <1>1, <1>2, <1>3, EvidenceHolds, PTL DEF Spec

-----------------------------------------------------------------------------
\* What is searchable.

\* No statement failed, nothing was cut off and neither service was ever away.
Undisturbed == faults = 0 /\ env.outages = 0

\* Then a row without a vector belongs to the batch at hand, and the worker has
\* nothing to do for a document that is DONE.
SearchShape ==
    Undisturbed =>
        /\ api /\ qdrant
        /\ \A c \in rows \ points : w.pc \in {"rows", "upsert"} /\ c \in Of(Doc, w.batch)
        /\ w.pc \in Embedding /\ w.todo # {} => docs[Doc] # "DONE"

LEMMA DisturbedStays ==
    ASSUME EvidenceInv, [Next]_vars, Undisturbed'
    PROVE  Undisturbed
  <1>0. faults \in Nat /\ env.outages \in Nat
    BY BoundsOfThePipeline DEF EvidenceInv, StoreTypeOK, EmbedShape, ServiceTypes
  <1>1. faults' = faults \/ faults' = faults + 1
    <2>1. CASE IngestNext
      BY <2>1 DEF IngestNext, StreamWorker, Ingesting, Publish, ReadEntry, Advance, StoreCursor,
                  StartCall, IngestFails, TooShort, CaptureCheck, CaptureCreate, CaptureWrite,
                  InsertRow, Decide, Fault, storeVars
    <2>2. CASE EmbedNext
      BY <2>2 DEF EmbedNext, Worker, Claim, Pause, Proceed, Skip, ReadCache, EmbedBatch,
                  InsertChunk, Upsert, Meter, MarkDone, Settle, Retry, GiveUp, MarkFailed,
                  ProcessErr, ReplyLost, TickFails, Services, Requeue, ApiDown, ApiUp,
                  QdrantDown, QdrantUp, BudgetYellow, BudgetGreen, Fault, storeVars
    <2>3. CASE Restart \/ UNCHANGED vars
      BY <2>3 DEF Restart, Fault, vars, storeVars
    <2> QED BY <2>1, <2>2, <2>3 DEF Next
  <1>2. env'.outages = env.outages \/ env'.outages = env.outages + 1
    <2>1. \/ UNCHANGED env
          \/ env' = [env EXCEPT !.outages = @ + 1]
          \/ env' = [env EXCEPT !.pauses = @ + 1]
          \/ env' = [env EXCEPT !.requeues = @ + 1]
      <3>1. CASE WorkerStep
        BY <3>1 DEF WorkerStep, Worker, Claim, Pause, Proceed, Skip, ReadCache, EmbedBatch,
                    InsertChunk, Upsert, Meter, MarkDone, Settle, Retry, GiveUp, MarkFailed,
                    ProcessErr, ReplyLost, TickFails, services
      <3>2. CASE Services \/ Requeue
        BY <3>2 DEF Services, Requeue, ApiDown, ApiUp, QdrantDown, QdrantUp, BudgetYellow,
                    BudgetGreen
      <3>3. CASE UNCHANGED embedVars \/ Restart \/ UNCHANGED vars
        BY <3>3 DEF embedVars, vars, Restart, EmbedRestart, services
      <3> QED BY <3>1, <3>2, <3>3 DEF Next, EmbedNext, WorkerStep
    <2>2. env \in [outages : 0 .. MaxOutages, pauses : 0 .. MaxPauses,
                   requeues : 0 .. MaxRequeues]
      BY DEF EvidenceInv, EmbedShape, ServiceTypes
    <2> QED BY <2>1, <2>2
  <1> QED BY <1>0, <1>1, <1>2 DEF Undisturbed

\* Steps that leave chunks alone.
LEMMA SearchAside ==
    ASSUME SearchShape, Undisturbed, UNCHANGED <<rows, points>>, api', qdrant',
           w.pc \notin {"rows", "upsert"}, w'.pc \notin Embedding
    PROVE  SearchShape'
  BY DEF SearchShape, Embedding

LEMMA WorkerSearches ==
    ASSUME EvidenceInv, SearchShape, Undisturbed, Undisturbed', WorkerStep
    PROVE  SearchShape'
  <1>0. /\ w \in WorkerRec /\ EmbedHere /\ api /\ qdrant /\ UNCHANGED <<api, qdrant>>
        /\ faults \in Nat /\ faults' = faults
    <2>1. EmbedHere /\ w \in WorkerRec /\ faults \in Nat
      BY ShapeOfWorker, BoundsOfThePipeline
         DEF EvidenceInv, EmbedShape, WorkerShape, StoreTypeOK
    <2>2. UNCHANGED <<api, qdrant>>
      BY DEF WorkerStep, Worker, Claim, Pause, Proceed, Skip, ReadCache, EmbedBatch,
             InsertChunk, Upsert, Meter, MarkDone, Settle, Retry, GiveUp, MarkFailed,
             ProcessErr, ReplyLost, TickFails, services
    <2> QED BY <2>1, <2>2 DEF SearchShape, Undisturbed
  <1>1. ~\E lost : Fault(lost)
    BY <1>0 DEF Fault
  <1>2. CASE Claim \/ Pause \/ Settle \/ Retry \/ MarkFailed \/ Proceed \/ Skip \/ Meter
             \/ MarkDone \/ GiveUp
    <2>1. w.pc \notin {"rows", "upsert"} /\ UNCHANGED <<rows, points>>
      BY <1>2 DEF Claim, Pause, Settle, Retry, MarkFailed, Proceed, Skip, Meter, MarkDone, GiveUp
    <2>2. CASE Claim \/ Pause \/ Settle \/ Retry \/ MarkFailed
      <3>1. ASSUME Claim PROVE w'.pc = "gate"
        <4>1. PICK i \in Pending : w' = [Asleep EXCEPT !.pc = "gate", !.job = i]
          BY <3>1 DEF Claim
        <4> QED BY <4>1 DEF Asleep
      <3>2. w'.pc \in {"gate", "idle"}
        BY <2>2, <3>1 DEF Pause, Settle, Retry, MarkFailed, Asleep
      <3> QED BY <1>0, <2>1, <3>2, SearchAside DEF Embedding
    <2>3. CASE Proceed \/ Skip \/ Meter \/ MarkDone \/ GiveUp
      <3>1. w'.pc \in {"decide", "settle", "mark", "doc_failed"}
        BY <1>0, <2>3 DEF Proceed, Skip, Meter, MarkDone, GiveUp, EmbedGoto, WorkerRec
      <3> QED BY <1>0, <2>1, <3>1, SearchAside DEF Embedding
    <2> QED BY <1>2, <2>2, <2>3
  <1>3. CASE ReadCache
    <2> DEFINE todo == {i \in ChunkIx : <<Doc, i>> \notin rows}
    <2>1. AtChunks /\ w.pc = "decide" /\ UNCHANGED <<rows, points>>
          /\ w' = [w EXCEPT !.pc = "embed", !.todo = todo]
      BY <1>0, <1>3 DEF ReadCache, AtChunks
    <2>2. w'.job = w.job /\ w'.pc = "embed" /\ w'.todo = todo
      <3> HIDE DEF todo
      <3> QED BY <1>0, <2>1 DEF WorkerRec
    <2>3. UNCHANGED docs /\ Doc' = Doc /\ Doc \in Contents
      BY <2>1, <2>2, ChunkFacts
    <2>4. todo # {} => docs[Doc] # "DONE"
      BY <2>3 DEF EvidenceInv, EmbedShape, DoneHasRows, Of
    <2>5. rows \subseteq points
      BY <2>1 DEF SearchShape
    <2> HIDE DEF todo
    <2> QED BY <1>0, <2>1, <2>2, <2>3, <2>4, <2>5 DEF SearchShape
  <1>4. CASE EmbedBatch
    <2>1. AtChunks /\ w.pc = "embed" /\ UNCHANGED <<rows, points>> /\ w.todo # {}
      BY <1>0, <1>4 DEF EmbedBatch, AtChunks
    <2>2. w'.job = w.job /\ w'.pc = "rows" /\ w'.todo = w.todo
      BY <1>0, <1>4 DEF WorkerRec, EmbedBatch
    <2>3. UNCHANGED docs /\ Doc' = Doc
      BY <2>1, <2>2, ChunkFacts
    <2> QED BY <1>0, <2>1, <2>2, <2>3 DEF SearchShape, Embedding
  <1>5. CASE InsertChunk
    <2> DEFINE left == {i \in w.batch : <<Doc, i>> \notin rows}
    <2>1. AtChunks /\ w.pc = "rows" /\ UNCHANGED points
          /\ rows' = rows \cup Of(Doc, First(left, 1))
          /\ (EmbedGoto("upsert") \/ EmbedGoto("rows"))
      BY <1>0, <1>5 DEF InsertChunk, AtChunks
    <2>2. w'.job = w.job /\ w'.pc \in {"rows", "upsert"} /\ w'.todo = w.todo /\ w'.batch = w.batch
      BY <1>0, <2>1 DEF WorkerRec, EmbedGoto
    <2>3. UNCHANGED docs /\ Doc' = Doc
      BY <2>1, <2>2, ChunkFacts
    <2>4. First(left, 1) \subseteq w.batch
      BY DEF First
    <2> HIDE DEF left
    <2>5. \A c \in rows' \ points' : c \in Of(Doc, w.batch)
      BY <2>1, <2>4 DEF SearchShape, Of
    <2> QED BY <1>0, <2>1, <2>2, <2>3, <2>5 DEF SearchShape, Embedding
  <1>6. CASE Upsert
    <2>1. AtChunks /\ w.pc = "upsert" /\ UNCHANGED rows
          /\ points' = points \cup Of(Doc, w.batch)
          /\ w' = [w EXCEPT !.pc = "embed", !.todo = @ \ w.batch, !.batch = {}]
      BY <1>0, <1>6 DEF Upsert, AtChunks
    <2>2. w'.job = w.job /\ w'.pc = "embed" /\ w'.todo \subseteq w.todo
      BY <1>0, <2>1 DEF WorkerRec
    <2>3. UNCHANGED docs /\ Doc' = Doc
      BY <2>1, <2>2, ChunkFacts
    <2>4. rows' \subseteq points'
      BY <2>1 DEF SearchShape
    <2> QED BY <1>0, <2>1, <2>2, <2>3, <2>4 DEF SearchShape, Embedding
  <1>7. CASE ProcessErr \/ ReplyLost \/ TickFails
    BY <1>0, <1>1, <1>7 DEF ProcessErr, ReplyLost, TickFails
  <1> QED BY <1>2, <1>3, <1>4, <1>5, <1>6, <1>7 DEF WorkerStep, Worker

LEMMA SearchShapeStays ==
    ASSUME EvidenceInv, SearchShape, [Next]_vars
    PROVE  SearchShape'
  <1> SUFFICES ASSUME Undisturbed' PROVE SearchShape'
    BY DEF SearchShape
  <1>0. Undisturbed /\ api /\ qdrant
    BY DisturbedStays DEF SearchShape
  <1>1. w.pc # "idle" => Doc \in Contents /\ (w'.job = w.job => Doc' = Doc)
    <2>1. JobsKept
      BY EvidenceStep
    <2> QED BY <2>1, DocInContents, SameDoc DEF EvidenceInv, EmbedShape
  <1>2. CASE WorkerStep
    BY <1>0, <1>2, WorkerSearches
  <1>3. CASE Services \/ Requeue \/ (IngestNext /\ UNCHANGED embedVars) \/ UNCHANGED vars
    <2>1. UNCHANGED <<w, rows, points>>
      BY <1>3 DEF Services, Requeue, ApiDown, ApiUp, QdrantDown, QdrantUp, BudgetYellow,
                  BudgetGreen, embedVars, vars
    <2>2. \A d \in Contents : docs'[d] = "DONE" => docs[d] = "DONE"
      <3>1. CASE IngestNext
        BY <3>1, IngestNextDone DEF EvidenceInv, IngestWrites
      <3>2. CASE Services \/ Requeue \/ UNCHANGED vars
        BY <3>2 DEF Services, Requeue, ApiDown, ApiUp, QdrantDown, QdrantUp, BudgetYellow,
                    BudgetGreen, vars, storeVars
      <3> QED BY <1>3, <3>1, <3>2
    <2>3. api' /\ qdrant'
      <3>1. env.outages \in Nat /\ env.outages = 0 /\ env'.outages = 0
            /\ env \in [outages : 0 .. MaxOutages, pauses : 0 .. MaxPauses,
                        requeues : 0 .. MaxRequeues]
        BY <1>0 DEF Undisturbed, EvidenceInv, EmbedShape, ServiceTypes
      <3>2. ~ApiDown /\ ~QdrantDown
        BY <3>1 DEF ApiDown, QdrantDown
      <3> QED BY <1>0, <1>3, <3>2 DEF Services, Requeue, ApiUp, QdrantUp, BudgetYellow,
                                      BudgetGreen, embedVars, vars
    <2> QED BY <1>0, <1>1, <2>1, <2>2, <2>3 DEF SearchShape, Embedding
  <1>4. ~Restart
    <2>1. faults = 0 /\ faults' = 0
      BY <1>0 DEF Undisturbed
    <2> QED BY <2>1 DEF Restart, Fault
  <1> QED BY <1>2, <1>3, <1>4 DEF Next, EmbedNext, WorkerStep

\* A document that is DONE is searchable as long as no statement failed, nothing
\* stopped or hung up and no service was away: DoneIsSearchable, which the code
\* breaks, is broken by a disturbance between the chunk rows and their upsert and
\* by nothing else, whatever is pushed, forced, paused or queued again.
THEOREM SearchableUndisturbed == Spec => [](Undisturbed => DoneIsSearchable)
  <1>1. Init => SearchShape
    BY DEF Init, EmbedInit, SearchShape, Asleep, Embedding
  <1>2. EvidenceInv /\ SearchShape /\ [Next]_vars => SearchShape'
    BY SearchShapeStays
  <1>3. EvidenceInv /\ SearchShape => (Undisturbed => DoneIsSearchable)
    <2> SUFFICES ASSUME EvidenceInv, SearchShape, Undisturbed,
                        NEW d \in Contents, docs[d] = "DONE"
                 PROVE  Of(d, ChunkIx) \subseteq points
      BY DEF DoneIsSearchable
    <2>1. Of(d, ChunkIx) \subseteq rows
      BY DEF EvidenceInv, EmbedShape, DoneHasRows
    <2>2. ASSUME NEW i \in ChunkIx, <<d, i>> \notin points PROVE FALSE
      <3>1. <<d, i>> \in rows \ points
        BY <2>1, <2>2 DEF Of
      <3>2. w.pc \in {"rows", "upsert"} /\ d = Doc /\ i \in w.batch
        BY <3>1 DEF SearchShape, Of
      <3>3. w.batch \subseteq w.todo
        BY <3>2 DEF EvidenceInv, EmbedShape, WorkerShape, Embedding
      <3> QED BY <3>2, <3>3 DEF SearchShape, Embedding
    <2> QED BY <2>2 DEF Of
  <1> QED BY <1>1, <1>2, <1>3, EvidenceHolds, PTL DEF Spec
=============================================================================
