------------------------------- MODULE Ingest -------------------------------
(***************************************************************************)
(* ingest.rs: ingest_content, the one entry for all evidence, called by    *)
(* agents (crawl_url, the push API, the SpiderFoot bridge) and by the      *)
(* worker that reads the Redis stream hub.ingest.                          *)
(*                                                                         *)
(* The worker handles one entry at a time and the stream is append-only,   *)
(* so a batch of XREAD is taken entry by entry.                            *)
(***************************************************************************)
EXTENDS EvidenceStore

CONSTANTS
    Callers,      \* agents and bridges that call ingest_content
    Blank,        \* contents below MIN_CONTENT_CHARS
    Modes,        \* the embed modes callers pass
    None,         \* "no value"
    MaxCalls,     \* bound: calls in a behaviour
    MaxEntries    \* bound: entries published to the stream

ASSUME IngestAssumption ==
    /\ Blank \subseteq Contents
    /\ Modes \subseteq {"auto", "force", "skip"}
    /\ None \notin Contents
    /\ "worker" \notin Callers
    /\ MaxCalls \in Nat
    /\ MaxEntries \in Nat

VARIABLES
    raw,      \* data/raw/<hash>.txt: "none", "partial" or "whole"
    call,     \* ingest_content in flight, for each process
    calls,    \* how much of MaxCalls is used
    stream,   \* hub.ingest
    cursor,   \* hub:ingest:lastid
    reader,   \* the stream worker
    dropped   \* history: entries whose ingest returned an error

ingestVars == <<raw, call, calls, stream, cursor, reader, dropped>>

Processes == Callers \cup {"worker"}

CallPc == {"idle", "check", "create", "write", "row", "job", "advance", "store"}
Idle == [pc |-> "idle", doc |-> None, mode |-> "auto"]

IngestTypeOK ==
    /\ raw \in [Contents -> {"none", "partial", "whole"}]
    /\ call \in [Processes -> [pc : CallPc, doc : Contents \cup {None},
                               mode : {"auto", "force", "skip"}]]
    /\ calls \in 0 .. MaxCalls
    /\ stream \in Seq(Contents) /\ Len(stream) <= MaxEntries
    /\ cursor \in 0 .. Len(stream)
    /\ reader \in [alive : BOOLEAN, pos : 0 .. Len(stream)]
    /\ dropped \subseteq DOMAIN stream

IngestInit ==
    /\ raw = [d \in Contents |-> "none"]
    /\ call = [p \in Processes |-> Idle]
    /\ calls = 0
    /\ stream = <<>>
    /\ cursor = 0
    /\ reader = [alive |-> TRUE, pos |-> 0]
    /\ dropped = {}

-----------------------------------------------------------------------------
\* Somebody adds an entry to hub.ingest.
Publish ==
    /\ Len(stream) < MaxEntries
    /\ \E d \in Contents : stream' = Append(stream, d)
    /\ UNCHANGED <<storeVars, raw, call, calls, cursor, reader, dropped>>

Goto(p, pc) == call' = [call EXCEPT ![p].pc = pc]

\* ingest_content returns.  The worker logs an error and moves on either way.
Return(p) == call' = [call EXCEPT ![p] = IF p = "worker" THEN [@ EXCEPT !.pc = "advance"]
                                         ELSE Idle]

\* Mutant of Err: the worker takes the entry again.
ErrAgain(p) ==
    /\ call' = [call EXCEPT ![p] = Idle]
    /\ UNCHANGED dropped

Err(p) ==
    /\ Return(p)
    /\ dropped' = IF p = "worker" THEN dropped \cup {reader.pos + 1} ELSE dropped

StartCall(p) ==
    /\ p \in Callers /\ call[p].pc = "idle"
    /\ calls < MaxCalls
    /\ calls' = calls + 1
    /\ \E d \in Contents, m \in Modes :
            call' = [call EXCEPT ![p] = [pc |-> "check", doc |-> d, mode |-> m]]
    /\ UNCHANGED <<storeVars, raw, stream, cursor, reader, dropped>>

\* XREAD after last_id.
ReadEntry ==
    /\ call["worker"].pc = "idle"
    /\ reader.alive
    /\ reader.pos < Len(stream)
    /\ call' = [call EXCEPT !["worker"] = [pc |-> "check", doc |-> stream[reader.pos + 1],
                                           mode |-> "auto"]]
    /\ UNCHANGED <<storeVars, raw, calls, stream, cursor, reader, dropped>>

TooShort(p) ==
    /\ call[p].pc = "check"
    /\ call[p].doc \in Blank
    /\ Err(p)
    /\ UNCHANGED <<storeVars, raw, calls, stream, cursor, reader>>

\* try_exists: the raw capture is not written again.
CaptureCheck(p) ==
    /\ call[p].pc = "check"
    /\ call[p].doc \notin Blank
    /\ Goto(p, IF raw[call[p].doc] = "none" THEN "create" ELSE "row")
    /\ UNCHANGED <<storeVars, raw, calls, stream, cursor, reader, dropped>>

\* tokio::fs::write creates or truncates the file, then writes it.
CaptureCreate(p) ==
    /\ call[p].pc = "create"
    /\ raw' = [raw EXCEPT ![call[p].doc] = "partial"]
    /\ Goto(p, "write")
    /\ UNCHANGED <<storeVars, calls, stream, cursor, reader, dropped>>

CaptureWrite(p) ==
    /\ call[p].pc = "write"
    /\ raw' = [raw EXCEPT ![call[p].doc] = "whole"]
    /\ Goto(p, "row")
    /\ UNCHANGED <<storeVars, calls, stream, cursor, reader, dropped>>

\* Mutant of InsertRow: the duplicate is looked up and not decided by the INSERT.
InsertRowAlways(p) ==
    /\ call[p].pc = "row"
    /\ docs' = [docs EXCEPT ![call[p].doc] = "PENDING"]
    /\ Goto(p, "job")
    /\ UNCHANGED <<jobs, faults, cut, raw, calls, stream, cursor, reader, dropped>>

\* INSERT ... ON CONFLICT (content_hash) DO NOTHING; a duplicate ends the call.
InsertRow(p) ==
    LET d == call[p].doc IN
    /\ call[p].pc = "row"
    /\ \/ /\ docs[d] = "absent"
          /\ docs' = [docs EXCEPT ![d] = "PENDING"]
          /\ Goto(p, "job")
       \/ /\ docs[d] # "absent"
          /\ Return(p)
          /\ UNCHANGED docs
    /\ UNCHANGED <<jobs, faults, cut, raw, calls, stream, cursor, reader, dropped>>

\* Mutant of Decide: a mode other than auto queues nothing.
DecideAutoOnly(p) ==
    LET d == call[p].doc IN
    /\ call[p].pc = "job"
    /\ jobs' = IF call[p].mode = "auto" THEN Append(jobs, NewJob(d, FALSE)) ELSE jobs
    /\ docs' = IF call[p].mode = "skip" THEN [docs EXCEPT ![d] = "SKIPPED"] ELSE docs
    /\ Return(p)
    /\ UNCHANGED <<faults, cut, raw, calls, stream, cursor, reader, dropped>>

\* Who inserted the row marks it SKIPPED or queues its embedding job.
Decide(p) ==
    LET d == call[p].doc IN
    /\ call[p].pc = "job"
    /\ \/ /\ call[p].mode = "skip"
          /\ docs' = [docs EXCEPT ![d] = "SKIPPED"]
          /\ UNCHANGED jobs
       \/ /\ call[p].mode # "skip"
          /\ jobs' = Append(jobs, NewJob(d, call[p].mode = "force"))
          /\ UNCHANGED docs
    /\ Return(p)
    /\ UNCHANGED <<faults, cut, raw, calls, stream, cursor, reader, dropped>>

\* A failed write or statement ends ingest_content, or the caller hangs up: what
\* was done stays.  (The failed UPDATE of the mode "skip" is only ignored.)
IngestFails(p) ==
    /\ call[p].pc \in {"create", "write", "row", "job"}
    /\ Fault(IF call[p].pc = "job" THEN {call[p].doc} ELSE {})
    /\ Err(p)
    /\ UNCHANGED <<docs, jobs, raw, calls, stream, cursor, reader>>

Advance ==
    /\ call["worker"].pc = "advance"
    /\ reader' = [reader EXCEPT !.pos = @ + 1]
    /\ Goto("worker", "store")
    /\ UNCHANGED <<storeVars, raw, calls, stream, cursor, dropped>>

\* Mutant of StoreCursor: the last entry of the batch that XREAD returned.
StoreCursorOfBatch ==
    /\ call["worker"].pc = "store"
    /\ cursor' = Len(stream)
    /\ call' = [call EXCEPT !["worker"] = Idle]
    /\ UNCHANGED <<storeVars, raw, calls, stream, reader, dropped>>

\* SET hub:ingest:lastid; its failure is ignored.
StoreCursor ==
    /\ call["worker"].pc = "store"
    /\ \/ /\ cursor' = reader.pos
          /\ UNCHANGED storeVars
       \/ /\ Fault({})
          /\ UNCHANGED <<docs, jobs, cursor>>
    /\ call' = [call EXCEPT !["worker"] = Idle]
    /\ UNCHANGED <<raw, calls, stream, reader, dropped>>

\* What hub-core loses of ingest when it stops, and how the worker starts again:
\* at the stored cursor, or at 0 when the GET fails; not at all when its own
\* connection fails then.
IngestCut == {call[p].doc : p \in {q \in Processes : call[q].pc = "job"}}

IngestRestart ==
    /\ call' = [p \in Processes |-> Idle]
    /\ \E pos \in {0, cursor}, alive \in BOOLEAN :
            reader' = [alive |-> alive, pos |-> pos]
    /\ UNCHANGED <<raw, calls, stream, cursor, dropped>>

Ingesting(p) ==
    \/ TooShort(p) \/ CaptureCheck(p) \/ CaptureCreate(p) \/ CaptureWrite(p)
    \/ InsertRow(p) \/ Decide(p)

StreamWorker == ReadEntry \/ Ingesting("worker") \/ Advance \/ StoreCursor

IngestNext ==
    \/ Publish
    \/ StreamWorker
    \/ \E p \in Callers : StartCall(p) \/ Ingesting(p)
    \/ \E p \in Processes : IngestFails(p)
=============================================================================
