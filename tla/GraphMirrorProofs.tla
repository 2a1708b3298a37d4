------------------------- MODULE GraphMirrorProofs -------------------------
(***************************************************************************)
(* Proofs about GraphMirror: its type invariant, and what a step does to   *)
(* the two tables that everything else is proved from.                     *)
(***************************************************************************)
EXTENDS GraphMirror, SequenceTheorems, TLAPS

-----------------------------------------------------------------------------
\* The strengthening: what a call holds at each pc, and what the reconciler
\* holds while it compares.

ClientShape(c) ==
    /\ c.pc \in {"entity_graph", "entity_log", "about_row"} => c.ent \in Entities
    /\ c.pc \in {"endpoints", "relationship_row", "relationship_graph",
                 "relationship_log"}
            => c.ent \in Entities /\ c.other \in Entities
    /\ c.pc \in {"claim_row", "evidence_row", "evidence_graph", "about_row",
                 "claim_graph", "claim_log", "extract_audit", "extract_commit"}
            => c.claim \in Claims
    /\ c.pc = "evidence_graph" => c.other \in Docs

RecShape ==
    /\ rec.pc \in {"neo", "act"} => rec.seen \subseteq Scope(Sections[rec.stage])
    /\ rec.pc = "act" /\ Sections[rec.stage] \in FillSections
            => rec.todo \subseteq rec.seen

\* A pending row has attempts left, and the replay worker, the only one that
\* settles rows, holds pending rows only.
QueueShape ==
    /\ \A i \in DOMAIN queue :
            queue[i].status = "PENDING" => queue[i].attempts < MaxAttempts
    /\ \A i \in replay.batch : queue[i].status = "PENDING"

TypeInv ==
    /\ TypeOK
    /\ \A p \in Clients : ClientShape(client[p])
    /\ RecShape
    /\ QueueShape

-----------------------------------------------------------------------------
\* Ops.

\* The ops the handlers and the reconciler build are well formed.
LEMMA OpTypes ==
    /\ \A e \in Entities : EntityOp(e) \in Op
    /\ \A a, b \in Entities : RelationshipOp(a, b) \in Op
    /\ \A c \in Claims, D \in SUBSET Entities : ClaimOp(c, D) \in Op
    /\ \A c \in Claims, d \in Docs : EvidenceOp(c, d) \in Op
    /\ \A d \in Docs : DocumentOp(d) \in Op
  BY DEF EntityOp, RelationshipOp, ClaimOp, EvidenceOp, DocumentOp, Op, OpType, Node

\* An op writes facts.
LEMMA WritesType == \A op \in Op : Writes(op) \subseteq Fact
  BY DEF Writes, Op, OpType, Fact, Edge

\* Applying an op, or the part of it that was sent, leaves a set of facts.
LEMMA ApplyType ==
    ASSUME NEW g, g \subseteq Fact, NEW op \in Op
    PROVE  Apply(op, g) \subseteq Fact
  BY WritesType DEF Apply

LEMMA FragmentsType == \A op \in Op : Fragments(op) \subseteq Op
  <1> SUFFICES ASSUME NEW op \in Op PROVE Fragments(op) \subseteq Op
    OBVIOUS
  <1>1. CASE op.type = "create_claim"
    BY <1>1 DEF Fragments, Op
  <1>2. CASE op.type # "create_claim"
    BY <1>2 DEF Fragments
  <1> QED BY <1>1, <1>2

\* What a handler is about to write is an op.
LEMMA IntentType ==
    ASSUME NEW c \in ClientState, c.pc \in GraphPc, ClientShape(c)
    PROVE  Intent(c) \in Op
  <1>1. CASE c.pc = "entity_graph"
    BY <1>1, OpTypes DEF Intent, ClientShape
  <1>2. CASE c.pc = "relationship_graph"
    BY <1>2, OpTypes DEF Intent, ClientShape
  <1>3. CASE c.pc = "evidence_graph"
    BY <1>3, OpTypes DEF Intent, ClientShape
  <1>4. CASE c.pc = "claim_graph"
    <2>1. c.about \in SUBSET Entities
      BY DEF ClientState
    <2> QED BY <1>4, <2>1, OpTypes DEF Intent, ClientShape
  <1> QED BY <1>1, <1>2, <1>3, <1>4 DEF GraphPc

\* What the reconciler backfills is an op.
LEMMA FillOpType ==
    ASSUME NEW f \in Claims \cup Docs \cup (Claims \X Docs)
    PROVE  FillOp(f) \in Op
  <1>1. CASE f \in Claims
    BY <1>1, OpTypes DEF FillOp
  <1>2. CASE f \in Docs
    BY <1>2, OpTypes, SortsAssumption DEF FillOp
  <1>3. CASE f \in Claims \X Docs
    <2>1. f \notin Claims /\ f \notin Docs
      BY <1>3, SortsAssumption
    <2> QED BY <1>3, <2>1, OpTypes DEF FillOp
  <1> QED BY <1>1, <1>2, <1>3

\* A new row of the queue is a row.
LEMMA NewRowType ==
    ASSUME NEW key \in Fact \cup {None}, NEW op \in Op
    PROVE  NewRow(key, op) \in QueueRow
  BY SizesAssumption DEF NewRow, QueueRow

LEMMA MarkedType ==
    ASSUME NEW row \in QueueRow, row.status = "PENDING", row.attempts < MaxAttempts,
           NEW o \in {"ok", "err"}
    PROVE  /\ Marked(row, o) \in QueueRow
           /\ Marked(row, o).op = row.op
           /\ Marked(row, o).status = "PENDING" => Marked(row, o).attempts < MaxAttempts
           /\ Marked(row, o).status = "DONE" => o = "ok"
  <1>1. CASE o = "ok"
    BY <1>1 DEF Marked, QueueRow
  <1>2. CASE o = "err"
    <2> DEFINE st == IF row.attempts >= MaxAttempts - 1 THEN "FAILED" ELSE "PENDING"
    <2>1. Marked(row, o) = [row EXCEPT !.attempts = row.attempts + 1, !.status = st]
      BY <1>2 DEF Marked
    <2>2. row.attempts \in 0 .. MaxAttempts /\ MaxAttempts \in Nat
      BY SizesAssumption DEF QueueRow
    <2>3. row.attempts + 1 \in 0 .. MaxAttempts
      BY <2>2
    <2>4. st \in {"FAILED", "PENDING"} /\ (st = "PENDING" => row.attempts + 1 < MaxAttempts)
      BY <2>2
    <2>5. Marked(row, o) = [key |-> row.key, op |-> row.op, status |-> st,
                            attempts |-> row.attempts + 1]
      BY <2>1 DEF QueueRow
    <2> HIDE DEF st
    <2> QED BY <2>3, <2>4, <2>5 DEF QueueRow
  <1> QED BY <1>1, <1>2

-----------------------------------------------------------------------------
\* The two tables: what a step does to each of them.

\* Who writes a row to graph_change_log, and with which op.
LogSource(op, early) == \E p \in Clients :
    \/ client[p].pc = "entity_log" /\ op = EntityOp(client[p].ent)
    \/ /\ client[p].pc = "relationship_log"
       /\ op = RelationshipOp(client[p].ent, client[p].other)
    \/ client[p].pc = "claim_log" /\ op = ClaimOp(client[p].claim, client[p].about)
    \/ early

LogAppend == \E op \in Op, early \in BOOLEAN :
    /\ LogSource(op, early)
    /\ log' = Append(log, [op |-> op, early |-> early, mirrored |-> FALSE])

\* Who puts an op in graph_sync_queue.
QueueSource(op) ==
    \/ \E p \in Clients : client[p].pc \in GraphPc /\ op = Intent(client[p])
    \/ \E i \in mirror.batch : op \in Translate(log[i].op)
    \/ /\ rec.pc = "act" /\ Sections[rec.stage] \in FillSections
       /\ \E f \in rec.todo : op = FillOp(f)

QueueAppend == \E key \in Fact \cup {None}, op \in Op :
    /\ QueueSource(op)
    /\ queue' = Append(queue, NewRow(key, op))

LEMMA TableTypes ==
    ASSUME TypeInv
    PROVE  /\ DOMAIN log = 1 .. Len(log) /\ Len(log) \in Nat
           /\ DOMAIN queue = 1 .. Len(queue) /\ Len(queue) \in Nat
           /\ replay.batch \subseteq DOMAIN queue
           /\ mirror.batch \subseteq DOMAIN log
           /\ \A i \in DOMAIN log : log[i] \in LogRow
           /\ \A i \in DOMAIN queue : queue[i] \in QueueRow
  <1>1. log \in Seq(LogRow) /\ queue \in Seq(QueueRow)
    BY DEF TypeInv, TypeOK, TablesOK
  <1>2. /\ DOMAIN log = 1 .. Len(log) /\ Len(log) \in Nat
        /\ DOMAIN queue = 1 .. Len(queue) /\ Len(queue) \in Nat
    BY <1>1, LenProperties
  <1>3. replay.batch \subseteq 1 .. Len(queue) /\ mirror.batch \subseteq 1 .. Len(log)
    BY DEF TypeInv, TypeOK, WorkersOK
  <1> QED BY <1>1, <1>2, <1>3, ElementOfSeq

\* graph_change_log only grows, but for the stamp of the mirror worker.
LEMMA LogStep ==
    ASSUME TypeInv, [Next]_vars
    PROVE  \/ log' = log
           \/ LogAppend
           \/ MirrorStamp
  <1> USE DEF TypeInv
  <1>1. CASE \E p \in Clients : EntityLog(p)
    <2>1. PICK p \in Clients : EntityLog(p)
      BY <1>1
    <2>2. EntityOp(client[p].ent) \in Op
      BY <2>1, OpTypes DEF EntityLog, ClientShape
    <2> QED BY <2>1, <2>2 DEF EntityLog, AppendLog, LogAppend, LogSource
  <1>2. CASE \E p \in Clients : RelationshipLog(p)
    <2>1. PICK p \in Clients : RelationshipLog(p)
      BY <1>2
    <2>2. RelationshipOp(client[p].ent, client[p].other) \in Op
      BY <2>1, OpTypes DEF RelationshipLog, ClientShape
    <2> QED BY <2>1, <2>2 DEF RelationshipLog, AppendLog, LogAppend, LogSource
  <1>3. CASE \E p \in Clients : ClaimLog(p)
    <2>1. PICK p \in Clients : ClaimLog(p)
      BY <1>3
    <2>2. client[p].claim \in Claims /\ client[p].about \in SUBSET Entities
      BY <2>1 DEF ClaimLog, ClientShape, TypeOK, ClientState
    <2>3. ClaimOp(client[p].claim, client[p].about) \in Op
      BY <2>2, OpTypes
    <2> QED BY <2>1, <2>3 DEF ClaimLog, AppendLog, LogAppend, LogSource
  <1>4. CASE \E p \in Clients : ExtractAudit(p)
    <2>1. PICK p \in Clients : ExtractAudit(p)
      BY <1>4
    <2>2. client[p].claim \in Claims /\ client[p].ents \in SUBSET Entities
      BY <2>1 DEF ExtractAudit, ClientShape, TypeOK, ClientState
    <2>3. ClaimOp(client[p].claim, client[p].ents) \in Op
      BY <2>2, OpTypes
    <2> QED BY <2>1, <2>3 DEF ExtractAudit, AppendLog, LogAppend, LogSource
  <1>5. ASSUME NEW p \in Clients,
               \/ Start(p) \/ EntityRow(p) \/ ClaimRow(p) \/ EvidenceRow(p)
               \/ AboutRow(p) \/ Endpoints(p) \/ RelationshipRow(p) \/ Rejected(p)
               \/ GraphWriteOk(p) \/ GraphWriteErr(p) \/ Enqueue(p)
               \/ ExtractCommit(p) \/ EnqueueLost(p) \/ ClientAbort(p)
        PROVE  log' = log
    BY <1>5 DEF Start, StartEntity, StartRelationship, StartClaim, StartExtract, Call,
        EntityRow, ClaimRow, EvidenceRow, AboutRow, Endpoints, RelationshipRow,
        Rejected, Insert, GraphWriteOk, GraphWriteErr, Enqueue, ExtractCommit,
        EnqueueLost, ClientAbort, GraphWritten, tables
  <1>6. ASSUME Replay \/ MirrorTick \/ MirrorEnqueue \/ Reconcile
        PROVE  log' = log
    BY <1>6 DEF Replay, ReplayTick, ReplayTry, ReplayMark, MirrorTick, MirrorEnqueue,
        Reconcile, ReconcileStart, ReconcileReadPg, ReconcileReadNeo, ReconcileSweep,
        ReconcileFill, ReconcileNext, ReconcileAbort, tables
  <1>7. ASSUME Restart \/ WorkerAbort \/ NeoDown \/ NeoUp \/ AdminDelete
        PROVE  log' = log
    BY <1>7 DEF Restart, WorkerAbort, NeoDown, NeoUp, AdminDelete, tables
  <1>8. CASE UNCHANGED vars
    BY <1>8 DEF vars, tables
  <1> QED BY <1>1, <1>2, <1>3, <1>4, <1>5, <1>6, <1>7, <1>8
          DEF Next, Handler, Mirror

\* graph_sync_queue only grows, but for the row the replay worker settles.
LEMMA QueueStep ==
    ASSUME TypeInv, [Next]_vars
    PROVE  \/ queue' = queue
           \/ QueueAppend
           \/ ReplayMark
  <1> USE DEF TypeInv
  <1>1. CASE \E p \in Clients : Enqueue(p)
    <2>1. PICK p \in Clients : Enqueue(p)
      BY <1>1
    <2>2. Intent(client[p]) \in Op
      BY <2>1, IntentType DEF Enqueue, TypeOK
    <2> QED BY <2>1, <2>2 DEF Enqueue, QueueAppend, QueueSource
  <1>2. CASE MirrorEnqueue
    <2>1. PICK i \in mirror.batch :
            IF Translate(log[i].op) = {} THEN queue' = queue
            ELSE \E op \in Translate(log[i].op) :
                    queue' = Append(queue, NewRow(None, op))
      BY <1>2 DEF MirrorEnqueue
    <2>2. log[i].op \in Op
      BY TableTypes DEF LogRow
    <2>3. Translate(log[i].op) \subseteq Op
      BY <2>2 DEF Translate
    <2> QED BY <2>1, <2>3 DEF QueueAppend, QueueSource
  <1>3. CASE ReconcileFill
    <2>1. PICK f \in rec.todo :
            queue' = queue \/ queue' = Append(queue, NewRow(f, FillOp(f)))
      BY <1>3 DEF ReconcileFill
    <2>2. Sections[rec.stage] \in FillSections /\ f \in Scope(Sections[rec.stage])
      BY <1>3 DEF ReconcileFill, RecShape
    <2>3. f \in Claims \cup Docs \cup (Claims \X Docs)
      BY <2>2 DEF Scope, FillSections
    <2>4. f \in Fact
      BY <2>3 DEF Fact, Node, Edge
    <2> QED BY <1>3, <2>1, <2>3, <2>4, FillOpType
            DEF QueueAppend, QueueSource, ReconcileFill
  <1>4. ASSUME NEW p \in Clients,
               \/ Start(p) \/ EntityRow(p) \/ ClaimRow(p) \/ EvidenceRow(p)
               \/ AboutRow(p) \/ Endpoints(p) \/ RelationshipRow(p) \/ Rejected(p)
               \/ GraphWriteOk(p) \/ GraphWriteErr(p) \/ EntityLog(p)
               \/ RelationshipLog(p) \/ ClaimLog(p) \/ ExtractAudit(p)
               \/ ExtractCommit(p) \/ EnqueueLost(p) \/ ClientAbort(p)
        PROVE  queue' = queue
    BY <1>4 DEF Start, StartEntity, StartRelationship, StartClaim, StartExtract, Call,
        EntityRow, ClaimRow, EvidenceRow, AboutRow, Endpoints, RelationshipRow,
        Rejected, Insert, GraphWriteOk, GraphWriteErr, EntityLog, RelationshipLog,
        ClaimLog, ExtractAudit, AppendLog, ExtractCommit, EnqueueLost, ClientAbort,
        tables
  <1>5. ASSUME \/ ReplayTick \/ ReplayTry \/ MirrorTick \/ MirrorStamp
               \/ ReconcileStart \/ ReconcileReadPg \/ ReconcileReadNeo
               \/ ReconcileSweep \/ ReconcileNext \/ ReconcileAbort
        PROVE  queue' = queue
    BY <1>5 DEF ReplayTick, ReplayTry, MirrorTick, MirrorStamp, ReconcileStart,
        ReconcileReadPg, ReconcileReadNeo, ReconcileSweep, ReconcileNext,
        ReconcileAbort, tables
  <1>6. ASSUME Restart \/ WorkerAbort \/ NeoDown \/ NeoUp \/ AdminDelete
        PROVE  queue' = queue
    BY <1>6 DEF Restart, WorkerAbort, NeoDown, NeoUp, AdminDelete, tables
  <1>7. CASE UNCHANGED vars
    BY <1>7 DEF vars, tables
  <1> QED BY <1>1, <1>2, <1>3, <1>4, <1>5, <1>6, <1>7
          DEF Next, Handler, Replay, Mirror, Reconcile

\* Rows keep their place, their op and their key.
LEMMA LogGrows ==
    ASSUME TypeInv, [Next]_vars
    PROVE  /\ log' \in Seq(LogRow)
           /\ DOMAIN log \subseteq DOMAIN log'
           /\ \A i \in DOMAIN log :
                /\ log'[i].op = log[i].op
                /\ log'[i].early = log[i].early
                /\ log[i].mirrored => log'[i].mirrored
  <1>0. log \in Seq(LogRow)
    BY DEF TypeInv, TypeOK, TablesOK
  <1>1. CASE log' = log
    BY <1>0, <1>1
  <1>2. CASE LogAppend
    <2>1. PICK row \in LogRow : log' = Append(log, row)
      BY <1>2 DEF LogAppend, LogRow
    <2> QED BY <1>0, <2>1, AppendProperties, LenProperties, TableTypes
  <1>3. CASE MirrorStamp
    <2>1. PICK i \in mirror.batch : log' = [log EXCEPT ![i].mirrored = TRUE]
      BY <1>3 DEF MirrorStamp
    <2>2. i \in 1 .. Len(log) /\ log[i] \in LogRow
      BY TableTypes
    <2>3. [log[i] EXCEPT !.mirrored = TRUE] \in LogRow
      BY <2>2 DEF LogRow
    <2>4. log' = [log EXCEPT ![i] = [log[i] EXCEPT !.mirrored = TRUE]]
      BY <2>1
    <2>5. /\ log' \in Seq(LogRow) /\ Len(log') = Len(log)
          /\ \A j \in 1 .. Len(log) :
                log'[j] = IF j = i THEN [log[i] EXCEPT !.mirrored = TRUE] ELSE log[j]
      BY <1>0, <2>2, <2>3, <2>4, ExceptSeq
    <2>6. DOMAIN log' = DOMAIN log
      BY <2>5, <1>0, LenProperties
    <2> QED BY <2>2, <2>5, <2>6, TableTypes DEF LogRow
  <1> QED BY <1>1, <1>2, <1>3, LogStep

LEMMA QueueGrows ==
    ASSUME TypeInv, [Next]_vars
    PROVE  /\ queue' \in Seq(QueueRow)
           /\ DOMAIN queue \subseteq DOMAIN queue'
           /\ \A i \in DOMAIN queue : queue'[i].op = queue[i].op
           /\ \A i \in DOMAIN queue' : queue'[i].status = "PENDING"
                    => queue'[i].attempts < MaxAttempts
           /\ \A i \in DOMAIN queue :
                queue'[i] = queue[i] \/ (ReplayMark /\ IsFirst(i, replay.batch))
  <1>0. queue \in Seq(QueueRow)
    BY DEF TypeInv, TypeOK, TablesOK
  <1>1. CASE queue' = queue
    BY <1>0, <1>1 DEF TypeInv, QueueShape
  <1>2. CASE QueueAppend
    <2>1. PICK row \in QueueRow : queue' = Append(queue, row) /\ row.attempts = 0
      BY <1>2, NewRowType DEF QueueAppend, NewRow
    <2>2. /\ queue' \in Seq(QueueRow) /\ Len(queue') = Len(queue) + 1
          /\ \A i \in 1 .. Len(queue) : queue'[i] = queue[i]
          /\ queue'[Len(queue) + 1] = row
      BY <1>0, <2>1, AppendProperties
    <2>3. DOMAIN queue' = 1 .. Len(queue) + 1
      BY <2>2, LenProperties
    <2> QED BY <2>1, <2>2, <2>3, TableTypes, SizesAssumption DEF TypeInv, QueueShape
  <1>3. CASE ReplayMark
    <2>1. PICK i \in replay.batch :
            /\ IsFirst(i, replay.batch)
            /\ queue' = [queue EXCEPT ![i] = Marked(queue[i], replay.outcome)]
      BY <1>3 DEF ReplayMark
    <2>2. i \in 1 .. Len(queue) /\ queue[i] \in QueueRow
      BY TableTypes
    <2>3. queue[i].status = "PENDING" /\ queue[i].attempts < MaxAttempts
      BY <2>2, TableTypes DEF TypeInv, QueueShape
    <2>4. replay.outcome \in {"ok", "err"}
      BY <1>3 DEF ReplayMark, TypeInv, TypeOK, WorkersOK
    <2> DEFINE row == Marked(queue[i], replay.outcome)
    <2>5. /\ row \in QueueRow /\ row.op = queue[i].op
          /\ row.status = "PENDING" => row.attempts < MaxAttempts
      BY <2>2, <2>3, <2>4, MarkedType
    <2> HIDE DEF row
    <2>6. /\ queue' \in Seq(QueueRow) /\ Len(queue') = Len(queue)
          /\ \A j \in 1 .. Len(queue) : queue'[j] = IF j = i THEN row ELSE queue[j]
      BY <1>0, <2>1, <2>2, <2>5, ExceptSeq DEF row
    <2>7. DOMAIN queue' = DOMAIN queue
      BY <2>6, <1>0, LenProperties
    <2>8. \A j \in DOMAIN queue : queue'[j] = queue[j] \/ IsFirst(j, replay.batch)
      BY <2>1, <2>6, TableTypes
    <2> QED BY <1>3, <2>5, <2>6, <2>7, <2>8, TableTypes DEF TypeInv, QueueShape
  <1> QED BY <1>1, <1>2, <1>3, QueueStep

-----------------------------------------------------------------------------
\* The type invariant, one part of the state at a time.

\* Owed facts are facts.
LEMMA OwedType ==
    ASSUME NEW c \in ClientState, ClientShape(c)
    PROVE  Owed(c) \subseteq Fact
  BY DEF Owed, ClientShape, Fact, Node, Edge

\* The result of try_graph_write, success or failure, leaves facts in Neo4j.
LEMMA GraphWriteType ==
    ASSUME TypeInv, NEW op \in Op, Succeeds(op) \/ Fails(op)
    PROVE  /\ neo' \subseteq Fact
           /\ up' \in BOOLEAN
           /\ spent' \in [calls : 0 .. MaxCalls, faults : 0 .. MaxFaults,
                          outages : 0 .. MaxOutages, deletes : 0 .. MaxDeletes]
  <1> USE DEF TypeInv, TypeOK
  <1>1. CASE Succeeds(op)
    BY <1>1, ApplyType DEF Succeeds
  <1>2. CASE Fails(op) /\ ~up
    BY <1>2 DEF Fails
  <1>3. CASE Fails(op) /\ up
    <2>1. PICK f \in Fragments(op) : neo' = Apply(f, neo)
      BY <1>3 DEF Fails
    <2>2. neo' \subseteq Fact
      BY <2>1, FragmentsType, ApplyType
    <2>3. spent.outages < MaxOutages /\ spent' = [spent EXCEPT !.outages = @ + 1]
      BY <1>3 DEF Fails
    <2>4. spent.outages + 1 \in 0 .. MaxOutages
      BY <2>3, SizesAssumption
    <2> QED BY <1>3, <2>2, <2>3, <2>4 DEF Fails
  <1> QED BY <1>1, <1>2, <1>3

LEMMA RowOpType ==
    ASSUME TypeInv, NEW i \in replay.batch
    PROVE  queue[i].op \in Op
  BY TableTypes DEF QueueRow

LEMMA StoresTyped ==
    ASSUME TypeInv, [Next]_vars
    PROVE  pg' \subseteq Fact /\ neo' \subseteq Fact /\ up' \in BOOLEAN
  <1> USE DEF TypeInv, TypeOK
  <1> DEFINE Goal == pg' \subseteq Fact /\ neo' \subseteq Fact /\ up' \in BOOLEAN
  <1>1. ASSUME NEW p \in Clients, EntityRow(p) \/ ClaimRow(p) \/ EvidenceRow(p)
                                  \/ AboutRow(p) \/ RelationshipRow(p)
        PROVE  Goal
    <2>1. PICK f, c : Insert(p, f, c) /\ f \in Fact
      <3> client[p] \in ClientState /\ ClientShape(client[p])
        OBVIOUS
      <3>1. CASE EntityRow(p)
        BY <3>1 DEF EntityRow, ClientState, Fact, Node
      <3>2. CASE ClaimRow(p)
        BY <3>2 DEF ClaimRow, ClientShape, Fact, Node
      <3>3. CASE EvidenceRow(p)
        BY <3>3 DEF EvidenceRow, ClientShape, ClientState, Fact, Node, Edge
      <3>4. CASE AboutRow(p)
        BY <3>4 DEF AboutRow, ClientShape, Fact, Node, Edge
      <3>5. CASE RelationshipRow(p)
        BY <3>5 DEF RelationshipRow, ClientShape, Fact, Node, Edge
      <3> QED BY <1>1, <3>1, <3>2, <3>3, <3>4, <3>5
    <2> QED BY <2>1 DEF Insert
  <1>2. ASSUME NEW p \in Clients, ExtractCommit(p) PROVE Goal
    <2>1. client[p].claim \in Claims /\ client[p].ents \subseteq Entities
      BY <1>2 DEF ExtractCommit, ClientShape, ClientState
    <2> QED BY <1>2, <2>1 DEF ExtractCommit, Fact, Node, Edge
  <1>3. ASSUME NEW p \in Clients, GraphWriteOk(p) \/ GraphWriteErr(p) PROVE Goal
    <2>1. Intent(client[p]) \in Op
      BY <1>3, IntentType DEF GraphWriteOk, GraphWriteErr
    <2> QED BY <1>3, <2>1, GraphWriteType DEF GraphWriteOk, GraphWriteErr
  <1>4. ASSUME ReplayTry PROVE Goal
    <2>1. PICK i \in replay.batch : Succeeds(queue[i].op) \/ Fails(queue[i].op)
      BY <1>4 DEF ReplayTry
    <2> QED BY <1>4, <2>1, RowOpType, GraphWriteType DEF ReplayTry
  <1>5. CASE ReconcileSweep
    BY <1>5 DEF ReconcileSweep
  <1>6. CASE AdminDelete
    BY <1>6 DEF AdminDelete
  <1>7. CASE NeoDown \/ NeoUp
    BY <1>7 DEF NeoDown, NeoUp
  <1>8. ASSUME NEW p \in Clients,
               \/ Start(p) \/ Endpoints(p) \/ Rejected(p) \/ Enqueue(p)
               \/ EntityLog(p) \/ RelationshipLog(p) \/ ClaimLog(p)
               \/ ExtractAudit(p) \/ EnqueueLost(p) \/ ClientAbort(p)
        PROVE  UNCHANGED stores
    BY <1>8 DEF Start, StartEntity, StartRelationship, StartClaim, StartExtract, Call,
        Endpoints, Rejected, Enqueue, GraphWritten, EntityLog, RelationshipLog,
        ClaimLog, ExtractAudit, AppendLog, EnqueueLost, ClientAbort
  <1>9. ASSUME \/ ReplayTick \/ ReplayMark \/ Mirror
               \/ ReconcileStart \/ ReconcileReadPg \/ ReconcileReadNeo
               \/ ReconcileFill \/ ReconcileNext \/ ReconcileAbort
               \/ Restart \/ WorkerAbort \/ UNCHANGED vars
        PROVE  UNCHANGED stores
    BY <1>9 DEF ReplayTick, ReplayMark, Mirror, MirrorTick, MirrorEnqueue, MirrorStamp,
        ReconcileStart, ReconcileReadPg, ReconcileReadNeo, ReconcileFill,
        ReconcileNext, ReconcileAbort, Restart, WorkerAbort, vars
  <1> QED BY <1>1, <1>2, <1>3, <1>4, <1>5, <1>6, <1>7, <1>8, <1>9
          DEF Next, Handler, Replay, Reconcile, stores

LEMMA HistoryTyped ==
    ASSUME TypeInv, [Next]_vars
    PROVE  gone' \subseteq Fact /\ cut' \subseteq Fact /\ swept' \subseteq Fact
  <1> USE DEF TypeInv, TypeOK
  <1> DEFINE Goal == gone' \subseteq Fact /\ cut' \subseteq Fact /\ swept' \subseteq Fact
  <1>1. \A p \in Clients : Owed(client[p]) \subseteq Fact
    BY OwedType
  <1>2. ASSUME NEW p \in Clients, EnqueueLost(p) \/ ClientAbort(p) PROVE Goal
    BY <1>1, <1>2 DEF EnqueueLost, ClientAbort, GraphWritten
  <1>3. CASE Restart
    BY <1>1, <1>3 DEF Restart
  <1>4. CASE ReconcileSweep
    BY <1>4 DEF ReconcileSweep
  <1>5. CASE AdminDelete
    BY <1>5 DEF AdminDelete
  <1>6. ASSUME NEW p \in Clients,
               \/ Start(p) \/ EntityRow(p) \/ ClaimRow(p) \/ EvidenceRow(p)
               \/ AboutRow(p) \/ Endpoints(p) \/ RelationshipRow(p) \/ Rejected(p)
               \/ GraphWriteOk(p) \/ GraphWriteErr(p) \/ Enqueue(p)
               \/ EntityLog(p) \/ RelationshipLog(p) \/ ClaimLog(p)
               \/ ExtractAudit(p) \/ ExtractCommit(p)
        PROVE  UNCHANGED history
    BY <1>6 DEF Start, StartEntity, StartRelationship, StartClaim, StartExtract, Call,
        EntityRow, ClaimRow, EvidenceRow, AboutRow, Endpoints, RelationshipRow,
        Rejected, Insert, GraphWriteOk, GraphWriteErr, Enqueue, GraphWritten, EntityLog,
        RelationshipLog, ClaimLog, ExtractAudit, AppendLog, ExtractCommit, history
  <1>7. ASSUME \/ Replay \/ Mirror \/ ReconcileStart \/ ReconcileReadPg
               \/ ReconcileReadNeo \/ ReconcileFill \/ ReconcileNext
               \/ ReconcileAbort \/ WorkerAbort \/ NeoDown \/ NeoUp
               \/ UNCHANGED vars
        PROVE  UNCHANGED history
    BY <1>7 DEF Replay, ReplayTick, ReplayTry, ReplayMark, Mirror, MirrorTick,
        MirrorEnqueue, MirrorStamp, ReconcileStart, ReconcileReadPg, ReconcileReadNeo,
        ReconcileFill, ReconcileNext, ReconcileAbort, WorkerAbort, NeoDown, NeoUp, vars
  <1> QED BY <1>2, <1>3, <1>4, <1>5, <1>6, <1>7
          DEF Next, Handler, Reconcile, history

\* Every step leaves a call well shaped.
LEMMA ClientsTyped ==
    ASSUME TypeInv, [Next]_vars
    PROVE  /\ client' \in [Clients -> ClientState]
           /\ \A p \in Clients : ClientShape(client'[p])
           /\ minted' \subseteq Claims
  <1> USE DEF TypeInv, TypeOK
  <1> DEFINE Goal == /\ client' \in [Clients -> ClientState]
                     /\ \A p \in Clients : ClientShape(client'[p])
                     /\ minted' \subseteq Claims
  <1>1. Idle \in ClientState /\ ClientShape(Idle)
    BY DEF Idle, ClientState, ClientPc, ClientShape
  <1>2. \A p \in Clients, c \in ClientState :
            ClientShape(c) /\ client' = [client EXCEPT ![p] = c] /\ minted' \subseteq Claims
                => Goal
    OBVIOUS
  <1>3. ASSUME NEW p \in Clients, Start(p) PROVE Goal
    <2>1. CASE StartEntity(p)
      <3>1. PICK e \in Entities :
                Call(p, "entity", [Idle EXCEPT !.pc = "entity_row", !.ents = {e}])
        BY <2>1 DEF StartEntity
      <3>2. [Idle EXCEPT !.pc = "entity_row", !.ents = {e}] \in ClientState
        BY DEF Idle, ClientState, ClientPc
      <3>3. ClientShape([Idle EXCEPT !.pc = "entity_row", !.ents = {e}])
        BY DEF Idle, ClientShape
      <3> QED BY <2>1, <3>1, <3>2, <3>3, <1>2 DEF Call, StartEntity
    <2>2. CASE StartRelationship(p)
      <3>1. PICK a \in Entities, b \in Entities :
                Call(p, "relationship",
                     [Idle EXCEPT !.pc = "endpoints", !.ent = a, !.other = b])
        BY <2>2 DEF StartRelationship
      <3>2. [Idle EXCEPT !.pc = "endpoints", !.ent = a, !.other = b] \in ClientState
        BY DEF Idle, ClientState, ClientPc
      <3>3. ClientShape([Idle EXCEPT !.pc = "endpoints", !.ent = a, !.other = b])
        BY DEF Idle, ClientShape
      <3> QED BY <2>2, <3>1, <3>2, <3>3, <1>2 DEF Call, StartRelationship
    <2>3. CASE StartClaim(p)
      <3>1. PICK c \in Claims, D \in SUBSET Docs, E \in SUBSET Entities :
                /\ Call(p, "claim", [Idle EXCEPT !.pc = "claim_row", !.claim = c,
                                                 !.docs = D, !.ents = E])
                /\ minted' = minted \cup {c}
        BY <2>3 DEF StartClaim
      <3> DEFINE st == [Idle EXCEPT !.pc = "claim_row", !.claim = c, !.docs = D, !.ents = E]
      <3>2. st \in ClientState
        BY DEF Idle, ClientState, ClientPc
      <3>3. ClientShape(st)
        BY DEF Idle, ClientShape
      <3> QED BY <3>1, <3>2, <3>3, <1>2 DEF Call
    <2>4. CASE StartExtract(p)
      <3>1. PICK c \in Claims, E \in SUBSET Entities :
                /\ Call(p, "extract", [Idle EXCEPT !.pc = "extract_audit", !.claim = c,
                                                   !.ents = E])
                /\ minted' = minted \cup {c}
        BY <2>4 DEF StartExtract
      <3> DEFINE st == [Idle EXCEPT !.pc = "extract_audit", !.claim = c, !.ents = E]
      <3>2. st \in ClientState
        BY DEF Idle, ClientState, ClientPc
      <3>3. ClientShape(st)
        BY DEF Idle, ClientShape
      <3> QED BY <3>1, <3>2, <3>3, <1>2 DEF Call
    <2> QED BY <1>3, <2>1, <2>2, <2>3, <2>4 DEF Start
  <1>4. ASSUME NEW p \in Clients, EntityRow(p) PROVE Goal
    <2>1. PICK e \in client[p].ents :
            Insert(p, e, [client[p] EXCEPT !.pc = "entity_graph", !.ent = e,
                                           !.ents = @ \ {e}])
      BY <1>4 DEF EntityRow
    <2> DEFINE st == [client[p] EXCEPT !.pc = "entity_graph", !.ent = e, !.ents = @ \ {e}]
    <2>2. st \in ClientState /\ ClientShape(st)
      BY DEF ClientState, ClientPc, ClientShape
    <2> QED BY <2>1, <2>2, <1>2 DEF Insert
  <1>5. ASSUME NEW p \in Clients, ClaimRow(p) PROVE Goal
    <2> DEFINE st == [client[p] EXCEPT !.pc = "evidence_row"]
    <2>1. st \in ClientState /\ ClientShape(st)
      BY <1>5 DEF ClaimRow, ClientState, ClientPc, ClientShape
    <2> QED BY <1>5, <2>1, <1>2 DEF ClaimRow, Insert
  <1>6. ASSUME NEW p \in Clients, EvidenceRow(p) PROVE Goal
    <2>1. PICK d \in client[p].docs :
            Insert(p, <<client[p].claim, d>>,
                   [client[p] EXCEPT !.pc = "evidence_graph", !.other = d,
                                     !.docs = @ \ {d}])
      BY <1>6 DEF EvidenceRow
    <2> DEFINE st == [client[p] EXCEPT !.pc = "evidence_graph", !.other = d,
                                       !.docs = @ \ {d}]
    <2>2. st \in ClientState /\ ClientShape(st)
      BY <1>6 DEF EvidenceRow, ClientState, ClientPc, ClientShape
    <2> QED BY <2>1, <2>2, <1>2 DEF Insert
  <1>7. ASSUME NEW p \in Clients, AboutRow(p) PROVE Goal
    <2> DEFINE st == [client[p] EXCEPT
                        !.pc = IF client[p].ents = {} THEN "claim_graph" ELSE "entity_row",
                        !.about = @ \cup {client[p].ent}]
    <2>1. client[p].ent \in Entities /\ client[p].claim \in Claims
      BY <1>7 DEF AboutRow, ClientShape
    <2>2. st \in ClientState /\ ClientShape(st)
      BY <2>1 DEF ClientState, ClientPc, ClientShape
    <2> QED BY <1>7, <2>2, <1>2 DEF AboutRow, Insert
  <1>8. ASSUME NEW p \in Clients, Endpoints(p) PROVE Goal
    <2> DEFINE st == [client[p] EXCEPT !.pc = "relationship_row"]
    <2>1. st \in ClientState /\ ClientShape(st)
      BY <1>8 DEF Endpoints, ClientState, ClientPc, ClientShape
    <2>2. client' = [client EXCEPT ![p] = st]
      BY <1>8 DEF Endpoints
    <2> QED BY <1>8, <2>1, <2>2, <1>2 DEF Endpoints
  <1>9. ASSUME NEW p \in Clients, RelationshipRow(p) PROVE Goal
    <2> DEFINE st == [client[p] EXCEPT !.pc = "relationship_graph"]
    <2>1. st \in ClientState /\ ClientShape(st)
      BY <1>9 DEF RelationshipRow, ClientState, ClientPc, ClientShape
    <2> QED BY <1>9, <2>1, <1>2 DEF RelationshipRow, Insert
  <1>10. ASSUME NEW p \in Clients,
                \/ GraphWriteOk(p) \/ Enqueue(p) \/ EnqueueLost(p)
         PROVE  Goal
    <2> DEFINE st == [client[p] EXCEPT !.pc = AfterGraph(client[p]), !.failed = FALSE]
    <2>1. client[p].pc \in GraphPc
      BY <1>10 DEF GraphWriteOk, Enqueue, EnqueueLost
    <2>2. /\ AfterGraph(client[p]) \in ClientPc
          /\ ClientShape(st)
      BY <2>1 DEF AfterGraph, GraphPc, ClientPc, ClientShape, ClientState
    <2>3. st \in ClientState
      BY <2>2 DEF ClientState
    <2>4. client' = [client EXCEPT ![p] = st] /\ minted' = minted
      BY <1>10 DEF GraphWriteOk, Enqueue, EnqueueLost, GraphWritten
    <2> QED BY <2>2, <2>3, <2>4, <1>2
  <1>11. ASSUME NEW p \in Clients, GraphWriteErr(p) PROVE Goal
    <2> DEFINE st == [client[p] EXCEPT !.failed = TRUE]
    <2>1. st \in ClientState /\ ClientShape(st)
      BY DEF ClientState, ClientShape
    <2>2. client' = [client EXCEPT ![p] = st]
      BY <1>11 DEF GraphWriteErr
    <2> QED BY <1>11, <2>1, <2>2, <1>2 DEF GraphWriteErr
  <1>12. ASSUME NEW p \in Clients, EntityLog(p) PROVE Goal
    <2> DEFINE st == IF client[p].claim = None THEN Idle
                     ELSE [client[p] EXCEPT !.pc = "about_row"]
    <2>1. st \in ClientState /\ ClientShape(st)
      BY <1>1, <1>12 DEF EntityLog, ClientState, ClientPc, ClientShape
    <2> QED BY <1>12, <2>1, <1>2 DEF EntityLog, AppendLog
  <1>13. ASSUME NEW p \in Clients, ExtractAudit(p) PROVE Goal
    <2> DEFINE st == [client[p] EXCEPT !.pc = "extract_commit"]
    <2>1. st \in ClientState /\ ClientShape(st)
      BY <1>13 DEF ExtractAudit, ClientState, ClientPc, ClientShape
    <2>2. client' = [client EXCEPT ![p] = st]
      BY <1>13 DEF ExtractAudit
    <2> QED BY <1>13, <2>1, <2>2, <1>2 DEF ExtractAudit, AppendLog
  <1>14. ASSUME NEW p \in Clients,
                \/ Rejected(p) \/ RelationshipLog(p) \/ ClaimLog(p)
                \/ ExtractCommit(p) \/ ClientAbort(p)
         PROVE  Goal
    BY <1>14, <1>1, <1>2 DEF Rejected, RelationshipLog, ClaimLog, ExtractCommit,
        ClientAbort, AppendLog
  <1>15. CASE Restart
    BY <1>15, <1>1 DEF Restart
  <1>16. ASSUME \/ Replay \/ Mirror \/ Reconcile \/ WorkerAbort \/ NeoDown \/ NeoUp
                \/ AdminDelete \/ UNCHANGED vars
         PROVE  UNCHANGED <<client, minted>>
    BY <1>16 DEF Replay, ReplayTick, ReplayTry, ReplayMark, Mirror, MirrorTick,
        MirrorEnqueue, MirrorStamp, Reconcile, ReconcileStart, ReconcileReadPg,
        ReconcileReadNeo, ReconcileSweep, ReconcileFill, ReconcileNext,
        ReconcileAbort, WorkerAbort, NeoDown, NeoUp, AdminDelete, vars
  <1> QED BY <1>3, <1>4, <1>5, <1>6, <1>7, <1>8, <1>9, <1>10, <1>11, <1>12, <1>13,
             <1>14, <1>15, <1>16 DEF Next, Handler

LEMMA SpentTyped ==
    ASSUME TypeInv, [Next]_vars
    PROVE  spent' \in [calls : 0 .. MaxCalls, faults : 0 .. MaxFaults,
                       outages : 0 .. MaxOutages, deletes : 0 .. MaxDeletes]
  <1> DEFINE Bound == [calls : 0 .. MaxCalls, faults : 0 .. MaxFaults,
                       outages : 0 .. MaxOutages, deletes : 0 .. MaxDeletes]
  <1>0. spent \in Bound
    BY DEF TypeInv, TypeOK
  <1>1. CASE spent.calls < MaxCalls /\ spent' = [spent EXCEPT !.calls = @ + 1]
    <2>1. spent.calls + 1 \in 0 .. MaxCalls
      BY <1>0, <1>1, SizesAssumption
    <2> QED BY <1>0, <1>1, <2>1
  <1>2. CASE spent.faults < MaxFaults /\ spent' = [spent EXCEPT !.faults = @ + 1]
    <2>1. spent.faults + 1 \in 0 .. MaxFaults
      BY <1>0, <1>2, SizesAssumption
    <2> QED BY <1>0, <1>2, <2>1
  <1>3. CASE spent.outages < MaxOutages /\ spent' = [spent EXCEPT !.outages = @ + 1]
    <2>1. spent.outages + 1 \in 0 .. MaxOutages
      BY <1>0, <1>3, SizesAssumption
    <2> QED BY <1>0, <1>3, <2>1
  <1>4. CASE spent.deletes < MaxDeletes /\ spent' = [spent EXCEPT !.deletes = @ + 1]
    <2>1. spent.deletes + 1 \in 0 .. MaxDeletes
      BY <1>0, <1>4, SizesAssumption
    <2> QED BY <1>0, <1>4, <2>1
  <1>5. CASE spent' = spent
    BY <1>0, <1>5
  <1>6. ASSUME NEW p \in Clients, Start(p)
        PROVE  spent' \in Bound
    BY <1>1, <1>6 DEF Start, StartEntity, StartRelationship, StartClaim, StartExtract, Call
  <1>7. ASSUME NEW p \in Clients, EnqueueLost(p) \/ ClientAbort(p)
        PROVE  spent' \in Bound
    BY <1>2, <1>7 DEF EnqueueLost, ClientAbort
  <1>8. ASSUME Restart \/ WorkerAbort
        PROVE  spent' \in Bound
    BY <1>2, <1>8 DEF Restart, WorkerAbort
  <1>9. ASSUME NEW op, Succeeds(op) \/ Fails(op)
        PROVE  spent' \in Bound
    BY <1>3, <1>5, <1>9 DEF Succeeds, Fails
  <1>10. ASSUME NEW p \in Clients, GraphWriteOk(p) \/ GraphWriteErr(p) PROVE spent' \in Bound
    BY <1>10, <1>9 DEF GraphWriteOk, GraphWriteErr
  <1>11. ASSUME ReplayTry PROVE spent' \in Bound
    BY <1>11, <1>9 DEF ReplayTry
  <1>12. ASSUME NEW p \in Clients,
                \/ EntityRow(p) \/ ClaimRow(p) \/ EvidenceRow(p)
                \/ AboutRow(p) \/ Endpoints(p) \/ RelationshipRow(p) \/ Rejected(p)
                \/ Enqueue(p) \/ EntityLog(p) \/ RelationshipLog(p) \/ ClaimLog(p)
                \/ ExtractAudit(p) \/ ExtractCommit(p)
         PROVE  spent' \in Bound
    BY <1>5, <1>12 DEF EntityRow, ClaimRow, EvidenceRow, AboutRow, Endpoints, RelationshipRow,
        Rejected, Insert, Enqueue, EntityLog, RelationshipLog, ClaimLog, ExtractAudit,
        AppendLog, ExtractCommit
  <1>13. ASSUME \/ ReplayTick \/ ReplayMark \/ Mirror \/ Reconcile \/ NeoUp
                \/ UNCHANGED vars
         PROVE  spent' \in Bound
    BY <1>5, <1>13 DEF ReplayTick, ReplayMark, Mirror, MirrorTick, MirrorEnqueue, MirrorStamp,
        Reconcile, ReconcileStart, ReconcileReadPg, ReconcileReadNeo, ReconcileSweep,
        ReconcileFill, ReconcileNext, ReconcileAbort, NeoUp, vars
  <1>14. ASSUME NeoDown
         PROVE  spent' \in Bound
    BY <1>3, <1>14 DEF NeoDown
  <1>15. ASSUME AdminDelete
         PROVE  spent' \in Bound
    BY <1>4, <1>15 DEF AdminDelete
  <1> HIDE DEF Bound
  <1>16. spent' \in Bound
    BY <1>6, <1>7, <1>8, <1>10, <1>11, <1>12, <1>13, <1>14, <1>15
       DEF Next, Handler, Replay
  <1> QED BY <1>16 DEF Bound

\* The replay worker: it holds pending rows of the queue, as it settles a row it
\* lets go of it, and nobody else settles rows.
LEMMA ReplayTyped ==
    ASSUME TypeInv, [Next]_vars
    PROVE  /\ replay' \in [batch : SUBSET (1 .. Len(queue')),
                           outcome : {"none", "ok", "err"}]
           /\ \A i \in replay'.batch : queue'[i].status = "PENDING"
  <1> DEFINE Goal == /\ replay' \in [batch : SUBSET (1 .. Len(queue')),
                                     outcome : {"none", "ok", "err"}]
                     /\ \A i \in replay'.batch : queue'[i].status = "PENDING"
  <1>0. /\ replay \in [batch : SUBSET (1 .. Len(queue)), outcome : {"none", "ok", "err"}]
        /\ \A i \in replay.batch : queue[i].status = "PENDING"
    BY DEF TypeInv, TypeOK, WorkersOK, QueueShape
  <1>a. /\ DOMAIN queue = 1 .. Len(queue)
        /\ DOMAIN queue' = 1 .. Len(queue')
        /\ 1 .. Len(queue) \subseteq 1 .. Len(queue')
    BY TableTypes, QueueGrows, LenProperties
  <1>1. ASSUME replay' = ReplayIdle PROVE Goal
    BY <1>1 DEF ReplayIdle
  <1>2. ASSUME ReplayMark PROVE Goal
    <2>1. PICK i \in replay.batch :
            /\ IsFirst(i, replay.batch)
            /\ replay' = [batch |-> replay.batch \ {i}, outcome |-> "none"]
            /\ queue' = [queue EXCEPT ![i] = Marked(queue[i], replay.outcome)]
      BY <1>2 DEF ReplayMark
    <2> QED BY <1>0, <1>a, <2>1
  <1>3. ASSUME ~ReplayMark,
               replay'.batch \subseteq replay.batch, replay' = [batch |-> replay'.batch,
               outcome |-> replay'.outcome], replay'.outcome \in {"none", "ok", "err"}
        PROVE  Goal
    <2>1. \A i \in replay.batch : queue'[i] = queue[i]
      BY <1>0, <1>3, <1>a, QueueGrows
    <2> QED BY <1>0, <1>3, <1>a, <2>1
  <1>4. ASSUME ReplayTick PROVE Goal
    <2>1. replay' = [batch |-> replay'.batch, outcome |-> "none"]
      BY <1>4 DEF ReplayTick, ReplayIdle
    <2>2. replay'.batch \subseteq {i \in DOMAIN queue : queue[i].status = "PENDING"}
      BY <1>4 DEF ReplayTick, ReplayIdle, FirstOf
    <2>3. queue' = queue
      BY <1>4 DEF ReplayTick, tables
    <2> QED BY <1>a, <2>1, <2>2, <2>3
  <1>5. ASSUME ReplayTry PROVE Goal
    <2>1. \/ replay' = [replay EXCEPT !.outcome = "ok"]
          \/ replay' = [replay EXCEPT !.outcome = "err"]
      BY <1>5 DEF ReplayTry
    <2>2. queue' = queue
      BY <1>5 DEF ReplayTry, tables
    <2> QED BY <1>0, <2>1, <2>2
  <1>6. ASSUME replay' = replay, ~ReplayMark PROVE Goal
    BY <1>0, <1>3, <1>6
  <1>7. ASSUME NEW p \in Clients, Start(p) \/ Handler(p) \/ EnqueueLost(p) \/ ClientAbort(p)
        PROVE  replay' = replay
    BY <1>7 DEF Start, StartEntity, StartRelationship, StartClaim, StartExtract, Call,
        Handler, EntityRow, ClaimRow, EvidenceRow, AboutRow, Endpoints, RelationshipRow,
        Rejected, Insert, GraphWriteOk, GraphWriteErr, Enqueue, GraphWritten, EntityLog,
        RelationshipLog, ClaimLog, ExtractAudit, AppendLog, ExtractCommit, EnqueueLost,
        ClientAbort, workers
  <1>8. ASSUME Mirror \/ Reconcile \/ NeoDown \/ NeoUp \/ AdminDelete \/ UNCHANGED vars
        PROVE  replay' = replay
    BY <1>8 DEF Mirror, MirrorTick, MirrorEnqueue, MirrorStamp, Reconcile, ReconcileStart,
        ReconcileReadPg, ReconcileReadNeo, ReconcileSweep, ReconcileFill, ReconcileNext,
        ReconcileAbort, NeoDown, NeoUp, AdminDelete, workers, vars
  <1>9. ASSUME Restart \/ WorkerAbort PROVE replay' = replay \/ replay' = ReplayIdle
    BY <1>9 DEF Restart, WorkerAbort
  <1> QED BY <1>1, <1>2, <1>4, <1>5, <1>6, <1>7, <1>8, <1>9 DEF Next, Replay

LEMMA MirrorTyped ==
    ASSUME TypeInv, [Next]_vars
    PROVE  mirror' \in [batch : SUBSET (1 .. Len(log')), queued : BOOLEAN]
  <1> DEFINE Goal == mirror' \in [batch : SUBSET (1 .. Len(log')), queued : BOOLEAN]
  <1>0. mirror \in [batch : SUBSET (1 .. Len(log)), queued : BOOLEAN]
    BY DEF TypeInv, TypeOK, WorkersOK
  <1>a. /\ DOMAIN log = 1 .. Len(log)
        /\ 1 .. Len(log) \subseteq 1 .. Len(log')
    BY TableTypes, LogGrows, LenProperties
  <1>1. ASSUME mirror' = MirrorIdle PROVE Goal
    BY <1>1 DEF MirrorIdle
  <1>2. ASSUME MirrorTick PROVE Goal
    <2>1. mirror'.batch \subseteq DOMAIN log /\ mirror' = [MirrorIdle EXCEPT !.batch = mirror'.batch]
      BY <1>2 DEF MirrorTick, MirrorIdle, FirstOf
    <2> QED BY <1>a, <2>1 DEF MirrorIdle
  <1>3. ASSUME MirrorEnqueue PROVE Goal
    <2>1. mirror' = [mirror EXCEPT !.queued = TRUE]
      BY <1>3 DEF MirrorEnqueue
    <2> QED BY <1>0, <1>a, <2>1
  <1>3a. ASSUME MirrorStamp PROVE Goal
    <2>1. PICK i \in mirror.batch :
            mirror' = [batch |-> mirror.batch \ {i}, queued |-> FALSE]
      BY <1>3a DEF MirrorStamp
    <2> QED BY <1>0, <1>a, <2>1
  <1>4. ASSUME mirror' = mirror PROVE Goal
    BY <1>0, <1>a, <1>4
  <1>5. ASSUME NEW p \in Clients, Start(p) \/ Handler(p) \/ EnqueueLost(p) \/ ClientAbort(p)
        PROVE  mirror' = mirror
    BY <1>5 DEF Start, StartEntity, StartRelationship, StartClaim, StartExtract, Call,
        Handler, EntityRow, ClaimRow, EvidenceRow, AboutRow, Endpoints, RelationshipRow,
        Rejected, Insert, GraphWriteOk, GraphWriteErr, Enqueue, GraphWritten, EntityLog,
        RelationshipLog, ClaimLog, ExtractAudit, AppendLog, ExtractCommit, EnqueueLost,
        ClientAbort, workers
  <1>6. ASSUME Replay \/ Reconcile \/ NeoDown \/ NeoUp \/ AdminDelete \/ UNCHANGED vars
        PROVE  mirror' = mirror
    BY <1>6 DEF Replay, ReplayTick, ReplayTry, ReplayMark, Reconcile, ReconcileStart,
        ReconcileReadPg, ReconcileReadNeo, ReconcileSweep, ReconcileFill, ReconcileNext,
        ReconcileAbort, NeoDown, NeoUp, AdminDelete, workers, vars
  <1>7. ASSUME Restart \/ WorkerAbort PROVE mirror' = mirror \/ mirror' = MirrorIdle
    BY <1>7 DEF Restart, WorkerAbort
  <1> QED BY <1>1, <1>2, <1>3, <1>3a, <1>4, <1>5, <1>6, <1>7 DEF Next, Mirror

\* The reconciler never carries anything over from one section to the next.
LEMMA RecTyped ==
    ASSUME TypeInv, [Next]_vars
    PROVE  /\ rec' \in [pc : {"idle", "pg", "neo", "act"}, stage : 1 .. Len(Sections),
                         seen : SUBSET Fact, todo : SUBSET Fact]
           /\ RecShape'
  <1> DEFINE RecType == [pc : {"idle", "pg", "neo", "act"}, stage : 1 .. Len(Sections),
                         seen : SUBSET Fact, todo : SUBSET Fact]
             Goal == rec' \in RecType /\ RecShape'
  <1>0. rec \in RecType /\ RecShape /\ pg \subseteq Fact /\ neo \subseteq Fact
    BY DEF TypeInv, TypeOK, WorkersOK
  <1>a. Len(Sections) \in Nat \ {0} /\ 1 \in 1 .. Len(Sections)
    BY KindsAssumption, LenProperties
  <1>1. ASSUME rec' = RecIdle PROVE Goal
    BY <1>1, <1>a DEF RecIdle, RecShape
  <1>2. ASSUME ReconcileStart PROVE Goal
    BY <1>2, <1>a DEF ReconcileStart, RecIdle, RecShape
  <1>3. ASSUME ReconcileReadPg PROVE Goal
    BY <1>0, <1>3 DEF ReconcileReadPg, RecShape
  <1>4. ASSUME ReconcileReadNeo PROVE Goal
    BY <1>0, <1>4 DEF ReconcileReadNeo, RecShape, SweepSections, FillSections
  <1>5. ASSUME ReconcileSweep \/ ReconcileFill PROVE Goal
    BY <1>0, <1>5 DEF ReconcileSweep, ReconcileFill, RecShape
  <1>6. ASSUME ReconcileNext PROVE Goal
    <2>1. CASE rec.stage = Len(Sections)
      BY <1>1, <1>6, <2>1 DEF ReconcileNext
    <2>2. CASE rec.stage # Len(Sections)
      <3>1. rec.stage + 1 \in 1 .. Len(Sections)
        BY <1>0, <1>a, <2>2
      <3>2. rec' = [RecIdle EXCEPT !.pc = "pg", !.stage = rec.stage + 1]
        BY <1>6, <2>2 DEF ReconcileNext
      <3> QED BY <3>1, <3>2 DEF RecIdle, RecShape
    <2> QED BY <2>1, <2>2
  <1>7. ASSUME rec' = rec PROVE Goal
    BY <1>0, <1>7 DEF RecShape
  <1>8. ASSUME NEW p \in Clients, Start(p) \/ Handler(p) \/ EnqueueLost(p) \/ ClientAbort(p)
        PROVE  rec' = rec
    BY <1>8 DEF Start, StartEntity, StartRelationship, StartClaim, StartExtract, Call,
        Handler, EntityRow, ClaimRow, EvidenceRow, AboutRow, Endpoints, RelationshipRow,
        Rejected, Insert, GraphWriteOk, GraphWriteErr, Enqueue, GraphWritten, EntityLog,
        RelationshipLog, ClaimLog, ExtractAudit, AppendLog, ExtractCommit, EnqueueLost,
        ClientAbort, workers
  <1>9. ASSUME Replay \/ Mirror \/ NeoDown \/ NeoUp \/ AdminDelete \/ UNCHANGED vars
        PROVE  rec' = rec
    BY <1>9 DEF Replay, ReplayTick, ReplayTry, ReplayMark, Mirror, MirrorTick,
        MirrorEnqueue, MirrorStamp, NeoDown, NeoUp, AdminDelete, workers, vars
  <1>10. ASSUME Restart \/ WorkerAbort \/ ReconcileAbort PROVE rec' = rec \/ rec' = RecIdle
    BY <1>10 DEF Restart, WorkerAbort, ReconcileAbort
  <1> QED BY <1>1, <1>2, <1>3, <1>4, <1>5, <1>6, <1>7, <1>8, <1>9, <1>10
          DEF Next, Reconcile

LEMMA TypeInvInit == ASSUME Init PROVE TypeInv
  <1> USE DEF Init
  <1>1. Len(Sections) \in Nat \ {0}
    BY KindsAssumption, LenProperties
  <1>2. log \in Seq(LogRow) /\ queue \in Seq(QueueRow) /\ DOMAIN queue = {}
    BY EmptySeq, LenProperties
  <1>3. \A p \in Clients : client[p] \in ClientState /\ ClientShape(client[p])
    BY DEF Idle, ClientState, ClientPc, ClientShape
  <1>4. WorkersOK
    BY <1>1 DEF WorkersOK, ReplayIdle, MirrorIdle, RecIdle
  <1>5. TypeOK
    BY <1>2, <1>3, <1>4, SizesAssumption DEF TypeOK, TablesOK, Fact, Node
  <1>6. RecShape /\ QueueShape
    BY <1>2 DEF RecShape, QueueShape, RecIdle, ReplayIdle
  <1> QED BY <1>3, <1>5, <1>6 DEF TypeInv

LEMMA TypeInvStep == ASSUME TypeInv, [Next]_vars PROVE TypeInv'
  <1>1. TypeOK'
    BY StoresTyped, HistoryTyped, ClientsTyped, SpentTyped, ReplayTyped, MirrorTyped,
       RecTyped, LogGrows, QueueGrows DEF TypeOK, TablesOK, WorkersOK
  <1>2. QueueShape'
    BY ReplayTyped, QueueGrows DEF QueueShape
  <1> QED BY <1>1, <1>2, ClientsTyped, RecTyped DEF TypeInv

LEMMA TypeInvAlways == Spec => []TypeInv
  <1>1. Init => TypeInv
    BY TypeInvInit
  <1>2. TypeInv /\ [Next]_vars => TypeInv'
    BY TypeInvStep
  <1> QED BY <1>1, <1>2, PTL DEF Spec

\* Every reachable state is well typed, whatever the number of agents, of calls
\* and of queued rows.
THEOREM TypeCorrect == Spec => []TypeOK
  <1>1. TypeInv => TypeOK
    BY DEF TypeInv
  <1> QED BY <1>1, TypeInvAlways, PTL

\* A row that is DONE or FAILED is not on the worker's batch.
LEMMA SettledStep ==
    ASSUME TypeInv, [Next]_vars, NEW i \in DOMAIN queue
    PROVE  /\ i \in DOMAIN queue'
           /\ queue[i].status # "PENDING" => queue'[i] = queue[i]
  <1>1. IsFirst(i, replay.batch) => queue[i].status = "PENDING"
    BY DEF TypeInv, QueueShape, IsFirst
  <1> QED BY <1>1, QueueGrows

\* Settled rows stay as they are: only the replay worker changes a row, the row
\* is the first of its batch, and its batch holds pending rows only.
THEOREM SettledRowsFinal == Spec => SettledRowsAreFinal
  <1> DEFINE Kept == \A i \in DOMAIN queue :
                        /\ i \in DOMAIN queue'
                        /\ queue[i].status # "PENDING" => queue'[i] = queue[i]
  <1>1. TypeInv /\ [Next]_vars => Kept
    BY SettledStep
  <1>2. Spec => [][Kept]_vars
    BY <1>1, TypeInvAlways, PTL DEF Spec
  <1> QED BY <1>2 DEF SettledRowsAreFinal
=============================================================================
