------------------------- MODULE GraphMirrorSafety -------------------------
(***************************************************************************)
(* Proofs of the safety invariants of GraphMirror: what is DONE was        *)
(* written, Neo4j holds nothing that PostgreSQL never held, and no entity  *)
(* is lost on the way from one to the other; and of the refinement: the    *)
(* write plane implements CanonicalMirror.                                 *)
(***************************************************************************)
EXTENDS GraphMirrorProofs

-----------------------------------------------------------------------------
\* The strengthenings.

Written == neo \cup swept

\* What the replay worker is about to mark as DONE was written.
ReplayWritten ==
    replay.outcome = "ok" =>
        \A i \in replay.batch :
            IsFirst(i, replay.batch) /\ queue[i].op.type # "create_relationship"
                => Writes(queue[i].op) \subseteq Written

DoneInv == DoneWasWritten /\ ReplayWritten

\* Whatever a handler, the change_log, the queue or the reconciler holds is
\* backed by PostgreSQL.
HeldIn(c, S) ==
    /\ c.pc \in {"entity_graph", "entity_log", "about_row"} => c.ent \in S
    /\ c.pc \in {"relationship_graph", "relationship_log"} => <<c.ent, c.other>> \in S
    /\ c.pc \in {"evidence_row", "evidence_graph", "entity_row", "entity_graph",
                 "entity_log", "about_row", "claim_graph", "claim_log"}
            => c.claim = None \/ c.claim \in S
    /\ c.pc = "evidence_graph" => <<c.claim, c.other>> \in S
    /\ \A e \in c.about : e \in S /\ <<c.claim, e>> \in S

ClientBacked(c) == HeldIn(c, Backed)

LogBacked == \A i \in DOMAIN log : Writes(log[i].op) \subseteq Backed
QueueBacked == \A i \in DOMAIN queue : Writes(queue[i].op) \subseteq Backed
RecBacked == rec.seen \subseteq pg \cup gone
EndsBacked == \A x, y \in Node : <<x, y>> \in pg \cup gone => x \in Backed /\ y \in Backed

BackedInv ==
    /\ MirrorBacked
    /\ Docs \subseteq Backed
    /\ \A p \in Clients : ClientBacked(client[p])
    /\ LogBacked
    /\ QueueBacked
    /\ RecBacked
    /\ EndsBacked

\* A fact is handed over: written, or in the queue, or due from the change_log.
DueInQueue(f) ==
    \E i \in DOMAIN queue : queue[i].status # "DONE" /\ f \in Writes(queue[i].op)
DueInLog(f) ==
    \E i \in DOMAIN log :
        ~log[i].mirrored /\ \E op \in Translate(log[i].op) : f \in Writes(op)

Queued(f) == f \in Written \/ DueInQueue(f)
Handed(f) == Queued(f) \/ DueInLog(f)

OwedBySome(f) == \E p \in Clients : f \in Owed(client[p])

\* What extract_claims is about to commit is handed over already, and what the
\* mirror worker is about to stamp is queued.
ExtractHanded ==
    \A p \in Clients : client[p].pc = "extract_commit" =>
        \A e \in client[p].ents : Handed(e)
StampQueued ==
    mirror.queued => \A i \in mirror.batch : IsFirst(i, mirror.batch) =>
        \A op \in Translate(log[i].op) : \A f \in Writes(op) \cap Entities : Queued(f)
EntityKept ==
    \A e \in Entities \cap pg : Handed(e) \/ OwedBySome(e) \/ e \in cut

LostInv == ExtractHanded /\ StampQueued /\ EntityKept

-----------------------------------------------------------------------------
\* What a step does to Neo4j and to the replay worker.

\* Trying an op adds to the graph only; the part sent before an error may be
\* less than the op, a success is all of it.
LEMMA TryAdds ==
    ASSUME NEW op, Succeeds(op) \/ Fails(op)
    PROVE  neo \subseteq neo'
  BY DEF Succeeds, Fails, Apply

LEMMA SuccessWrites ==
    ASSUME NEW op, Succeeds(op), op.type # "create_relationship"
    PROVE  Writes(op) \subseteq neo'
  BY DEF Succeeds, Apply, Matches

\* What was ever written is in Neo4j or was swept.
LEMMA WrittenGrows ==
    ASSUME TypeInv, [Next]_vars
    PROVE  Written \subseteq Written'
  <1>1. ASSUME NEW p \in Clients, GraphWriteOk(p) \/ GraphWriteErr(p)
        PROVE  neo \subseteq neo' /\ swept' = swept
    BY <1>1, TryAdds DEF GraphWriteOk, GraphWriteErr, GraphWritten, history
  <1>2. ASSUME ReplayTry
        PROVE  neo \subseteq neo' /\ swept' = swept
    BY <1>2, TryAdds DEF ReplayTry, history
  <1>3. CASE ReconcileSweep
    BY <1>3 DEF ReconcileSweep, Written
  <1>4. ASSUME NEW p \in Clients,
               \/ Start(p) \/ EntityRow(p) \/ ClaimRow(p) \/ EvidenceRow(p)
               \/ AboutRow(p) \/ Endpoints(p) \/ RelationshipRow(p) \/ Rejected(p)
               \/ Enqueue(p) \/ EntityLog(p) \/ RelationshipLog(p) \/ ClaimLog(p)
               \/ ExtractAudit(p) \/ ExtractCommit(p) \/ EnqueueLost(p) \/ ClientAbort(p)
        PROVE  neo' = neo /\ swept' = swept
    BY <1>4 DEF Start, StartEntity, StartRelationship, StartClaim, StartExtract, Call,
        EntityRow, ClaimRow, EvidenceRow, AboutRow, Endpoints, RelationshipRow,
        Rejected, Insert, Enqueue, GraphWritten, EntityLog, RelationshipLog, ClaimLog,
        ExtractAudit, AppendLog, ExtractCommit, EnqueueLost, ClientAbort, stores, history
  <1>5. ASSUME \/ ReplayTick \/ ReplayMark \/ Mirror \/ ReconcileStart \/ ReconcileReadPg
               \/ ReconcileReadNeo \/ ReconcileFill \/ ReconcileNext \/ ReconcileAbort
        PROVE  neo' = neo /\ swept' = swept
    BY <1>5 DEF ReplayTick, ReplayMark, Mirror, MirrorTick, MirrorEnqueue, MirrorStamp,
        ReconcileStart, ReconcileReadPg, ReconcileReadNeo, ReconcileFill, ReconcileNext,
        ReconcileAbort, stores, history
  <1>6. ASSUME \/ Restart \/ WorkerAbort \/ NeoDown \/ NeoUp \/ AdminDelete
               \/ UNCHANGED vars
        PROVE  neo' = neo /\ swept' = swept
    BY <1>6 DEF Restart, WorkerAbort, NeoDown, NeoUp, AdminDelete, vars, stores, history
  <1> QED BY <1>1, <1>2, <1>3, <1>4, <1>5, <1>6
          DEF Next, Handler, Replay, Reconcile, Written

\* Only ReplayTry leaves an outcome to be marked.
LEMMA OutcomeStep ==
    ASSUME TypeInv, [Next]_vars
    PROVE  replay' = replay \/ replay'.outcome = "none" \/ ReplayTry
  <1>1. ASSUME NEW p \in Clients, Start(p) \/ Handler(p) \/ EnqueueLost(p) \/ ClientAbort(p)
        PROVE  replay' = replay
    BY <1>1 DEF Start, StartEntity, StartRelationship, StartClaim, StartExtract, Call,
        Handler, EntityRow, ClaimRow, EvidenceRow, AboutRow, Endpoints, RelationshipRow,
        Rejected, Insert, GraphWriteOk, GraphWriteErr, Enqueue, GraphWritten, EntityLog,
        RelationshipLog, ClaimLog, ExtractAudit, AppendLog, ExtractCommit, EnqueueLost,
        ClientAbort, workers
  <1>2. ASSUME Mirror \/ Reconcile \/ NeoDown \/ NeoUp \/ AdminDelete \/ UNCHANGED vars
        PROVE  replay' = replay
    BY <1>2 DEF Mirror, MirrorTick, MirrorEnqueue, MirrorStamp, Reconcile, ReconcileStart,
        ReconcileReadPg, ReconcileReadNeo, ReconcileSweep, ReconcileFill, ReconcileNext,
        ReconcileAbort, NeoDown, NeoUp, AdminDelete, workers, vars
  <1>3. ASSUME ReplayTick \/ ReplayMark
        PROVE  replay'.outcome = "none"
    BY <1>3 DEF ReplayTick, ReplayMark, ReplayIdle
  <1>4. ASSUME Restart \/ WorkerAbort
        PROVE  replay' = replay \/ replay'.outcome = "none"
    BY <1>4 DEF Restart, WorkerAbort, ReplayIdle
  <1> QED BY <1>1, <1>2, <1>3, <1>4 DEF Next, Replay

LEMMA NewRowsPending ==
    ASSUME TypeInv, [Next]_vars, NEW i \in DOMAIN queue', i \notin DOMAIN queue
    PROVE  queue'[i].status = "PENDING"
  <1>0. queue \in Seq(QueueRow)
    BY DEF TypeInv, TypeOK, TablesOK
  <1>1. CASE QueueAppend
    <2>1. PICK row \in QueueRow : queue' = Append(queue, row) /\ row.status = "PENDING"
      BY <1>1, NewRowType DEF QueueAppend, NewRow
    <2>2. Len(queue') = Len(queue) + 1 /\ queue'[Len(queue) + 1] = row
      BY <1>0, <2>1, AppendProperties
    <2>3. DOMAIN queue' = 1 .. Len(queue) + 1
      BY <2>2, QueueGrows, LenProperties
    <2> QED BY <2>1, <2>2, <2>3, TableTypes
  <1>2. CASE ReplayMark
    <2>1. PICK j \in replay.batch : queue' = [queue EXCEPT ![j] = Marked(@, replay.outcome)]
      BY <1>2 DEF ReplayMark
    <2> QED BY <2>1
  <1> QED BY <1>1, <1>2, QueueStep

-----------------------------------------------------------------------------
\* DONE means written.

LEMMA ReplayWrittenStep ==
    ASSUME TypeInv, [Next]_vars, ReplayWritten
    PROVE  ReplayWritten'
  <1> SUFFICES ASSUME replay'.outcome = "ok",
                      NEW i \in replay'.batch, IsFirst(i, replay'.batch),
                      queue'[i].op.type # "create_relationship"
               PROVE  Writes(queue'[i].op) \subseteq Written'
    BY DEF ReplayWritten, IsFirst
  <1>1. CASE replay' = replay
    <2>1. queue'[i].op = queue[i].op
      BY <1>1, TableTypes, QueueGrows
    <2> QED BY <1>1, <2>1, WrittenGrows DEF ReplayWritten
  <1>2. CASE ReplayTry
    <2>1. PICK j \in replay.batch :
            /\ IsFirst(j, replay.batch)
            /\ \/ Succeeds(queue[j].op)
               \/ replay' = [replay EXCEPT !.outcome = "err"]
            /\ replay'.batch = replay.batch
      BY <1>2 DEF ReplayTry, TypeInv, TypeOK, WorkersOK
    <2>2. i = j
      <3>1. i \in Nat /\ j \in Nat /\ i <= j /\ j <= i
        BY <2>1, TableTypes DEF IsFirst
      <3> QED BY <3>1
    <2>3. replay' # [replay EXCEPT !.outcome = "err"]
      BY DEF TypeInv, TypeOK, WorkersOK
    <2>4. queue'[i].op = queue[i].op
      BY <2>1, TableTypes, QueueGrows
    <2> QED BY <2>1, <2>2, <2>3, <2>4, SuccessWrites DEF Written
  <1> QED BY <1>1, <1>2, OutcomeStep

LEMMA DoneStep ==
    ASSUME TypeInv, [Next]_vars, DoneInv
    PROVE  DoneInv'
  <1>1. DoneWasWritten'
    <2> SUFFICES ASSUME NEW i \in DOMAIN queue', queue'[i].status = "DONE",
                        queue'[i].op.type # "create_relationship"
                 PROVE  Writes(queue'[i].op) \subseteq Written'
      BY DEF DoneWasWritten, Written
    <2>1. i \in DOMAIN queue
      BY NewRowsPending
    <2>2. queue'[i].op = queue[i].op
      BY <2>1, QueueGrows
    <2>3. Writes(queue[i].op) \subseteq Written
      <3>1. CASE queue'[i] = queue[i]
        BY <2>1, <3>1 DEF DoneInv, DoneWasWritten, Written
      <3>2. CASE ReplayMark /\ IsFirst(i, replay.batch)
        <4>1. PICK j \in replay.batch :
                /\ IsFirst(j, replay.batch)
                /\ queue' = [queue EXCEPT ![j] = Marked(queue[j], replay.outcome)]
          BY <3>2 DEF ReplayMark
        <4>2. i = j
          <5>1. i \in Nat /\ j \in Nat /\ i <= j /\ j <= i
            BY <3>2, <4>1, TableTypes DEF IsFirst
          <5> QED BY <5>1
        <4>3. queue'[i] = Marked(queue[i], replay.outcome)
          BY <2>1, <4>1, <4>2
        <4>4. replay.outcome \in {"ok", "err"} /\ queue[i] \in QueueRow
          BY <2>1, <3>2, TableTypes DEF ReplayMark, TypeInv, TypeOK, WorkersOK
        <4>5. queue[i].status = "PENDING" /\ queue[i].attempts < MaxAttempts
          BY <2>1, <4>1, <4>2 DEF TypeInv, QueueShape
        <4>6. replay.outcome = "ok"
          BY <4>3, <4>4, <4>5, MarkedType
        <4> QED BY <2>2, <4>1, <4>2, <4>6 DEF DoneInv, ReplayWritten
      <3> QED BY <2>1, <3>1, <3>2, QueueGrows
    <2> QED BY <2>2, <2>3, WrittenGrows
  <1> QED BY <1>1, ReplayWrittenStep DEF DoneInv

LEMMA DoneAlways == Spec => []DoneInv
  <1>1. Init => DoneInv
    <2>1. Init => DOMAIN queue = {} /\ replay.outcome = "none"
      BY EmptySeq, LenProperties DEF Init, ReplayIdle
    <2> QED BY <2>1 DEF DoneInv, DoneWasWritten, ReplayWritten
  <1>2. TypeInv /\ [Next]_vars /\ DoneInv => DoneInv'
    BY DoneStep
  <1> QED BY <1>1, <1>2, TypeInvAlways, PTL DEF Spec

\* Whatever the interleaving of the replay worker with handlers, outages,
\* restarts and sweeps: an op marked DONE has reached Neo4j (a relationship
\* excepted), or the reconciler deleted what it wrote.
THEOREM DoneIsWritten == Spec => []DoneWasWritten
  <1>1. DoneInv => DoneWasWritten
    BY DEF DoneInv
  <1> QED BY <1>1, DoneAlways, PTL

-----------------------------------------------------------------------------
\* Neo4j holds only what PostgreSQL held.

\* The steps that insert a row.
RowStep(p) ==
    \/ EntityRow(p) \/ ClaimRow(p) \/ EvidenceRow(p) \/ AboutRow(p)
    \/ RelationshipRow(p) \/ ExtractCommit(p)

\* Nothing leaves PostgreSQL but for the history of deletions.
LEMMA RowsGrow ==
    ASSUME TypeInv, [Next]_vars
    PROVE  /\ pg \cup gone \subseteq pg' \cup gone'
           /\ \/ \E p \in Clients : RowStep(p)
              \/ pg' \subseteq pg /\ pg' \cup gone' = pg \cup gone
  <1>1. ASSUME NEW p \in Clients, RowStep(p)
        PROVE  pg \subseteq pg' /\ gone' = gone
    BY <1>1 DEF RowStep, EntityRow, ClaimRow, EvidenceRow, AboutRow, RelationshipRow, Insert,
        ExtractCommit, history
  <1>2. ASSUME AdminDelete
        PROVE  pg' \subseteq pg /\ pg' \cup gone' = pg \cup gone
    BY <1>2 DEF AdminDelete
  <1>3. ASSUME NEW p \in Clients,
               \/ Start(p) \/ Endpoints(p) \/ Rejected(p) \/ GraphWriteOk(p)
               \/ GraphWriteErr(p) \/ Enqueue(p) \/ EntityLog(p) \/ RelationshipLog(p)
               \/ ClaimLog(p) \/ ExtractAudit(p) \/ EnqueueLost(p) \/ ClientAbort(p)
        PROVE  pg' = pg /\ gone' = gone
    BY <1>3 DEF Start, StartEntity, StartRelationship, StartClaim, StartExtract, Call,
        Endpoints, Rejected, GraphWriteOk, GraphWriteErr, Enqueue, GraphWritten,
        EntityLog, RelationshipLog, ClaimLog, ExtractAudit, AppendLog, EnqueueLost,
        ClientAbort, stores, history
  <1>4. ASSUME Replay \/ Mirror \/ Reconcile
        PROVE  pg' = pg /\ gone' = gone
    BY <1>4 DEF Replay, ReplayTick, ReplayTry, ReplayMark, Mirror, MirrorTick,
        MirrorEnqueue, MirrorStamp, Reconcile, ReconcileStart, ReconcileReadPg,
        ReconcileReadNeo, ReconcileSweep, ReconcileFill, ReconcileNext, ReconcileAbort,
        stores, history
  <1>5. ASSUME Restart \/ WorkerAbort \/ NeoDown \/ NeoUp \/ UNCHANGED vars
        PROVE  pg' = pg /\ gone' = gone
    BY <1>5 DEF Restart, WorkerAbort, NeoDown, NeoUp, vars, stores, history
  <1> QED BY <1>1, <1>2, <1>3, <1>4, <1>5 DEF Next, Handler, RowStep

LEMMA BackedGrows ==
    ASSUME TypeInv, [Next]_vars
    PROVE  Backed \subseteq Backed'
  <1>1. Announced \subseteq Announced'
    BY LogGrows DEF Announced
  <1> QED BY <1>1, RowsGrow DEF Backed

\* The part of an op that was sent writes less than the op.
LEMMA FragmentWrites ==
    ASSUME NEW op \in Op, NEW f \in Fragments(op)
    PROVE  Writes(f) \subseteq Writes(op)
  <1>1. CASE op.type = "create_claim"
    <2>1. PICK D \in SUBSET op.dst : f = [op EXCEPT !.dst = D]
      BY <1>1 DEF Fragments
    <2>2. f.type = op.type /\ f.src = op.src /\ f.dst \subseteq op.dst
      BY <2>1 DEF Op
    <2> QED BY <1>1, <2>2 DEF Writes
  <1>2. CASE op.type # "create_claim"
    BY <1>2 DEF Fragments
  <1> QED BY <1>1, <1>2

LEMMA TryWrites ==
    ASSUME NEW op \in Op, Succeeds(op) \/ Fails(op)
    PROVE  neo' \subseteq neo \cup Writes(op)
  BY FragmentWrites DEF Succeeds, Fails, Apply, Fragments

\* create_claim writes a star: the claim, its entities and the edges.
LEMMA ClaimWrites ==
    ASSUME NEW c, NEW D, NEW S, c \in S, \A e \in D : e \in S /\ <<c, e>> \in S
    PROVE  Writes(ClaimOp(c, D)) \subseteq S
  <1>1. Writes(ClaimOp(c, D)) = {c} \cup D \cup ({c} \X D)
    BY DEF ClaimOp, Writes
  <1>2. {c} \X D \subseteq S
    OBVIOUS
  <1> QED BY <1>1, <1>2

\* What the three sources of ops hold is backed.
LEMMA IntentBacked ==
    ASSUME NEW p \in Clients, TypeInv, client[p].pc \in GraphPc, BackedInv
    PROVE  Writes(Intent(client[p])) \subseteq Backed
  <1> DEFINE c == client[p]
  <1>0. ClientBacked(c) /\ ClientShape(c) /\ Docs \subseteq Backed
    BY DEF BackedInv, TypeInv
  <1>1. CASE c.pc = "entity_graph"
    BY <1>0, <1>1 DEF Intent, EntityOp, Writes, ClientBacked, HeldIn
  <1>2. CASE c.pc = "relationship_graph"
    BY <1>0, <1>2 DEF Intent, RelationshipOp, Writes, ClientBacked, HeldIn
  <1>3. CASE c.pc = "evidence_graph"
    <2>1. c.claim \in Backed /\ c.other \in Backed /\ <<c.claim, c.other>> \in Backed
      BY <1>0, <1>3, SortsAssumption DEF ClientBacked, HeldIn, ClientShape
    <2> QED BY <1>3, <2>1 DEF Intent, EvidenceOp, Writes
  <1>4. CASE c.pc = "claim_graph"
    <2>1. c.claim \in Backed
      BY <1>0, <1>4, SortsAssumption DEF ClientBacked, HeldIn, ClientShape
    <2>2. \A e \in c.about : e \in Backed /\ <<c.claim, e>> \in Backed
      BY <1>0 DEF ClientBacked, HeldIn
    <2>3. Intent(c) = ClaimOp(c.claim, c.about)
      BY <1>4 DEF Intent
    <2> QED BY <2>1, <2>2, <2>3, ClaimWrites
  <1> QED BY <1>1, <1>2, <1>3, <1>4 DEF GraphPc

LEMMA FillBacked ==
    ASSUME TypeInv, BackedInv, rec.pc = "act", Sections[rec.stage] \in FillSections,
           NEW f \in rec.todo
    PROVE  Writes(FillOp(f)) \subseteq Backed
  <1>1. f \in pg \cup gone /\ f \in Scope(Sections[rec.stage])
    BY DEF BackedInv, RecBacked, TypeInv, RecShape
  <1>2. f \in Claims \cup Docs \cup (Claims \X Docs)
    BY <1>1 DEF Scope, FillSections
  <1>3. CASE f \in Claims
    <2>1. PICK E : E = {e \in Entities : <<f, e>> \in pg}
      OBVIOUS
    <2>2. f \in Backed /\ \A e \in E : e \in Backed /\ <<f, e>> \in Backed
      BY <1>1, <1>3, <2>1 DEF BackedInv, EndsBacked, Node, Backed
    <2>3. FillOp(f) = ClaimOp(f, E)
      <3>1. f \notin Docs /\ f \notin Claims \X Docs
        BY <1>3, SortsAssumption
      <3>2. FillOp(f) = ClaimOp(f, {e \in Entities : <<f, e>> \in pg})
        BY <1>3, <3>1 DEF FillOp
      <3> QED BY <2>1, <3>2
    <2> QED BY <2>2, <2>3, ClaimWrites
  <1>4. CASE f \in Docs
    <2>1. FillOp(f) = DocumentOp(f)
      BY <1>4, SortsAssumption DEF FillOp
    <2> QED BY <1>1, <2>1 DEF DocumentOp, Writes, Backed
  <1>5. CASE f \in Claims \X Docs
    <2>1. PICK c \in Claims, d \in Docs : f = <<c, d>>
      BY <1>5
    <2>2. f \notin Claims /\ f \notin Docs
      BY <2>1, SortsAssumption
    <2>3. FillOp(f) = EvidenceOp(c, d)
      BY <2>1, <2>2 DEF FillOp
    <2>4. c \in Backed /\ d \in Backed /\ <<c, d>> \in Backed
      BY <1>1, <2>1 DEF BackedInv, EndsBacked, Node, Backed
    <2> QED BY <2>3, <2>4 DEF EvidenceOp, Writes
  <1> QED BY <1>2, <1>3, <1>4, <1>5

LEMMA TranslateWrites ==
    ASSUME NEW op, NEW t \in Translate(op)
    PROVE  t = op
  BY DEF Translate

\* The graph gains only what is backed.
LEMMA MirrorStep ==
    ASSUME TypeInv, [Next]_vars, BackedInv
    PROVE  neo' \subseteq neo \cup Backed
  <1>1. ASSUME NEW p \in Clients, GraphWriteOk(p) \/ GraphWriteErr(p)
        PROVE  neo' \subseteq neo \cup Backed
    <2>1. client[p].pc \in GraphPc /\ (Succeeds(Intent(client[p])) \/ Fails(Intent(client[p])))
      BY <1>1 DEF GraphWriteOk, GraphWriteErr
    <2>2. Intent(client[p]) \in Op
      BY <2>1, IntentType DEF TypeInv, TypeOK
    <2> QED BY <2>1, <2>2, TryWrites, IntentBacked
  <1>2. CASE ReplayTry
    <2>1. PICK i \in replay.batch : Succeeds(queue[i].op) \/ Fails(queue[i].op)
      BY <1>2 DEF ReplayTry
    <2>2. queue[i].op \in Op /\ Writes(queue[i].op) \subseteq Backed
      BY RowOpType, TableTypes DEF BackedInv, QueueBacked
    <2> QED BY <2>1, <2>2, TryWrites
  <1>3. CASE ReconcileSweep
    BY <1>3 DEF ReconcileSweep
  <1>4. ASSUME NEW p \in Clients,
               \/ Start(p) \/ EntityRow(p) \/ ClaimRow(p) \/ EvidenceRow(p)
               \/ AboutRow(p) \/ Endpoints(p) \/ RelationshipRow(p) \/ Rejected(p)
               \/ Enqueue(p) \/ EntityLog(p) \/ RelationshipLog(p) \/ ClaimLog(p)
               \/ ExtractAudit(p) \/ ExtractCommit(p) \/ EnqueueLost(p) \/ ClientAbort(p)
        PROVE  neo' = neo
    BY <1>4 DEF Start, StartEntity, StartRelationship, StartClaim, StartExtract, Call,
        EntityRow, ClaimRow, EvidenceRow, AboutRow, Endpoints, RelationshipRow,
        Rejected, Insert, Enqueue, GraphWritten, EntityLog, RelationshipLog, ClaimLog,
        ExtractAudit, AppendLog, ExtractCommit, EnqueueLost, ClientAbort, stores
  <1>5. ASSUME \/ ReplayTick \/ ReplayMark \/ Mirror \/ ReconcileStart \/ ReconcileReadPg
               \/ ReconcileReadNeo \/ ReconcileFill \/ ReconcileNext \/ ReconcileAbort
        PROVE  neo' = neo
    BY <1>5 DEF ReplayTick, ReplayMark, Mirror, MirrorTick, MirrorEnqueue, MirrorStamp,
        ReconcileStart, ReconcileReadPg, ReconcileReadNeo, ReconcileFill, ReconcileNext,
        ReconcileAbort, stores
  <1>6. ASSUME \/ Restart \/ WorkerAbort \/ NeoDown \/ NeoUp \/ AdminDelete
               \/ UNCHANGED vars
        PROVE  neo' = neo
    BY <1>6 DEF Restart, WorkerAbort, NeoDown, NeoUp, AdminDelete, vars, stores
  <1> QED BY <1>1, <1>2, <1>3, <1>4, <1>5, <1>6 DEF Next, Handler, Replay, Reconcile

\* An edge is inserted after its ends, a foreign key of each.
LEMMA EndsStep ==
    ASSUME TypeInv, [Next]_vars, BackedInv
    PROVE  EndsBacked'
  <1> SUFFICES ASSUME NEW x \in Node, NEW y \in Node, <<x, y>> \in pg' \cup gone'
               PROVE  x \in Backed' /\ y \in Backed'
    BY DEF EndsBacked
  <1>1. CASE <<x, y>> \in pg \cup gone
    BY <1>1, BackedGrows DEF BackedInv, EndsBacked
  <1>2. ASSUME <<x, y>> \notin pg \cup gone, NEW p \in Clients, RowStep(p)
        PROVE  x \in Backed' /\ y \in Backed'
    <2>0. /\ client[p] \in ClientState /\ ClientShape(client[p])
          /\ pg \subseteq pg' /\ pg' \subseteq Backed'
          /\ Docs \subseteq Backed'
          /\ <<x, y>> \notin Node
      <3>1. <<x, y>> \notin Node
        BY SortsAssumption DEF Node
      <3>2. pg \subseteq pg'
        BY <1>2 DEF RowStep, EntityRow, ClaimRow, EvidenceRow, AboutRow, RelationshipRow,
            Insert, ExtractCommit
      <3> QED BY <3>1, <3>2, BackedGrows DEF TypeInv, TypeOK, BackedInv, Backed
    <2>1. <<x, y>> \in pg' /\ <<x, y>> \notin pg
      BY <1>2 DEF RowStep, EntityRow, ClaimRow, EvidenceRow, AboutRow, RelationshipRow,
          Insert, ExtractCommit, history
    <2>2. CASE EntityRow(p) \/ ClaimRow(p)
      BY <2>0, <2>1, <2>2 DEF EntityRow, ClaimRow, Insert, ClientState, ClientShape, Node
    <2>3. CASE EvidenceRow(p)
      <3>1. PICK d \in client[p].docs : pg' = pg \cup {<<client[p].claim, d>>}
        BY <2>3 DEF EvidenceRow, Insert
      <3>2. x = client[p].claim /\ y = d
        BY <2>1, <3>1
      <3> QED BY <2>0, <2>3, <3>2 DEF EvidenceRow, ClientState
    <2>4. CASE AboutRow(p)
      BY <2>0, <2>1, <2>4 DEF AboutRow, Insert
    <2>5. CASE RelationshipRow(p)
      BY <2>0, <2>1, <2>5 DEF RelationshipRow, Insert
    <2>6. CASE ExtractCommit(p)
      <3>1. client[p].claim \in Claims /\ client[p].ents \subseteq Entities
        BY <2>0, <2>6 DEF ExtractCommit, ClientState, ClientShape
      <3>2. <<x, y>> \in {client[p].claim} \X client[p].ents
        BY <2>0, <2>1, <2>6, <3>1 DEF ExtractCommit, Node
      <3> QED BY <2>0, <2>6, <3>2 DEF ExtractCommit
    <2> QED BY <1>2, <2>2, <2>3, <2>4, <2>5, <2>6 DEF RowStep
  <1> QED BY <1>1, <1>2, RowsGrow

LEMMA LogBackedStep ==
    ASSUME TypeInv, [Next]_vars, BackedInv
    PROVE  LogBacked'
  <1> SUFFICES ASSUME NEW i \in DOMAIN log'
               PROVE  Writes(log'[i].op) \subseteq Backed'
    BY DEF LogBacked
  <1>0. log \in Seq(LogRow)
    BY DEF TypeInv, TypeOK, TablesOK
  <1>1. CASE i \in DOMAIN log
    BY <1>1, LogGrows, BackedGrows DEF BackedInv, LogBacked
  <1>2. CASE i \notin DOMAIN log
    <2>1. LogAppend
      <3>1. CASE MirrorStamp
        <4>1. PICK j \in mirror.batch : log' = [log EXCEPT ![j].mirrored = TRUE]
          BY <3>1 DEF MirrorStamp
        <4> QED BY <1>2, <4>1
      <3> QED BY <1>2, <3>1, LogStep
    <2>2. PICK op \in Op, early \in BOOLEAN :
            /\ LogSource(op, early)
            /\ log' = Append(log, [op |-> op, early |-> early, mirrored |-> FALSE])
      BY <2>1 DEF LogAppend
    <2>3. log'[i].op = op /\ log'[i].early = early
      <3>1. [op |-> op, early |-> early, mirrored |-> FALSE] \in LogRow
        BY DEF LogRow
      <3>2. /\ Len(log') = Len(log) + 1
            /\ log'[Len(log) + 1] = [op |-> op, early |-> early, mirrored |-> FALSE]
        BY <1>0, <2>2, <3>1, AppendProperties
      <3>3. DOMAIN log' = 1 .. Len(log) + 1
        BY <3>2, LogGrows, LenProperties
      <3>4. i = Len(log) + 1
        BY <1>2, <3>3, TableTypes
      <3> QED BY <3>2, <3>4
    <2>4. CASE early
      BY <2>3, <2>4 DEF Announced, Backed
    <2>5. CASE ~early
      <3>1. PICK p \in Clients :
              \/ client[p].pc = "entity_log" /\ op = EntityOp(client[p].ent)
              \/ /\ client[p].pc = "relationship_log"
                 /\ op = RelationshipOp(client[p].ent, client[p].other)
              \/ /\ client[p].pc = "claim_log"
                 /\ op = ClaimOp(client[p].claim, client[p].about)
        BY <2>2, <2>5 DEF LogSource
      <3>2. HeldIn(client[p], Backed) /\ ClientShape(client[p])
        BY DEF BackedInv, ClientBacked, TypeInv
      <3>3. CASE client[p].pc = "entity_log"
        BY <2>3, <3>1, <3>2, <3>3, BackedGrows DEF HeldIn, EntityOp, Writes
      <3>4. CASE client[p].pc = "relationship_log"
        BY <2>3, <3>1, <3>2, <3>4, BackedGrows DEF HeldIn, RelationshipOp, Writes
      <3>5. CASE client[p].pc = "claim_log"
        <4>1. client[p].claim \in Backed
          BY <3>2, <3>5, SortsAssumption DEF HeldIn, ClientShape
        <4>2. Writes(op) \subseteq Backed
          BY <3>1, <3>2, <3>5, <4>1, ClaimWrites DEF HeldIn
        <4> QED BY <2>3, <4>2, BackedGrows
      <3> QED BY <3>1, <3>3, <3>4, <3>5
    <2> QED BY <2>4, <2>5
  <1> QED BY <1>1, <1>2

LEMMA QueueBackedStep ==
    ASSUME TypeInv, [Next]_vars, BackedInv
    PROVE  QueueBacked'
  <1> SUFFICES ASSUME NEW i \in DOMAIN queue'
               PROVE  Writes(queue'[i].op) \subseteq Backed'
    BY DEF QueueBacked
  <1>0. queue \in Seq(QueueRow)
    BY DEF TypeInv, TypeOK, TablesOK
  <1>1. CASE i \in DOMAIN queue
    BY <1>1, QueueGrows, BackedGrows DEF BackedInv, QueueBacked
  <1>2. CASE i \notin DOMAIN queue
    <2>1. QueueAppend
      <3>1. CASE ReplayMark
        <4>1. PICK j \in replay.batch :
                queue' = [queue EXCEPT ![j] = Marked(@, replay.outcome)]
          BY <3>1 DEF ReplayMark
        <4> QED BY <1>2, <4>1
      <3> QED BY <1>2, <3>1, QueueStep
    <2>2. PICK key \in Fact \cup {None}, op \in Op :
            QueueSource(op) /\ queue' = Append(queue, NewRow(key, op))
      BY <2>1 DEF QueueAppend
    <2>3. queue'[i].op = op
      <3>1. /\ Len(queue') = Len(queue) + 1
            /\ queue'[Len(queue) + 1] = NewRow(key, op)
        BY <1>0, <2>2, NewRowType, AppendProperties
      <3>2. DOMAIN queue' = 1 .. Len(queue) + 1
        BY <3>1, QueueGrows, LenProperties
      <3>3. i = Len(queue) + 1
        BY <1>2, <3>2, TableTypes
      <3> QED BY <3>1, <3>3 DEF NewRow
    <2>4. Writes(op) \subseteq Backed
      <3>1. CASE \E p \in Clients : client[p].pc \in GraphPc /\ op = Intent(client[p])
        BY <3>1, IntentBacked
      <3>2. CASE \E j \in mirror.batch : op \in Translate(log[j].op)
        BY <3>2, TranslateWrites, TableTypes DEF BackedInv, LogBacked
      <3>3. CASE /\ rec.pc = "act" /\ Sections[rec.stage] \in FillSections
                 /\ \E f \in rec.todo : op = FillOp(f)
        BY <3>3, FillBacked
      <3> QED BY <2>2, <3>1, <3>2, <3>3 DEF QueueSource
    <2> QED BY <2>3, <2>4, BackedGrows
  <1> QED BY <1>1, <1>2

\* The reconciler has read what it holds from PostgreSQL.
LEMMA RecBackedStep ==
    ASSUME TypeInv, [Next]_vars, BackedInv
    PROVE  RecBacked'
  <1>1. rec'.seen = rec.seen \/ rec'.seen = {} \/ rec'.seen \subseteq pg
    <2>0. rec = [pc |-> rec.pc, stage |-> rec.stage, seen |-> rec.seen, todo |-> rec.todo]
      BY DEF TypeInv, TypeOK, WorkersOK
    <2>1. ASSUME NEW p \in Clients, Start(p) \/ Handler(p) \/ EnqueueLost(p) \/ ClientAbort(p)
          PROVE  rec' = rec
      BY <2>1 DEF Start, StartEntity, StartRelationship, StartClaim, StartExtract, Call,
          Handler, EntityRow, ClaimRow, EvidenceRow, AboutRow, Endpoints, RelationshipRow,
          Rejected, Insert, GraphWriteOk, GraphWriteErr, Enqueue, GraphWritten, EntityLog,
          RelationshipLog, ClaimLog, ExtractAudit, AppendLog, ExtractCommit, EnqueueLost,
          ClientAbort, workers
    <2>2. ASSUME Replay \/ Mirror \/ NeoDown \/ NeoUp \/ AdminDelete \/ UNCHANGED vars
          PROVE  rec' = rec
      BY <2>2 DEF Replay, ReplayTick, ReplayTry, ReplayMark, Mirror, MirrorTick,
          MirrorEnqueue, MirrorStamp, NeoDown, NeoUp, AdminDelete, workers, vars
    <2>3. ASSUME Restart \/ WorkerAbort \/ ReconcileAbort \/ ReconcileStart \/ ReconcileNext
          PROVE  rec'.seen = rec.seen \/ rec'.seen = {}
      <3>1. RecIdle.seen = {} /\ \A s : [RecIdle EXCEPT !.pc = "pg", !.stage = s].seen = {}
        BY DEF RecIdle
      <3>2. [RecIdle EXCEPT !.pc = "pg"].seen = {}
        BY DEF RecIdle
      <3>3. Restart \/ WorkerAbort \/ ReconcileAbort => rec' = rec \/ rec' = RecIdle
        BY DEF Restart, WorkerAbort, ReconcileAbort
      <3>4. ReconcileStart => rec' = [RecIdle EXCEPT !.pc = "pg"]
        BY DEF ReconcileStart
      <3>5. ReconcileNext => \/ rec' = RecIdle
                             \/ rec' = [RecIdle EXCEPT !.pc = "pg", !.stage = rec.stage + 1]
        BY DEF ReconcileNext
      <3> QED BY <2>3, <3>1, <3>2, <3>3, <3>4, <3>5
    <2>4. ASSUME ReconcileReadPg
          PROVE  rec'.seen \subseteq pg
      BY <2>0, <2>4 DEF ReconcileReadPg
    <2>5. ASSUME ReconcileReadNeo \/ ReconcileSweep \/ ReconcileFill
          PROVE  rec'.seen = rec.seen
      BY <2>0, <2>5 DEF ReconcileReadNeo, ReconcileSweep, ReconcileFill
    <2> QED BY <2>1, <2>2, <2>3, <2>4, <2>5 DEF Next, Reconcile
  <1> QED BY <1>1, RowsGrow DEF BackedInv, RecBacked

\* What a call holds is backed: each pc is reached after the INSERT of what the
\* call holds there.
LEMMA ClientsBackedStep ==
    ASSUME TypeInv, [Next]_vars, BackedInv
    PROVE  \A p \in Clients : HeldIn(client'[p], Backed')
  <1> DEFINE Goal == \A p \in Clients : HeldIn(client'[p], Backed')
  <1>0. /\ client \in [Clients -> ClientState]
        /\ \A p \in Clients : client[p] \in ClientState /\ ClientShape(client[p])
        /\ \A p \in Clients : HeldIn(client[p], Backed)
    BY DEF TypeInv, TypeOK, BackedInv, ClientBacked
  <1>1. \A p \in Clients : HeldIn(client[p], Backed')
    BY <1>0, BackedGrows DEF HeldIn
  <1>2. \A p \in Clients : \A c :
            HeldIn(c, Backed') /\ client' = [client EXCEPT ![p] = c] => Goal
    BY <1>0, <1>1
  <1>3. \A S : HeldIn(Idle, S)
    BY DEF HeldIn, Idle
  <1>4. ASSUME NEW p \in Clients, Start(p) PROVE Goal
    <2> DEFINE Fresh(c) ==
            /\ c.pc \in {"entity_row", "endpoints", "claim_row", "extract_audit"}
            /\ c.about = {}
            /\ c.pc = "entity_row" => c.claim = None
    <2>0. \A c : Fresh(c) => HeldIn(c, Backed')
      BY DEF HeldIn
    <2>1. CASE StartEntity(p)
      <3>1. PICK e \in Entities : client' = [client EXCEPT ![p] =
                [Idle EXCEPT !.pc = "entity_row", !.ents = {e}]]
        BY <2>1 DEF StartEntity, Call
      <3>2. Fresh([Idle EXCEPT !.pc = "entity_row", !.ents = {e}])
        BY DEF Idle
      <3> QED BY <3>1, <3>2, <2>0, <1>2
    <2>2. CASE StartRelationship(p)
      <3>1. PICK a \in Entities, b \in Entities : client' = [client EXCEPT ![p] =
                [Idle EXCEPT !.pc = "endpoints", !.ent = a, !.other = b]]
        BY <2>2 DEF StartRelationship, Call
      <3>2. Fresh([Idle EXCEPT !.pc = "endpoints", !.ent = a, !.other = b])
        BY DEF Idle
      <3> QED BY <3>1, <3>2, <2>0, <1>2
    <2>3. CASE StartClaim(p)
      <3>1. PICK k \in Claims, D \in SUBSET Docs, E \in SUBSET Entities :
                client' = [client EXCEPT ![p] =
                    [Idle EXCEPT !.pc = "claim_row", !.claim = k, !.docs = D, !.ents = E]]
        BY <2>3 DEF StartClaim, Call
      <3>2. Fresh([Idle EXCEPT !.pc = "claim_row", !.claim = k, !.docs = D, !.ents = E])
        BY DEF Idle
      <3> QED BY <3>1, <3>2, <2>0, <1>2
    <2>4. CASE StartExtract(p)
      <3>1. PICK k \in Claims, E \in SUBSET Entities : client' = [client EXCEPT ![p] =
                [Idle EXCEPT !.pc = "extract_audit", !.claim = k, !.ents = E]]
        BY <2>4 DEF StartExtract, Call
      <3>2. Fresh([Idle EXCEPT !.pc = "extract_audit", !.claim = k, !.ents = E])
        BY DEF Idle
      <3> QED BY <3>1, <3>2, <2>0, <1>2
    <2> QED BY <1>4, <2>1, <2>2, <2>3, <2>4 DEF Start
  <1>5. ASSUME NEW p \in Clients, EntityRow(p) PROVE Goal
    <2>1. PICK e \in client[p].ents :
            Insert(p, e, [client[p] EXCEPT !.pc = "entity_graph", !.ent = e,
                                           !.ents = @ \ {e}])
      BY <1>5 DEF EntityRow
    <2> DEFINE st == [client[p] EXCEPT !.pc = "entity_graph", !.ent = e, !.ents = @ \ {e}]
    <2>2. /\ st.pc = "entity_graph" /\ st.ent = e
          /\ st.claim = client[p].claim /\ st.about = client[p].about
      BY <1>0 DEF ClientState
    <2>3. e \in Backed'
      BY <2>1 DEF Insert, Backed
    <2>4. client[p].pc = "entity_row"
      BY <1>5 DEF EntityRow
    <2> HIDE DEF st
    <2>5. HeldIn(st, Backed')
      BY <2>2, <2>3, <2>4, <1>1 DEF HeldIn
    <2> QED BY <2>1, <2>5, <1>2 DEF Insert, st
  <1>6. ASSUME NEW p \in Clients, ClaimRow(p) PROVE Goal
    <2> DEFINE st == [client[p] EXCEPT !.pc = "evidence_row"]
    <2>1. /\ st.pc = "evidence_row"
          /\ st.claim = client[p].claim /\ st.about = client[p].about
      BY <1>0 DEF ClientState
    <2>2. st.claim \in Backed'
      BY <1>6, <2>1 DEF ClaimRow, Insert, Backed
    <2>3. client' = [client EXCEPT ![p] = st]
      BY <1>6 DEF ClaimRow, Insert
    <2> HIDE DEF st
    <2>4. HeldIn(st, Backed')
      BY <2>1, <2>2, <1>1 DEF HeldIn
    <2> QED BY <2>3, <2>4, <1>2
  <1>7. ASSUME NEW p \in Clients, EvidenceRow(p) PROVE Goal
    <2>1. PICK d \in client[p].docs :
            Insert(p, <<client[p].claim, d>>,
                   [client[p] EXCEPT !.pc = "evidence_graph", !.other = d,
                                     !.docs = @ \ {d}])
      BY <1>7 DEF EvidenceRow
    <2> DEFINE st == [client[p] EXCEPT !.pc = "evidence_graph", !.other = d,
                                       !.docs = @ \ {d}]
    <2>2. /\ st.pc = "evidence_graph" /\ st.other = d
          /\ st.claim = client[p].claim /\ st.about = client[p].about
      BY <1>0 DEF ClientState
    <2>3. <<st.claim, st.other>> \in Backed'
      BY <2>1, <2>2 DEF Insert, Backed
    <2>4. client[p].pc = "evidence_row"
      BY <1>7 DEF EvidenceRow
    <2> HIDE DEF st
    <2>5. HeldIn(st, Backed')
      BY <2>2, <2>3, <2>4, <1>1 DEF HeldIn
    <2> QED BY <2>1, <2>5, <1>2 DEF Insert, st
  <1>8. ASSUME NEW p \in Clients, AboutRow(p) PROVE Goal
    <2> DEFINE next == IF client[p].ents = {} THEN "claim_graph" ELSE "entity_row"
               st == [client[p] EXCEPT !.pc = next, !.about = @ \cup {client[p].ent}]
    <2>1. /\ st.pc \in {"claim_graph", "entity_row"}
          /\ st.claim = client[p].claim
          /\ st.about = client[p].about \cup {client[p].ent}
      BY <1>0 DEF ClientState
    <2>2. client[p].ent \in Backed' /\ <<client[p].claim, client[p].ent>> \in Backed'
      BY <1>8, <1>1 DEF AboutRow, Insert, Backed, HeldIn
    <2>3. client' = [client EXCEPT ![p] = st]
      BY <1>8 DEF AboutRow, Insert
    <2>4. client[p].pc = "about_row"
      BY <1>8 DEF AboutRow
    <2> HIDE DEF st, next
    <2>5. HeldIn(st, Backed')
      BY <2>1, <2>2, <2>4, <1>1 DEF HeldIn
    <2> QED BY <2>3, <2>5, <1>2
  <1>9. ASSUME NEW p \in Clients, Endpoints(p) PROVE Goal
    <2> DEFINE st == [client[p] EXCEPT !.pc = "relationship_row"]
    <2>1. st.pc = "relationship_row" /\ st.claim = client[p].claim /\ st.about = client[p].about
      BY <1>0 DEF ClientState
    <2>2. client' = [client EXCEPT ![p] = st]
      BY <1>9 DEF Endpoints
    <2> HIDE DEF st
    <2>3. HeldIn(st, Backed')
      BY <2>1, <1>1 DEF HeldIn
    <2> QED BY <2>2, <2>3, <1>2
  <1>10. ASSUME NEW p \in Clients, RelationshipRow(p) PROVE Goal
    <2> DEFINE st == [client[p] EXCEPT !.pc = "relationship_graph"]
    <2>1. /\ st.pc = "relationship_graph" /\ st.ent = client[p].ent
          /\ st.other = client[p].other
          /\ st.claim = client[p].claim /\ st.about = client[p].about
      BY <1>0 DEF ClientState
    <2>2. client' = [client EXCEPT ![p] = st]
      BY <1>10 DEF RelationshipRow, Insert
    <2>3. <<client[p].ent, client[p].other>> \in Backed'
      BY <1>10 DEF RelationshipRow, Insert, Backed
    <2> HIDE DEF st
    <2>4. HeldIn(st, Backed')
      BY <2>1, <2>3, <1>1 DEF HeldIn
    <2> QED BY <2>2, <2>4, <1>2
  <1>11. ASSUME NEW p \in Clients, GraphWriteOk(p) \/ Enqueue(p) \/ EnqueueLost(p)
         PROVE  Goal
    <2> DEFINE st == [client[p] EXCEPT !.pc = AfterGraph(client[p]), !.failed = FALSE]
    <2>1. /\ st.pc = AfterGraph(client[p]) /\ st.ent = client[p].ent
          /\ st.other = client[p].other
          /\ st.claim = client[p].claim /\ st.about = client[p].about
      BY <1>0 DEF ClientState
    <2>2. client' = [client EXCEPT ![p] = st] /\ client[p].pc \in GraphPc
      BY <1>11 DEF GraphWriteOk, Enqueue, EnqueueLost, GraphWritten
    <2>3. /\ client[p].pc = "entity_graph" => st.pc = "entity_log"
          /\ client[p].pc = "relationship_graph" => st.pc = "relationship_log"
          /\ client[p].pc = "claim_graph" => st.pc = "claim_log"
          /\ client[p].pc = "evidence_graph"
                => st.pc \in {"evidence_row", "entity_row", "claim_graph"}
      BY <2>1 DEF AfterGraph
    <2> HIDE DEF st
    <2>4. HeldIn(st, Backed')
      BY <2>1, <2>2, <2>3, <1>1 DEF HeldIn, GraphPc
    <2> QED BY <2>2, <2>4, <1>2
  <1>12. ASSUME NEW p \in Clients, GraphWriteErr(p) PROVE Goal
    <2> DEFINE st == [client[p] EXCEPT !.failed = TRUE]
    <2>1. /\ st.pc = client[p].pc /\ st.ent = client[p].ent
          /\ st.other = client[p].other
          /\ st.claim = client[p].claim /\ st.about = client[p].about
      BY <1>0 DEF ClientState
    <2>2. client' = [client EXCEPT ![p] = st]
      BY <1>12 DEF GraphWriteErr
    <2> HIDE DEF st
    <2>3. HeldIn(st, Backed')
      BY <2>1, <1>1 DEF HeldIn
    <2> QED BY <2>2, <2>3, <1>2
  <1>13. ASSUME NEW p \in Clients, EntityLog(p) PROVE Goal
    <2> DEFINE st == [client[p] EXCEPT !.pc = "about_row"]
    <2>1. /\ st.pc = "about_row" /\ st.ent = client[p].ent
          /\ st.claim = client[p].claim /\ st.about = client[p].about
      BY <1>0 DEF ClientState
    <2>2. \/ client' = [client EXCEPT ![p] = st]
          \/ client' = [client EXCEPT ![p] = Idle]
      BY <1>13 DEF EntityLog
    <2>3. client[p].pc = "entity_log"
      BY <1>13 DEF EntityLog
    <2> HIDE DEF st
    <2>4. HeldIn(st, Backed')
      BY <2>1, <2>3, <1>1 DEF HeldIn
    <2> QED BY <2>2, <2>4, <1>2, <1>3
  <1>14. ASSUME NEW p \in Clients, ExtractAudit(p) PROVE Goal
    <2> DEFINE st == [client[p] EXCEPT !.pc = "extract_commit"]
    <2>1. st.pc = "extract_commit" /\ st.claim = client[p].claim /\ st.about = client[p].about
      BY <1>0 DEF ClientState
    <2>2. client' = [client EXCEPT ![p] = st]
      BY <1>14 DEF ExtractAudit
    <2> HIDE DEF st
    <2>3. HeldIn(st, Backed')
      BY <2>1, <1>1 DEF HeldIn
    <2> QED BY <2>2, <2>3, <1>2
  <1>15. ASSUME NEW p \in Clients,
                \/ Rejected(p) \/ RelationshipLog(p) \/ ClaimLog(p)
                \/ ExtractCommit(p) \/ ClientAbort(p)
         PROVE  Goal
    BY <1>15, <1>2, <1>3 DEF Rejected, RelationshipLog, ClaimLog, ExtractCommit, ClientAbort
  <1>16. ASSUME Restart PROVE Goal
    BY <1>16, <1>3 DEF Restart
  <1>17. ASSUME \/ Replay \/ Mirror \/ Reconcile \/ WorkerAbort \/ NeoDown \/ NeoUp
                \/ AdminDelete \/ UNCHANGED vars
         PROVE  client' = client
    BY <1>17 DEF Replay, ReplayTick, ReplayTry, ReplayMark, Mirror, MirrorTick,
        MirrorEnqueue, MirrorStamp, Reconcile, ReconcileStart, ReconcileReadPg,
        ReconcileReadNeo, ReconcileSweep, ReconcileFill, ReconcileNext,
        ReconcileAbort, WorkerAbort, NeoDown, NeoUp, AdminDelete, vars
  <1>18. ASSUME NEW p \in Clients, Start(p) \/ Handler(p) \/ EnqueueLost(p) \/ ClientAbort(p)
         PROVE  Goal
    BY <1>18, <1>4, <1>5, <1>6, <1>7, <1>8, <1>9, <1>10, <1>11, <1>12, <1>13, <1>14, <1>15
       DEF Handler
  <1>19. client' = client => Goal
    BY <1>1
  <1> HIDE DEF Goal
  <1>20. Goal
    BY <1>16, <1>17, <1>18, <1>19 DEF Next
  <1> QED BY <1>20 DEF Goal

LEMMA BackedStep ==
    ASSUME TypeInv, [Next]_vars, BackedInv
    PROVE  BackedInv'
  <1>1. MirrorBacked'
    BY MirrorStep, BackedGrows DEF BackedInv, MirrorBacked
  <1>2. Docs \subseteq Backed'
    BY BackedGrows DEF BackedInv
  <1>3. (\A p \in Clients : ClientBacked(client[p]))'
    BY ClientsBackedStep DEF ClientBacked
  <1> QED BY <1>1, <1>2, <1>3, LogBackedStep, QueueBackedStep, RecBackedStep, EndsStep
          DEF BackedInv

LEMMA BackedAlways == Spec => []BackedInv
  <1>1. Init => BackedInv
    <2> SUFFICES ASSUME Init PROVE BackedInv
      OBVIOUS
    <2>1. DOMAIN queue = {} /\ DOMAIN log = {}
      BY EmptySeq, LenProperties DEF Init
    <2>2. LogBacked /\ QueueBacked
      BY <2>1 DEF LogBacked, QueueBacked
    <2>3. \A p \in Clients : ClientBacked(client[p])
      BY DEF Init, Idle, ClientBacked, HeldIn
    <2>4. EndsBacked
      BY SortsAssumption DEF Init, EndsBacked, Node
    <2> QED BY <2>2, <2>3, <2>4 DEF Init, BackedInv, MirrorBacked, Backed, RecBacked, RecIdle
  <1>2. TypeInv /\ [Next]_vars /\ BackedInv => BackedInv'
    BY BackedStep
  <1> QED BY <1>1, <1>2, TypeInvAlways, PTL DEF Spec

\* Whatever the handlers, the queue, the change_log, the backfills and the
\* deletions do to each other: a fact in Neo4j was in PostgreSQL first, or is
\* one that extract_claims announced before its commit.
THEOREM MirrorIsBacked == Spec => []MirrorBacked
  <1>1. BackedInv => MirrorBacked
    BY DEF BackedInv
  <1> QED BY <1>1, BackedAlways, PTL

-----------------------------------------------------------------------------
\* No entity is lost on the way.

\* A call is moved on by its own steps only, and by a restart.
LEMMA OwnStep ==
    ASSUME TypeInv, [Next]_vars, NEW p \in Clients
    PROVE  \/ client'[p] = client[p]
           \/ Start(p) \/ Handler(p) \/ EnqueueLost(p) \/ ClientAbort(p)
           \/ Restart
  <1>0. client \in [Clients -> ClientState]
    BY DEF TypeInv, TypeOK
  <1>1. ASSUME NEW q \in Clients, q # p,
               Start(q) \/ Handler(q) \/ EnqueueLost(q) \/ ClientAbort(q)
        PROVE  client'[p] = client[p]
    <2>1. PICK c : client' = [client EXCEPT ![q] = c]
      <3>1. CASE Start(q)
        BY <3>1 DEF Start, StartEntity, StartRelationship, StartClaim, StartExtract, Call
      <3>2. CASE Handler(q)
        BY <3>2 DEF Handler, EntityRow, ClaimRow, EvidenceRow, AboutRow, Endpoints,
            RelationshipRow, Rejected, Insert, GraphWriteOk, GraphWriteErr, Enqueue,
            GraphWritten, EntityLog, RelationshipLog, ClaimLog, ExtractAudit, ExtractCommit
      <3>3. CASE EnqueueLost(q) \/ ClientAbort(q)
        BY <3>3 DEF EnqueueLost, ClientAbort, GraphWritten
      <3> QED BY <1>1, <3>1, <3>2, <3>3
    <2> QED BY <1>0, <1>1, <2>1
  <1>2. ASSUME \/ Replay \/ Mirror \/ Reconcile \/ WorkerAbort \/ NeoDown \/ NeoUp
               \/ AdminDelete \/ UNCHANGED vars
        PROVE  client' = client
    BY <1>2 DEF Replay, ReplayTick, ReplayTry, ReplayMark, Mirror, MirrorTick,
        MirrorEnqueue, MirrorStamp, Reconcile, ReconcileStart, ReconcileReadPg,
        ReconcileReadNeo, ReconcileSweep, ReconcileFill, ReconcileNext,
        ReconcileAbort, WorkerAbort, NeoDown, NeoUp, AdminDelete, vars
  <1> QED BY <1>1, <1>2 DEF Next

\* Only the mirror worker stamps a row, the first of its batch.
LEMMA StampStep ==
    ASSUME TypeInv, [Next]_vars, NEW i \in DOMAIN log, log'[i].mirrored
    PROVE  log[i].mirrored \/ (mirror.queued /\ i \in mirror.batch /\ IsFirst(i, mirror.batch))
  <1>0. log \in Seq(LogRow)
    BY DEF TypeInv, TypeOK, TablesOK
  <1>1. CASE LogAppend
    <2>1. PICK row \in LogRow : log' = Append(log, row)
      BY <1>1 DEF LogAppend, LogRow
    <2> QED BY <1>0, <2>1, AppendProperties, TableTypes
  <1>2. CASE MirrorStamp
    <2>1. PICK j \in mirror.batch :
            IsFirst(j, mirror.batch) /\ log' = [log EXCEPT ![j].mirrored = TRUE]
      BY <1>2 DEF MirrorStamp
    <2>2. i # j => log'[i] = log[i]
      BY <2>1
    <2> QED BY <1>2, <2>1, <2>2 DEF MirrorStamp
  <1> QED BY <1>1, <1>2, LogStep

\* A queued entity stays queued until it is written: the row that becomes DONE
\* has been.
LEMMA QueuedGrows ==
    ASSUME TypeInv, [Next]_vars, DoneInv, NEW e \in Entities, Queued(e)
    PROVE  Queued(e)'
  <1>1. CASE e \in Written
    BY <1>1, WrittenGrows DEF Queued, DueInQueue
  <1>2. CASE \E i \in DOMAIN queue : queue[i].status # "DONE" /\ e \in Writes(queue[i].op)
    <2>1. PICK i \in DOMAIN queue : e \in Writes(queue[i].op)
      BY <1>2
    <2>2. i \in DOMAIN queue' /\ queue'[i].op = queue[i].op
      BY <2>1, QueueGrows
    <2>3. CASE queue'[i].status # "DONE"
      BY <2>1, <2>2, <2>3 DEF Queued, DueInQueue
    <2>4. CASE queue'[i].status = "DONE"
      <3>1. queue[i].op.type # "create_relationship"
        <4>1. queue[i].op \in Op
          BY <2>1, TableTypes DEF QueueRow
        <4>2. queue[i].op.src \in Node /\ queue[i].op.dst \subseteq Node
          BY <4>1 DEF Op
        <4>3. \A x, y \in Node : e # <<x, y>>
          BY SortsAssumption DEF Node
        <4> QED BY <2>1, <4>2, <4>3 DEF Writes
      <3>2. DoneInv'
        BY DoneStep
      <3>3. Writes(queue'[i].op) \subseteq Written'
        BY <2>2, <2>4, <3>1, <3>2 DEF DoneInv, DoneWasWritten, Written
      <3> QED BY <2>1, <2>2, <3>3 DEF Queued, DueInQueue
    <2> QED BY <2>3, <2>4
  <1> QED BY <1>1, <1>2 DEF Queued, DueInQueue

LEMMA HandedGrows ==
    ASSUME TypeInv, [Next]_vars, DoneInv, LostInv, NEW e \in Entities, Handed(e)
    PROVE  Handed(e)'
  <1>1. CASE Queued(e)
    BY <1>1, QueuedGrows DEF Handed, DueInLog
  <1>2. ASSUME NEW i \in DOMAIN log, ~log[i].mirrored,
               NEW op \in Translate(log[i].op), e \in Writes(op)
        PROVE  Handed(e)'
    <2>1. i \in DOMAIN log' /\ log'[i].op = log[i].op
      BY LogGrows
    <2>2. CASE ~log'[i].mirrored
      BY <1>2, <2>1, <2>2 DEF Handed, DueInLog
    <2>3. CASE log'[i].mirrored
      <3>1. mirror.queued /\ i \in mirror.batch /\ IsFirst(i, mirror.batch)
        BY <1>2, <2>3, StampStep
      <3>2. Queued(e)
        BY <1>2, <3>1 DEF LostInv, StampQueued
      <3> QED BY <3>2, QueuedGrows DEF Handed, DueInLog
    <2> QED BY <2>2, <2>3
  <1> QED BY <1>1, <1>2 DEF Handed, DueInLog

\* A row that was just appended to the change_log is due.
LEMMA AppendHands ==
    ASSUME TypeInv, [Next]_vars, NEW op \in Op, NEW early \in BOOLEAN, AppendLog(op, early),
           op.type # "create_relationship", NEW f \in Writes(op)
    PROVE  DueInLog(f)'
  <1>0. log \in Seq(LogRow)
    BY DEF TypeInv, TypeOK, TablesOK
  <1> DEFINE row == [op |-> op, early |-> early, mirrored |-> FALSE]
  <1>1. row \in LogRow /\ row.op = op /\ row.mirrored = FALSE
    BY DEF LogRow
  <1>2. log' = Append(log, row)
    BY DEF AppendLog
  <1> HIDE DEF row
  <1>3. Len(log') = Len(log) + 1 /\ log'[Len(log) + 1] = row
    BY <1>0, <1>1, <1>2, AppendProperties
  <1>4. Len(log) + 1 \in DOMAIN log'
    BY <1>3, LogGrows, LenProperties, TableTypes
  <1>5. op \in Translate(op)
    BY DEF Translate
  <1> QED BY <1>1, <1>3, <1>4, <1>5 DEF DueInLog

LEMMA CutGrows ==
    ASSUME TypeInv, [Next]_vars
    PROVE  cut \subseteq cut'
  <1>1. ASSUME NEW p \in Clients, Start(p) \/ Handler(p)
        PROVE  cut' = cut
    BY <1>1 DEF Start, StartEntity, StartRelationship, StartClaim, StartExtract, Call,
        Handler, EntityRow, ClaimRow, EvidenceRow, AboutRow, Endpoints, RelationshipRow,
        Rejected, Insert, GraphWriteOk, GraphWriteErr, Enqueue, GraphWritten, EntityLog,
        RelationshipLog, ClaimLog, ExtractAudit, AppendLog, ExtractCommit, history
  <1>2. ASSUME NEW p \in Clients, EnqueueLost(p) \/ ClientAbort(p)
        PROVE  cut \subseteq cut'
    BY <1>2 DEF EnqueueLost, ClientAbort
  <1>3. ASSUME Restart PROVE cut \subseteq cut'
    BY <1>3 DEF Restart
  <1>4. ASSUME \/ Replay \/ Mirror \/ Reconcile \/ WorkerAbort \/ NeoDown \/ NeoUp
               \/ AdminDelete \/ UNCHANGED vars
        PROVE  cut' = cut
    BY <1>4 DEF Replay, ReplayTick, ReplayTry, ReplayMark, Mirror, MirrorTick,
        MirrorEnqueue, MirrorStamp, Reconcile, ReconcileStart, ReconcileReadPg,
        ReconcileReadNeo, ReconcileSweep, ReconcileFill, ReconcileNext,
        ReconcileAbort, WorkerAbort, NeoDown, NeoUp, AdminDelete, vars, history
  <1> QED BY <1>1, <1>2, <1>3, <1>4 DEF Next

\* An entity that a call owes: the call goes on owing it, or hands it over with
\* its change_log row, or stops and the entity is cut off.
LEMMA OwedStep ==
    ASSUME TypeInv, [Next]_vars, NEW e \in Entities, NEW p \in Clients, e \in Owed(client[p])
    PROVE  e \in Owed(client'[p]) \/ DueInLog(e)' \/ ClientAbort(p) \/ Restart
  <1>0. client \in [Clients -> ClientState] /\ client[p] \in ClientState
    BY DEF TypeInv, TypeOK
  <1>1. client[p].pc \in {"entity_graph", "entity_log"} /\ client[p].ent = e
    <2>1. CASE client[p].pc = "relationship_graph"
      <3>1. client[p].ent \in Node /\ client[p].other \in Node
        BY <2>1 DEF TypeInv, ClientShape, Node
      <3>2. e # <<client[p].ent, client[p].other>>
        BY <3>1, SortsAssumption DEF Node
      <3> QED BY <2>1, <3>2 DEF Owed
    <2>2. CASE client[p].pc \in {"entity_graph", "entity_log"}
      BY <2>2 DEF Owed
    <2>3. CASE client[p].pc \notin {"entity_graph", "entity_log", "relationship_graph"}
      BY <2>3 DEF Owed
    <2> QED BY <2>1, <2>2, <2>3
  <1>2. CASE client'[p] = client[p]
    BY <1>2
  <1>3. CASE ClientAbort(p) \/ Restart
    BY <1>3
  <1>4. CASE GraphWriteOk(p) \/ Enqueue(p) \/ EnqueueLost(p)
    <2>1. client' = [client EXCEPT ![p] =
            [client[p] EXCEPT !.pc = AfterGraph(client[p]), !.failed = FALSE]]
      BY <1>4 DEF GraphWriteOk, Enqueue, EnqueueLost, GraphWritten
    <2>2. client[p].pc = "entity_graph"
      BY <1>1, <1>4 DEF GraphWriteOk, Enqueue, EnqueueLost, GraphPc
    <2>3. AfterGraph(client[p]) = "entity_log"
      BY <2>2 DEF AfterGraph
    <2>4. client'[p].pc = "entity_log" /\ client'[p].ent = e
      BY <1>0, <1>1, <2>1, <2>3 DEF ClientState
    <2> QED BY <2>4 DEF Owed
  <1>5. CASE GraphWriteErr(p)
    <2>1. client' = [client EXCEPT ![p] = [client[p] EXCEPT !.failed = TRUE]]
      BY <1>5 DEF GraphWriteErr
    <2>2. client'[p].pc = client[p].pc /\ client'[p].ent = e
      BY <1>0, <1>1, <2>1 DEF ClientState
    <2> QED BY <1>1, <2>2 DEF Owed
  <1>6. CASE EntityLog(p)
    <2>1. EntityOp(e) \in Op /\ EntityOp(e).type # "create_relationship" /\ e \in Writes(EntityOp(e))
      BY OpTypes DEF EntityOp, Writes
    <2>2. AppendLog(EntityOp(e), FALSE)
      BY <1>1, <1>6 DEF EntityLog
    <2> QED BY <2>1, <2>2, AppendHands
  <1>7. ASSUME \/ Start(p) \/ EntityRow(p) \/ ClaimRow(p) \/ EvidenceRow(p) \/ AboutRow(p)
               \/ Endpoints(p) \/ RelationshipRow(p) \/ Rejected(p) \/ RelationshipLog(p)
               \/ ClaimLog(p) \/ ExtractAudit(p) \/ ExtractCommit(p)
        PROVE  FALSE
    BY <1>1, <1>7 DEF Start, StartEntity, StartRelationship, StartClaim, StartExtract, Call,
        EntityRow, ClaimRow, EvidenceRow, AboutRow, Endpoints, RelationshipRow, Rejected,
        RelationshipLog, ClaimLog, ExtractAudit, ExtractCommit
  <1> QED BY <1>2, <1>3, <1>4, <1>5, <1>6, <1>7, OwnStep DEF Handler

\* extract_claims announces its entities before it commits them.
LEMMA ExtractHandedStep ==
    ASSUME TypeInv, [Next]_vars, DoneInv, LostInv
    PROVE  ExtractHanded'
  <1> SUFFICES ASSUME NEW p \in Clients, client'[p].pc = "extract_commit",
                      NEW e \in client'[p].ents
               PROVE  Handed(e)'
    BY DEF ExtractHanded
  <1>0. /\ client \in [Clients -> ClientState] /\ client[p] \in ClientState
        /\ client' \in [Clients -> ClientState] /\ e \in Entities
    BY ClientsTyped DEF TypeInv, TypeOK, ClientState
  <1>1. CASE client'[p] = client[p]
    <2>1. Handed(e)
      BY <1>1 DEF LostInv, ExtractHanded
    <2> QED BY <1>0, <2>1, HandedGrows
  <1>2. CASE ExtractAudit(p)
    <2>1. client[p].claim \in Claims /\ client[p].ents \in SUBSET Entities
      BY <1>0, <1>2 DEF ExtractAudit, TypeInv, ClientShape, ClientState
    <2>2. client'[p].ents = client[p].ents
      BY <1>0, <1>2 DEF ExtractAudit, ClientState
    <2> DEFINE op == ClaimOp(client[p].claim, client[p].ents)
    <2>3. op \in Op
      BY <2>1, OpTypes
    <2>4. op.type # "create_relationship" /\ e \in Writes(op)
      BY <2>2 DEF ClaimOp, Writes
    <2>5. AppendLog(op, TRUE)
      BY <1>2 DEF ExtractAudit
    <2> HIDE DEF op
    <2> QED BY <2>3, <2>4, <2>5, AppendHands DEF Handed
  <1>3. ASSUME Start(p) \/ (Handler(p) /\ ~ExtractAudit(p)) \/ EnqueueLost(p)
               \/ ClientAbort(p) \/ Restart
        PROVE  FALSE
    <2>1. CASE Start(p)
      BY <1>0, <2>1 DEF Start, StartEntity, StartRelationship, StartClaim, StartExtract,
          Call, Idle
    <2>2. CASE \/ Rejected(p) \/ RelationshipLog(p) \/ ClaimLog(p) \/ ExtractCommit(p)
               \/ ClientAbort(p) \/ Restart
      <3>1. client'[p] = Idle
        BY <1>0, <2>2 DEF Rejected, RelationshipLog, ClaimLog, ExtractCommit, ClientAbort,
            Restart
      <3> QED BY <3>1 DEF Idle
    <2>3. CASE EntityRow(p) \/ EvidenceRow(p)
      <3>1. CASE EntityRow(p)
        BY <1>0, <3>1 DEF EntityRow, Insert, ClientState
      <3>2. CASE EvidenceRow(p)
        BY <1>0, <3>2 DEF EvidenceRow, Insert, ClientState
      <3> QED BY <2>3, <3>1, <3>2
    <2>3a. CASE ClaimRow(p) \/ AboutRow(p) \/ Endpoints(p) \/ RelationshipRow(p)
      <3>1. CASE ClaimRow(p)
        BY <1>0, <3>1 DEF ClaimRow, Insert, ClientState
      <3>2. CASE AboutRow(p)
        BY <1>0, <3>2 DEF AboutRow, Insert, ClientState
      <3>3. CASE Endpoints(p)
        BY <1>0, <3>3 DEF Endpoints, ClientState
      <3>4. CASE RelationshipRow(p)
        BY <1>0, <3>4 DEF RelationshipRow, Insert, ClientState
      <3> QED BY <2>3a, <3>1, <3>2, <3>3, <3>4
    <2>4. CASE GraphWriteOk(p) \/ Enqueue(p) \/ EnqueueLost(p)
      <3>1. client[p].pc \in GraphPc /\ client' = [client EXCEPT ![p] =
              [client[p] EXCEPT !.pc = AfterGraph(client[p]), !.failed = FALSE]]
        BY <2>4 DEF GraphWriteOk, Enqueue, EnqueueLost, GraphWritten
      <3>2. client'[p].pc = AfterGraph(client[p])
        BY <1>0, <3>1 DEF ClientState
      <3> QED BY <3>1, <3>2 DEF AfterGraph, GraphPc
    <2>5. CASE GraphWriteErr(p)
      <3>1. client[p].pc \in GraphPc
            /\ client' = [client EXCEPT ![p] = [client[p] EXCEPT !.failed = TRUE]]
        BY <2>5 DEF GraphWriteErr
      <3>2. client'[p].pc = client[p].pc
        BY <1>0, <3>1 DEF ClientState
      <3> QED BY <3>1, <3>2 DEF GraphPc
    <2>6. CASE EntityLog(p)
      BY <1>0, <2>6 DEF EntityLog, Idle, ClientState
    <2> QED BY <1>3, <2>1, <2>2, <2>3, <2>3a, <2>4, <2>5, <2>6 DEF Handler
  <1> QED BY <1>1, <1>2, <1>3, OwnStep

\* The mirror worker queues before it stamps.
LEMMA StampQueuedStep ==
    ASSUME TypeInv, [Next]_vars, DoneInv, LostInv
    PROVE  StampQueued'
  <1> SUFFICES ASSUME mirror'.queued, NEW i \in mirror'.batch, IsFirst(i, mirror'.batch),
                      NEW op \in Translate(log'[i].op), NEW e \in Writes(op) \cap Entities
               PROVE  Queued(e)'
    BY DEF StampQueued, IsFirst
  <1>0. mirror \in [batch : SUBSET (1 .. Len(log)), queued : BOOLEAN]
    BY DEF TypeInv, TypeOK, WorkersOK
  <1>1. CASE mirror' = mirror
    <2>1. op \in Translate(log[i].op)
      BY <1>1, TableTypes, LogGrows
    <2>2. Queued(e)
      BY <1>1, <2>1 DEF LostInv, StampQueued
    <2> QED BY <2>2, QueuedGrows
  <1>2. CASE MirrorEnqueue
    <2>1. PICK j \in mirror.batch :
            /\ IsFirst(j, mirror.batch)
            /\ \/ Translate(log[j].op) = {}
               \/ \E o \in Translate(log[j].op) : queue' = Append(queue, NewRow(None, o))
            /\ mirror'.batch = mirror.batch
            /\ log' = log
      BY <1>0, <1>2 DEF MirrorEnqueue
    <2>2. i = j
      <3>1. i \in Nat /\ j \in Nat /\ i <= j /\ j <= i
        BY <1>0, <2>1 DEF IsFirst
      <3> QED BY <3>1
    <2>3. queue' = Append(queue, NewRow(None, op))
      BY <2>1, <2>2, TranslateWrites
    <2>4. queue \in Seq(QueueRow) /\ op \in Op
      <3>1. log[i].op \in Op
        BY <2>2, TableTypes DEF LogRow
      <3> QED BY <2>1, <3>1, TranslateWrites DEF TypeInv, TypeOK, TablesOK
    <2>5. Len(queue) + 1 \in DOMAIN queue' /\ queue'[Len(queue) + 1] = NewRow(None, op)
      <3>1. Len(queue') = Len(queue) + 1 /\ queue'[Len(queue) + 1] = NewRow(None, op)
        BY <2>3, <2>4, NewRowType, AppendProperties
      <3> QED BY <3>1, QueueGrows, LenProperties, TableTypes
    <2>6. NewRow(None, op).status # "DONE" /\ NewRow(None, op).op = op
      BY DEF NewRow
    <2> QED BY <2>5, <2>6 DEF Queued, DueInQueue
  <1>3. ASSUME NEW p \in Clients, Start(p) \/ Handler(p) \/ EnqueueLost(p) \/ ClientAbort(p)
        PROVE  mirror' = mirror
    BY <1>3 DEF Start, StartEntity, StartRelationship, StartClaim, StartExtract, Call,
        Handler, EntityRow, ClaimRow, EvidenceRow, AboutRow, Endpoints, RelationshipRow,
        Rejected, Insert, GraphWriteOk, GraphWriteErr, Enqueue, GraphWritten, EntityLog,
        RelationshipLog, ClaimLog, ExtractAudit, AppendLog, ExtractCommit, EnqueueLost,
        ClientAbort, workers
  <1>4. ASSUME Replay \/ Reconcile \/ NeoDown \/ NeoUp \/ AdminDelete \/ UNCHANGED vars
        PROVE  mirror' = mirror
    BY <1>4 DEF Replay, ReplayTick, ReplayTry, ReplayMark, Reconcile, ReconcileStart,
        ReconcileReadPg, ReconcileReadNeo, ReconcileSweep, ReconcileFill, ReconcileNext,
        ReconcileAbort, NeoDown, NeoUp, AdminDelete, workers, vars
  <1>5. ASSUME MirrorTick \/ MirrorStamp PROVE FALSE
    BY <1>5 DEF MirrorTick, MirrorStamp, MirrorIdle
  <1>6. ASSUME Restart \/ WorkerAbort PROVE mirror' = mirror
    BY <1>6 DEF Restart, WorkerAbort, MirrorIdle
  <1> QED BY <1>1, <1>2, <1>3, <1>4, <1>5, <1>6 DEF Next, Mirror

\* An entity that becomes a row is owed by its call, or was handed over before.
LEMMA NewEntityKept ==
    ASSUME TypeInv, [Next]_vars, DoneInv, LostInv, NEW e \in Entities, e \in pg', e \notin pg,
           NEW p \in Clients, RowStep(p)
    PROVE  Handed(e)' \/ OwedBySome(e)'
  <1>0. /\ client \in [Clients -> ClientState] /\ client[p] \in ClientState
        /\ ClientShape(client[p])
        /\ \A x, y \in Node : e # <<x, y>>
    BY SortsAssumption DEF TypeInv, TypeOK, Node
  <1>1. CASE EntityRow(p)
    <2>1. PICK f \in client[p].ents :
            Insert(p, f, [client[p] EXCEPT !.pc = "entity_graph", !.ent = f,
                                           !.ents = @ \ {f}])
      BY <1>1 DEF EntityRow
    <2>2. e = f
      BY <2>1 DEF Insert
    <2>3. client'[p].pc = "entity_graph" /\ client'[p].ent = f
      BY <1>0, <2>1 DEF Insert, ClientState
    <2> QED BY <2>2, <2>3 DEF Owed, OwedBySome
  <1>2. CASE ExtractCommit(p)
    <2>1. client[p].claim \in Claims /\ client[p].ents \subseteq Entities
      BY <1>0, <1>2 DEF ExtractCommit, ClientShape, ClientState
    <2>2. e \in client[p].ents
      BY <1>0, <1>2, <2>1, SortsAssumption DEF ExtractCommit, Node
    <2>3. Handed(e)
      BY <1>2, <2>2 DEF LostInv, ExtractHanded, ExtractCommit
    <2> QED BY <2>3, HandedGrows
  <1>3. CASE ClaimRow(p)
    BY <1>0, <1>3, SortsAssumption DEF ClaimRow, Insert, ClientShape
  <1>4. CASE EvidenceRow(p) \/ AboutRow(p) \/ RelationshipRow(p)
    <2>1. PICK x \in Node, y \in Node : pg' = pg \cup {<<x, y>>}
      <3>1. CASE EvidenceRow(p)
        BY <1>0, <3>1 DEF EvidenceRow, Insert, ClientShape, ClientState, Node
      <3>2. CASE AboutRow(p)
        BY <1>0, <3>2 DEF AboutRow, Insert, ClientShape, Node
      <3>3. CASE RelationshipRow(p)
        BY <1>0, <3>3 DEF RelationshipRow, Insert, ClientShape, Node
      <3> QED BY <1>4, <3>1, <3>2, <3>3
    <2> QED BY <1>0, <2>1
  <1> QED BY <1>1, <1>2, <1>3, <1>4 DEF RowStep

LEMMA EntityKeptStep ==
    ASSUME TypeInv, [Next]_vars, DoneInv, LostInv
    PROVE  EntityKept'
  <1> SUFFICES ASSUME NEW e \in Entities, e \in pg'
               PROVE  Handed(e)' \/ OwedBySome(e)' \/ e \in cut'
    BY DEF EntityKept
  <1>1. CASE e \in pg
    <2>1. CASE Handed(e)
      BY <2>1, HandedGrows
    <2>2. CASE OwedBySome(e)
      <3>1. PICK p \in Clients : e \in Owed(client[p])
        BY <2>2 DEF OwedBySome
      <3>2. ClientAbort(p) \/ Restart => e \in cut'
        BY <3>1 DEF ClientAbort, Restart
      <3> QED BY <3>1, <3>2, OwedStep DEF OwedBySome, Handed
    <2>3. CASE e \in cut
      BY <2>3, CutGrows
    <2> QED BY <1>1, <2>1, <2>2, <2>3 DEF LostInv, EntityKept
  <1>2. ASSUME e \notin pg, NEW p \in Clients, RowStep(p)
        PROVE  Handed(e)' \/ OwedBySome(e)'
    BY <1>2, NewEntityKept
  <1>3. e \in pg \/ \E p \in Clients : RowStep(p)
    BY RowsGrow
  <1> QED BY <1>1, <1>2, <1>3

LEMMA LostAlways == Spec => []LostInv
  <1>1. Init => LostInv
    <2> SUFFICES ASSUME Init PROVE LostInv
      OBVIOUS
    <2>1. ExtractHanded /\ StampQueued
      BY DEF Init, ExtractHanded, StampQueued, Idle, MirrorIdle
    <2>2. EntityKept
      BY SortsAssumption DEF Init, EntityKept
    <2> QED BY <2>1, <2>2 DEF LostInv
  <1>2. TypeInv /\ [Next]_vars /\ DoneInv /\ LostInv => LostInv'
    BY ExtractHandedStep, StampQueuedStep, EntityKeptStep DEF LostInv
  <1> QED BY <1>1, <1>2, TypeInvAlways, DoneAlways, PTL DEF Spec

\* However handlers, workers, outages, restarts and deletions interleave, an
\* entity of PostgreSQL is in Neo4j, or in the change_log, the queue or a call
\* that will write it there, unless its handler stopped between its row and its
\* change_log row, or the reconciler deleted it.
THEOREM NoEntityLost == Spec => []NoLostEntity
  <1>1. LostInv => NoLostEntity
    BY DEF LostInv, EntityKept, Handed, DueInLog, Queued, DueInQueue, Written, OwedBySome, NoLostEntity, Carried
  <1> QED BY <1>1, LostAlways, PTL

-----------------------------------------------------------------------------
\* The mirror implements CanonicalMirror.

LEMMA CarriedParts ==
    \A e : Carried(e) <=> OwedBySome(e) \/ DueInLog(e) \/ DueInQueue(e)
  BY DEF Carried, OwedBySome, DueInLog, DueInQueue

\* An entity that a call owes is the one at hand, between its row and its log.
LEMMA OwedEntity ==
    ASSUME NEW c \in ClientState, ClientShape(c), NEW e \in Entities
    PROVE  e \in Owed(c) <=> c.pc \in {"entity_graph", "entity_log"} /\ c.ent = e
  <1>1. CASE c.pc = "relationship_graph"
    <2>1. c.ent \in Node /\ c.other \in Node
      BY <1>1 DEF ClientShape, Node
    <2>2. e # <<c.ent, c.other>>
      BY <2>1, SortsAssumption DEF Node
    <2> QED BY <1>1, <2>2 DEF Owed
  <1>2. CASE c.pc \in {"entity_graph", "entity_log"}
    BY <1>2 DEF Owed
  <1>3. CASE c.pc \notin {"entity_graph", "entity_log", "relationship_graph"}
    BY <1>3 DEF Owed
  <1> QED BY <1>1, <1>2, <1>3

\* What is carried is known.
LEMMA CarriedKnown ==
    ASSUME TypeInv', BackedInv', NEW e \in Entities, Carried(e)'
    PROVE  e \in Backed'
  <1>1. CASE OwedBySome(e)'
    <2>1. PICK p \in Clients : e \in Owed(client'[p])
      BY <1>1 DEF OwedBySome
    <2>2. client'[p] \in ClientState /\ ClientShape(client'[p]) /\ HeldIn(client'[p], Backed')
      BY DEF TypeInv, TypeOK, BackedInv, ClientBacked
    <2> QED BY <2>1, <2>2, OwedEntity DEF HeldIn
  <1>2. CASE DueInLog(e)'
    <2>1. PICK i \in DOMAIN log' : \E op \in Translate(log'[i].op) : e \in Writes(op)
      BY <1>2 DEF DueInLog
    <2>2. e \in Writes(log'[i].op)
      BY <2>1, TranslateWrites
    <2> QED BY <2>1, <2>2 DEF BackedInv, LogBacked
  <1>3. CASE DueInQueue(e)'
    BY <1>3 DEF DueInQueue, BackedInv, QueueBacked
  <1> QED BY <1>1, <1>2, <1>3, CarriedParts DEF Carried, OwedBySome, DueInLog, DueInQueue

LEMMA BackedFacts ==
    ASSUME TypeInv'
    PROVE  Backed' \subseteq Fact
  <1>1. \A i \in DOMAIN log' : log'[i].op \in Op
    <2>1. log' \in Seq(LogRow)
      BY DEF TypeInv, TypeOK, TablesOK
    <2>2. \A i \in DOMAIN log' : log'[i] \in LogRow
      BY <2>1, LenProperties, ElementOfSeq
    <2> QED BY <2>2 DEF LogRow
  <1>2. Announced' \subseteq Fact
    <2>1. \A i \in DOMAIN log' : Writes(log'[i].op) \subseteq Fact
      BY <1>1, WritesType
    <2> QED BY <2>1 DEF Announced
  <1> QED BY <1>2 DEF Backed, TypeInv, TypeOK

\* A call takes an entity on only with its row.
LEMMA OwedBack ==
    ASSUME TypeInv, [Next]_vars, NEW e \in Entities, NEW p \in Clients, e \in Owed(client'[p])
    PROVE  e \in Owed(client[p]) \/ (EntityRow(p) /\ e \in pg')
  <1>0. /\ client \in [Clients -> ClientState] /\ client[p] \in ClientState
        /\ ClientShape(client[p])
        /\ client' \in [Clients -> ClientState] /\ client'[p] \in ClientState
        /\ ClientShape(client'[p])
    BY ClientsTyped DEF TypeInv, TypeOK
  <1>1. client'[p].pc \in {"entity_graph", "entity_log"} /\ client'[p].ent = e
    BY <1>0, OwedEntity
  <1>2. CASE client'[p] = client[p]
    BY <1>2
  <1>3. CASE EntityRow(p)
    <2>1. PICK f \in client[p].ents :
            Insert(p, f, [client[p] EXCEPT !.pc = "entity_graph", !.ent = f,
                                           !.ents = @ \ {f}])
      BY <1>3 DEF EntityRow
    <2>2. client'[p].ent = f
      BY <1>0, <2>1 DEF Insert, ClientState
    <2> QED BY <1>1, <1>3, <2>1, <2>2 DEF Insert
  <1>4. CASE GraphWriteOk(p) \/ Enqueue(p) \/ EnqueueLost(p)
    <2>1. client[p].pc \in GraphPc /\ client' = [client EXCEPT ![p] =
            [client[p] EXCEPT !.pc = AfterGraph(client[p]), !.failed = FALSE]]
      BY <1>4 DEF GraphWriteOk, Enqueue, EnqueueLost, GraphWritten
    <2>2. client'[p].pc = AfterGraph(client[p]) /\ client'[p].ent = client[p].ent
      BY <1>0, <2>1 DEF ClientState
    <2>3. client[p].pc = "entity_graph"
      BY <1>1, <2>1, <2>2 DEF AfterGraph, GraphPc
    <2> QED BY <1>0, <1>1, <2>2, <2>3, OwedEntity
  <1>5. CASE GraphWriteErr(p)
    <2>1. client' = [client EXCEPT ![p] = [client[p] EXCEPT !.failed = TRUE]]
      BY <1>5 DEF GraphWriteErr
    <2>2. client'[p].pc = client[p].pc /\ client'[p].ent = client[p].ent
      BY <1>0, <2>1 DEF ClientState
    <2> QED BY <1>0, <1>1, <2>2, OwedEntity
  <1>6. CASE \/ Rejected(p) \/ RelationshipLog(p) \/ ClaimLog(p) \/ ExtractCommit(p)
             \/ ClientAbort(p) \/ Restart
    <2>1. client'[p] = Idle
      BY <1>0, <1>6 DEF Rejected, RelationshipLog, ClaimLog, ExtractCommit, ClientAbort,
          Restart
    <2> QED BY <1>1, <2>1 DEF Idle
  <1>7. CASE Start(p)
    <2>1. StartEntity(p) => client'[p].pc = "entity_row"
      BY <1>0 DEF StartEntity, Call, Idle
    <2>2. StartRelationship(p) => client'[p].pc = "endpoints"
      BY <1>0 DEF StartRelationship, Call, Idle
    <2>3. StartClaim(p) => client'[p].pc = "claim_row"
      BY <1>0 DEF StartClaim, Call, Idle
    <2>4. StartExtract(p) => client'[p].pc = "extract_audit"
      BY <1>0 DEF StartExtract, Call, Idle
    <2> QED BY <1>1, <1>7, <2>1, <2>2, <2>3, <2>4 DEF Start
  <1>8. ASSUME \/ ClaimRow(p) \/ AboutRow(p) \/ Endpoints(p) \/ RelationshipRow(p)
               \/ EvidenceRow(p) \/ EntityLog(p) \/ ExtractAudit(p)
        PROVE  client'[p].pc \notin {"entity_graph", "entity_log"}
    <2>1. CASE ClaimRow(p)
      BY <1>0, <2>1 DEF ClaimRow, Insert, ClientState
    <2>2. CASE AboutRow(p)
      BY <1>0, <2>2 DEF AboutRow, Insert, ClientState
    <2>3. CASE Endpoints(p)
      BY <1>0, <2>3 DEF Endpoints, ClientState
    <2>4. CASE RelationshipRow(p)
      BY <1>0, <2>4 DEF RelationshipRow, Insert, ClientState
    <2>5. CASE EvidenceRow(p)
      BY <1>0, <2>5 DEF EvidenceRow, Insert, ClientState
    <2>6. CASE EntityLog(p)
      BY <1>0, <2>6 DEF EntityLog, Idle, ClientState
    <2>7. CASE ExtractAudit(p)
      BY <1>0, <2>7 DEF ExtractAudit, ClientState
    <2> QED BY <1>8, <2>1, <2>2, <2>3, <2>4, <2>5, <2>6, <2>7
  <1> QED BY <1>1, <1>2, <1>3, <1>4, <1>5, <1>6, <1>7, <1>8, OwnStep DEF Handler

\* Nobody else takes an entity on while the tables get no row.
LEMMA CarriedBack ==
    ASSUME TypeInv, [Next]_vars, DOMAIN log' \subseteq DOMAIN log,
           DOMAIN queue' \subseteq DOMAIN queue, NEW e \in Entities, Carried(e)'
    PROVE  Carried(e) \/ OwedBySome(e)'
  <1>1. CASE DueInLog(e)'
    <2>1. PICK i \in DOMAIN log' :
            ~log'[i].mirrored /\ \E op \in Translate(log'[i].op) : e \in Writes(op)
      BY <1>1 DEF DueInLog
    <2>2. log'[i].op = log[i].op /\ ~log[i].mirrored
      BY <2>1, LogGrows
    <2> QED BY <2>1, <2>2, CarriedParts DEF DueInLog
  <1>2. CASE DueInQueue(e)'
    <2>1. PICK i \in DOMAIN queue' : queue'[i].status # "DONE" /\ e \in Writes(queue'[i].op)
      BY <1>2 DEF DueInQueue
    <2>2. queue'[i].op = queue[i].op
      BY <2>1, QueueGrows
    <2>3. queue[i].status # "DONE"
      BY <2>1, SettledStep
    <2> QED BY <2>1, <2>2, <2>3, CarriedParts DEF DueInQueue
  <1> QED BY <1>1, <1>2, CarriedParts DEF Carried, OwedBySome, DueInLog, DueInQueue

\* What is carried stays carried, but for the op that is marked, the change_log
\* row that is stamped, and the call that stops.
LEMMA CarriedStays ==
    ASSUME TypeInv, [Next]_vars, DoneInv, LostInv, NEW e \in Entities, Carried(e)
    PROVE  \/ Carried(e)'
           \/ (ReplayMark \/ MirrorStamp) /\ e \in Written'
           \/ (\E p \in Clients : ClientAbort(p)) \/ Restart
  <1>1. CASE OwedBySome(e)
    <2>1. PICK p \in Clients : e \in Owed(client[p])
      BY <1>1 DEF OwedBySome
    <2> QED BY <2>1, OwedStep DEF Carried, DueInLog
  <1>2. CASE DueInLog(e)
    <2>1. PICK i \in DOMAIN log :
            ~log[i].mirrored /\ \E op \in Translate(log[i].op) : e \in Writes(op)
      BY <1>2 DEF DueInLog
    <2>2. i \in DOMAIN log' /\ log'[i].op = log[i].op
      BY <2>1, LogGrows
    <2>3. CASE ~log'[i].mirrored
      BY <2>1, <2>2, <2>3 DEF Carried
    <2>4. CASE log'[i].mirrored
      <3>1. mirror.queued /\ i \in mirror.batch /\ IsFirst(i, mirror.batch)
        BY <2>1, <2>4, StampStep
      <3>2. Queued(e)
        BY <2>1, <3>1 DEF LostInv, StampQueued
      <3>3. Queued(e)'
        BY <3>2, QueuedGrows
      <3>4. MirrorStamp
        <4>1. log \in Seq(LogRow)
          BY DEF TypeInv, TypeOK, TablesOK
        <4>2. CASE LogAppend
          <5>1. PICK row \in LogRow : log' = Append(log, row)
            BY <4>2 DEF LogAppend, LogRow
          <5> QED BY <2>1, <2>4, <4>1, <5>1, AppendProperties, TableTypes
        <4> QED BY <2>1, <2>4, <4>2, LogStep
      <3> QED BY <3>3, <3>4 DEF Queued, DueInQueue, Carried
    <2> QED BY <2>3, <2>4
  <1>3. CASE DueInQueue(e)
    <2>1. Queued(e)'
      BY <1>3, QueuedGrows DEF Queued
    <2>2. PICK i \in DOMAIN queue : queue[i].status # "DONE" /\ e \in Writes(queue[i].op)
      BY <1>3 DEF DueInQueue
    <2>3. CASE queue'[i] = queue[i]
      <3>1. i \in DOMAIN queue'
        BY <2>2, QueueGrows
      <3> QED BY <2>2, <2>3, <3>1 DEF Carried
    <2>4. CASE ReplayMark
      BY <2>1, <2>4 DEF Queued, DueInQueue, Carried
    <2> QED BY <2>2, <2>3, <2>4, QueueGrows
  <1> QED BY <1>1, <1>2, <1>3, CarriedParts
\* The steps after which what is carried may be struck off.
Strikes == ReplayMark \/ MirrorStamp \/ (\E p \in Clients : ClientAbort(p)) \/ Restart

LEMMA AnnouncedSame == log' = log => Announced' = Announced
  BY DEF Announced

LEMMA CarriedUp ==
    ASSUME TypeInv, [Next]_vars, DoneInv, LostInv, ~Strikes
    PROVE  CarriedEntities \subseteq CarriedEntities'
  BY CarriedStays DEF CarriedEntities, Strikes

LEMMA CarriedDown ==
    ASSUME TypeInv, [Next]_vars, DOMAIN log' \subseteq DOMAIN log,
           DOMAIN queue' \subseteq DOMAIN queue, \A p \in Clients : ~EntityRow(p)
    PROVE  CarriedEntities' \subseteq CarriedEntities
  <1> SUFFICES ASSUME NEW e \in Entities, Carried(e)'
               PROVE  Carried(e)
    BY DEF CarriedEntities
  <1>1. CASE OwedBySome(e)'
    <2>1. PICK p \in Clients : e \in Owed(client'[p])
      BY <1>1 DEF OwedBySome
    <2>2. e \in Owed(client[p])
      BY <2>1, OwedBack
    <2> QED BY <2>2 DEF Carried
  <1> QED BY <1>1, CarriedBack

LEMMA CommitStep ==
    ASSUME TypeInv, DoneInv, LostInv, [Next]_vars, ~Strikes, NEW p \in Clients, RowStep(p)
    PROVE  Promised!Commit
  <1>1. /\ pg \subseteq pg'
        /\ UNCHANGED <<neo, log, queue, gone, cut, swept>>
    BY DEF RowStep, EntityRow, ClaimRow, EvidenceRow, AboutRow, RelationshipRow, Insert,
        ExtractCommit, tables, history
  <1>2. pg' \subseteq Fact
    BY StoresTyped
  <1>3. Backed' = Backed \cup pg'
    BY <1>1, AnnouncedSame DEF Backed
  <1>4. CarriedEntities \subseteq CarriedEntities'
    BY CarriedUp
  <1>5. CarriedEntities' \subseteq CarriedEntities \cup (Entities \cap pg')
    <2> SUFFICES ASSUME NEW e \in Entities, Carried(e)'
                 PROVE  Carried(e) \/ e \in pg'
      BY DEF CarriedEntities
    <2>1. CASE OwedBySome(e)'
      <3>1. PICK q \in Clients : e \in Owed(client'[q])
        BY <2>1 DEF OwedBySome
      <3>2. e \in Owed(client[q]) \/ e \in pg'
        BY <3>1, OwedBack
      <3> QED BY <3>2 DEF Carried
    <2> QED BY <1>1, <2>1, CarriedBack
  <1>6. Entities \cap (pg' \ pg) \subseteq CarriedEntities' \cup neo \cup swept
    <2> SUFFICES ASSUME NEW e \in Entities, e \in pg', e \notin pg
                 PROVE  Carried(e)' \/ e \in neo \cup swept
      BY DEF CarriedEntities
    <2>1. Handed(e)' \/ OwedBySome(e)'
      BY NewEntityKept
    <2> QED BY <1>1, <2>1 DEF Handed, Queued, Written, DueInQueue, DueInLog, OwedBySome,
            Carried
  <1> QED BY <1>1, <1>2, <1>3, <1>4, <1>5, <1>6 DEF Promised!Commit

\* The inline writes and the queued ops add what is known.
LEMMA DeliverStep ==
    ASSUME TypeInv, BackedInv, DoneInv, LostInv, [Next]_vars, ~Strikes,
           \A p \in Clients : ~RowStep(p),
           ReplayTry \/ \E p \in Clients : GraphWriteOk(p) \/ GraphWriteErr(p)
    PROVE  Promised!Deliver
  <1>1. /\ neo \subseteq neo'
        /\ UNCHANGED <<pg, log, queue, gone, cut, swept>>
    <2>1. CASE ReplayTry
      BY <2>1, TryAdds DEF ReplayTry, tables, history
    <2>2. ASSUME NEW p \in Clients, GraphWriteOk(p) \/ GraphWriteErr(p)
          PROVE  /\ neo \subseteq neo'
                 /\ UNCHANGED <<pg, log, queue, gone, cut, swept>>
      BY <2>2, TryAdds DEF GraphWriteOk, GraphWriteErr, GraphWritten, tables, history
    <2> QED BY <2>1, <2>2
  <1>2. neo' \subseteq neo \cup Backed
    BY MirrorStep
  <1>3. Backed' = Backed
    BY <1>1, AnnouncedSame DEF Backed
  <1>4. CarriedEntities' = CarriedEntities
    BY <1>1, CarriedUp, CarriedDown DEF RowStep
  <1> QED BY <1>1, <1>2, <1>3, <1>4 DEF Promised!Deliver

\* A sweep takes copies away and records them; a deletion takes rows away.
LEMMA SweepStep ==
    ASSUME TypeInv, DoneInv, LostInv, [Next]_vars, ~Strikes, \A p \in Clients : ~RowStep(p),
           ReconcileSweep
    PROVE  Promised!Sweep
  <1>1. /\ neo' \subseteq neo /\ swept' = swept \cup (neo \ neo')
        /\ UNCHANGED <<pg, log, queue, gone, cut>>
    <2>1. PICK f \in rec.todo : /\ neo' = neo \ Detach(f)
                               /\ swept' = swept \cup (neo \cap Detach(f))
      BY DEF ReconcileSweep
    <2>2. neo \ neo' = neo \cap Detach(f)
      BY <2>1
    <2> QED BY <2>1, <2>2 DEF ReconcileSweep, tables
  <1>2. Backed' = Backed
    BY <1>1, AnnouncedSame DEF Backed
  <1>3. CarriedEntities' = CarriedEntities
    BY <1>1, CarriedUp, CarriedDown DEF RowStep
  <1> QED BY <1>1, <1>2, <1>3 DEF Promised!Sweep

LEMMA DeleteStep ==
    ASSUME TypeInv, DoneInv, LostInv, [Next]_vars, ~Strikes, \A p \in Clients : ~RowStep(p),
           AdminDelete
    PROVE  Promised!Delete
  <1>1. /\ pg' \subseteq pg /\ pg' \cup gone' = pg \cup gone
        /\ UNCHANGED <<neo, log, queue, cut, swept>>
    BY DEF AdminDelete, tables
  <1>2. Backed' = Backed
    BY <1>1, AnnouncedSame DEF Backed
  <1>3. CarriedEntities' = CarriedEntities
    BY <1>1, CarriedUp, CarriedDown DEF RowStep
  <1> QED BY <1>1, <1>2, <1>3 DEF Promised!Delete

\* A call stops: what it owed is on record as lost, and nothing else is.
LEMMA LoseStep ==
    ASSUME TypeInv, DoneInv, LostInv, [Next]_vars,
           Restart \/ \E p \in Clients : ClientAbort(p)
    PROVE  Promised!Lose
  <1>0. client \in [Clients -> ClientState]
    BY DEF TypeInv, TypeOK
  <1>1. UNCHANGED <<pg, neo, log, queue, gone, swept>>
    BY DEF Restart, ClientAbort, stores, tables
  <1>2. /\ cut \subseteq cut'
        /\ cut' \subseteq cut \cup UNION {Owed(client[q]) : q \in Clients}
        /\ \A e, q : q \in Clients /\ e \in Owed(client[q])
                => e \in Owed(client'[q]) \/ e \in cut'
        /\ \A q \in Clients : Owed(client'[q]) \subseteq Owed(client[q])
    <2>0. Owed(Idle) = {}
      BY DEF Owed, Idle
    <2>1. CASE Restart
      BY <1>0, <2>0, <2>1 DEF Restart
    <2>2. ASSUME NEW p \in Clients, ClientAbort(p)
          PROVE  /\ cut' = cut \cup Owed(client[p])
                 /\ client'[p] = Idle
                 /\ \A q \in Clients \ {p} : client'[q] = client[q]
      BY <1>0, <2>2 DEF ClientAbort
    <2> QED BY <2>0, <2>1, <2>2
  <1>3. Backed' = Backed
    BY <1>1, AnnouncedSame DEF Backed
  <1>4. CarriedEntities' \subseteq CarriedEntities
    <2> SUFFICES ASSUME NEW e \in Entities, Carried(e)' PROVE Carried(e)
      BY DEF CarriedEntities
    <2>1. OwedBySome(e)' => OwedBySome(e)
      BY <1>2 DEF OwedBySome
    <2> QED BY <1>1, <2>1, CarriedBack, CarriedParts
  <1>5. CarriedEntities \ CarriedEntities' \subseteq cut'
    <2> SUFFICES ASSUME NEW e \in Entities, Carried(e), e \notin cut' PROVE Carried(e)'
      BY DEF CarriedEntities
    <2>1. OwedBySome(e) => OwedBySome(e)'
      BY <1>2 DEF OwedBySome
    <2> QED BY <1>1, <2>1 DEF Carried, OwedBySome
  <1>6. Entities \cap UNION {Owed(client[q]) : q \in Clients} \subseteq CarriedEntities
    BY DEF CarriedEntities, Carried
  <1>7. CarriedEntities \subseteq Entities
    BY DEF CarriedEntities
  <1> QED BY <1>1, <1>2, <1>3, <1>4, <1>5, <1>6, <1>7 DEF Promised!Lose

\* A row is marked or stamped: what is struck off was written.
LEMMA SettleStep ==
    ASSUME TypeInv, DoneInv, LostInv, [Next]_vars, ReplayMark \/ MirrorStamp,
           ~Restart, \A p \in Clients : ~ClientAbort(p)
    PROVE  Promised!Settle
  <1>1. UNCHANGED <<pg, neo, client, gone, cut, swept>>
    BY DEF ReplayMark, MirrorStamp, stores, history
  <1>2. DOMAIN log' = DOMAIN log /\ DOMAIN queue' = DOMAIN queue
    <2>1. CASE ReplayMark
      <3>1. PICK i \in replay.batch : queue' = [queue EXCEPT ![i] = Marked(@, replay.outcome)]
        BY <2>1 DEF ReplayMark
      <3> QED BY <2>1, <3>1 DEF ReplayMark
    <2>2. CASE MirrorStamp
      <3>1. PICK i \in mirror.batch : log' = [log EXCEPT ![i].mirrored = TRUE]
        BY <2>2 DEF MirrorStamp
      <3> QED BY <2>2, <3>1 DEF MirrorStamp
    <2> QED BY <2>1, <2>2
  <1>3. Backed' = Backed
    <2>1. Announced' = Announced
      BY <1>2, LogGrows DEF Announced
    <2> QED BY <1>1, <2>1 DEF Backed
  <1>4. CarriedEntities' \subseteq CarriedEntities
    <2> SUFFICES ASSUME NEW e \in Entities, Carried(e)' PROVE Carried(e)
      BY DEF CarriedEntities
    <2>1. OwedBySome(e)' => OwedBySome(e)
      BY <1>1 DEF OwedBySome
    <2> QED BY <1>2, <2>1, CarriedBack, CarriedParts
  <1>5. CarriedEntities \ CarriedEntities' \subseteq neo \cup swept
    BY <1>1, CarriedStays DEF CarriedEntities, Written
  <1> QED BY <1>1, <1>3, <1>4, <1>5 DEF Promised!Settle

\* The steps that write neither store: they start or move on calls, select
\* batches, read, and append to the two tables.
Quiet ==
    \/ \E p \in Clients :
            \/ Start(p) \/ Endpoints(p) \/ Rejected(p) \/ Enqueue(p) \/ EnqueueLost(p)
            \/ EntityLog(p) \/ RelationshipLog(p) \/ ClaimLog(p) \/ ExtractAudit(p)
    \/ ReplayTick \/ MirrorTick \/ MirrorEnqueue
    \/ ReconcileStart \/ ReconcileReadPg \/ ReconcileReadNeo \/ ReconcileFill
    \/ ReconcileNext \/ ReconcileAbort
    \/ WorkerAbort \/ NeoDown \/ NeoUp \/ UNCHANGED vars

LEMMA QuietStores ==
    ASSUME TypeInv, Quiet
    PROVE  UNCHANGED <<pg, neo, gone, swept>> /\ cut' \cap Entities = cut \cap Entities
  <1>1. ASSUME NEW p \in Clients, EnqueueLost(p)
        PROVE  UNCHANGED <<pg, neo, gone, swept>> /\ cut' \cap Entities = cut \cap Entities
    <2>1. cut' = cut \/ (client[p].pc = "relationship_graph" /\ cut' = cut \cup Owed(client[p]))
      BY <1>1 DEF EnqueueLost
    <2>2. ASSUME client[p].pc = "relationship_graph"
          PROVE  Owed(client[p]) \cap Entities = {}
      <3>1. client[p] \in ClientState /\ ClientShape(client[p])
        BY DEF TypeInv, TypeOK
      <3> QED BY <2>2, <3>1, OwedEntity
    <2>3. cut' \cap Entities = cut \cap Entities
      BY <2>1, <2>2
    <2> QED BY <1>1, <2>3 DEF EnqueueLost, GraphWritten, stores
  <1>2. ASSUME NEW p \in Clients,
               \/ Start(p) \/ Endpoints(p) \/ Rejected(p) \/ Enqueue(p)
               \/ EntityLog(p) \/ RelationshipLog(p) \/ ClaimLog(p) \/ ExtractAudit(p)
        PROVE  UNCHANGED <<pg, neo, gone, swept, cut>>
    BY <1>2 DEF Start, StartEntity, StartRelationship, StartClaim, StartExtract, Call,
        Endpoints, Rejected, Enqueue, GraphWritten, EntityLog, RelationshipLog, ClaimLog,
        ExtractAudit, AppendLog, stores, history
  <1>3. ASSUME \/ ReplayTick \/ MirrorTick \/ MirrorEnqueue \/ ReconcileStart
               \/ ReconcileReadPg \/ ReconcileReadNeo \/ ReconcileFill \/ ReconcileNext
               \/ ReconcileAbort \/ WorkerAbort \/ NeoDown \/ NeoUp \/ UNCHANGED vars
        PROVE  UNCHANGED <<pg, neo, gone, swept, cut>>
    BY <1>3 DEF ReplayTick, MirrorTick, MirrorEnqueue, ReconcileStart, ReconcileReadPg,
        ReconcileReadNeo, ReconcileFill, ReconcileNext, ReconcileAbort, WorkerAbort,
        NeoDown, NeoUp, vars, stores, history
  <1> QED BY <1>1, <1>2, <1>3 DEF Quiet

\* An entity that is announced before its row is due from the change_log.
LEMMA AnnouncedIsDue ==
    ASSUME TypeInv, [Next]_vars, NEW e \in Entities, e \in Announced', e \notin Announced
    PROVE  DueInLog(e)'
  <1>0. log \in Seq(LogRow)
    BY DEF TypeInv, TypeOK, TablesOK
  <1>1. PICK i \in DOMAIN log' : log'[i].early /\ e \in Writes(log'[i].op)
    BY DEF Announced
  <1>2. i \notin DOMAIN log
    BY <1>1, LogGrows DEF Announced
  <1>3. LogAppend
    <2>1. CASE MirrorStamp
      <3>1. PICK j \in mirror.batch : log' = [log EXCEPT ![j].mirrored = TRUE]
        BY <2>1 DEF MirrorStamp
      <3> QED BY <1>1, <1>2, <3>1
    <2> QED BY <1>1, <1>2, <2>1, LogStep
  <1>4. PICK row \in LogRow : log' = Append(log, row) /\ row.mirrored = FALSE
    <2>1. PICK op \in Op, early \in BOOLEAN :
            log' = Append(log, [op |-> op, early |-> early, mirrored |-> FALSE])
      BY <1>3 DEF LogAppend
    <2>2. [op |-> op, early |-> early, mirrored |-> FALSE] \in LogRow
      BY DEF LogRow
    <2> QED BY <2>1, <2>2
  <1>5. log'[i] = row
    <2>1. Len(log') = Len(log) + 1 /\ log'[Len(log) + 1] = row
      BY <1>0, <1>4, AppendProperties
    <2>2. DOMAIN log' = 1 .. Len(log) + 1
      BY <2>1, LogGrows, LenProperties
    <2>3. i = Len(log) + 1
      BY <1>1, <1>2, <2>2, TableTypes
    <2> QED BY <2>1, <2>3
  <1>6. row.op.type # "create_relationship"
    <2>1. row.op.src \in Node /\ row.op.dst \subseteq Node
      BY <1>4 DEF LogRow, Op
    <2>2. \A x, y \in Node : e # <<x, y>>
      BY SortsAssumption DEF Node
    <2> QED BY <1>1, <1>5, <2>1, <2>2 DEF Writes
  <1>7. row.op \in Translate(row.op)
    BY <1>6 DEF Translate
  <1> QED BY <1>1, <1>4, <1>5, <1>7 DEF DueInLog

LEMMA TakeOnStep ==
    ASSUME TypeInv, DoneInv, LostInv, TypeInv', BackedInv', [Next]_vars, ~Strikes, Quiet
    PROVE  Promised!TakeOn
  <1>1. UNCHANGED <<pg, neo, gone, swept>> /\ cut' \cap Entities = cut \cap Entities
    BY QuietStores
  <1>2. Backed \subseteq Backed' /\ Backed' \subseteq Fact
    BY BackedGrows, BackedFacts
  <1>3. CarriedEntities \subseteq CarriedEntities'
    BY CarriedUp
  <1>4. CarriedEntities' \subseteq Entities \cap Backed'
    BY CarriedKnown DEF CarriedEntities
  <1>5. Entities \cap (Backed' \ Backed) \subseteq CarriedEntities'
    <2> SUFFICES ASSUME NEW e \in Entities, e \in Backed', e \notin Backed
                 PROVE  Carried(e)'
      BY DEF CarriedEntities
    <2>1. e \in Announced' /\ e \notin Announced
      BY <1>1 DEF Backed
    <2> QED BY <2>1, AnnouncedIsDue DEF DueInLog, Carried
  <1> QED BY <1>1, <1>2, <1>3, <1>4, <1>5 DEF Promised!TakeOn

\* Every step of the three paths is one that the promise allows.
LEMMA PromiseStep ==
    ASSUME TypeInv, BackedInv, DoneInv, LostInv, [Next]_vars
    PROVE  Promised!Next
  <1>0. TypeInv' /\ BackedInv'
    BY TypeInvStep, BackedStep
  <1>1. CASE Restart \/ \E p \in Clients : ClientAbort(p)
    BY <1>1, LoseStep DEF Promised!Next
  <1>2. CASE (ReplayMark \/ MirrorStamp) /\ ~Restart /\ \A p \in Clients : ~ClientAbort(p)
    BY <1>2, SettleStep DEF Promised!Next
  <1>3. CASE ~Strikes /\ \E p \in Clients : RowStep(p)
    BY <1>3, CommitStep DEF Promised!Next
  <1>4. CASE ~Strikes /\ \A p \in Clients : ~RowStep(p)
    <2>1. CASE ReplayTry \/ \E p \in Clients : GraphWriteOk(p) \/ GraphWriteErr(p)
      BY <1>4, <2>1, DeliverStep DEF Promised!Next
    <2>2. CASE ReconcileSweep
      BY <1>4, <2>2, SweepStep DEF Promised!Next
    <2>3. CASE AdminDelete
      BY <1>4, <2>3, DeleteStep DEF Promised!Next
    <2>4. CASE Quiet
      BY <1>0, <1>4, <2>4, TakeOnStep DEF Promised!Next
    <2> QED BY <1>4, <2>1, <2>2, <2>3, <2>4
            DEF Next, Handler, Replay, Mirror, Reconcile, RowStep, Strikes, Quiet
  <1> QED BY <1>1, <1>2, <1>3, <1>4 DEF Strikes

\* The write plane implements CanonicalMirror: whatever interleaving of handlers,
\* workers, reconciler, outages, restarts and deletions, every step is one of the
\* promise. In particular an entity is owed from its row on, deleted or not, and
\* is struck off only when it is in Neo4j, was swept, or its handler stopped.
THEOREM MirrorIsRefined == Spec => MirrorRefines
  <1>1. Init => Promised!Init
    <2> SUFFICES ASSUME Init PROVE Promised!Init
      OBVIOUS
    <2>1. DOMAIN queue = {} /\ DOMAIN log = {}
      BY EmptySeq, LenProperties DEF Init
    <2>2. Announced = {}
      BY <2>1 DEF Announced
    <2>3. Backed = pg
      BY <2>2 DEF Init, Backed
    <2>4. \A p \in Clients : Owed(client[p]) = {}
      BY DEF Init, Idle, Owed
    <2>5. CarriedEntities = {}
      BY <2>1, <2>4 DEF CarriedEntities, Carried
    <2>6. Docs \subseteq Fact \ Entities
      BY SortsAssumption DEF Fact, Node
    <2> QED BY <2>3, <2>5, <2>6 DEF Init, Promised!Init
  <1>2. /\ TypeInv /\ BackedInv /\ DoneInv /\ LostInv
        /\ [Next]_vars
        => [Promised!Next]_(Promised!mirrorVars)
    BY PromiseStep
  <1> QED BY <1>1, <1>2, TypeInvAlways, BackedAlways, DoneAlways, LostAlways, PTL
          DEF Spec, MirrorRefines, Promised!Spec

=============================================================================
