---------------------------- MODULE GraphMirror ----------------------------
(***************************************************************************)
(* The graph write plane of hub-core (graphw.rs, graph_v2/extract.rs).     *)
(* PostgreSQL is canonical, Neo4j is its mirror, and three paths feed the  *)
(* mirror:                                                                 *)
(*                                                                         *)
(*   - graph_write: the handler that wrote the row also writes Neo4j, and  *)
(*     on an error puts the op in graph_sync_queue;                        *)
(*   - the change_log mirror: every 15 s the rows of graph_change_log that *)
(*     are not stamped yet are translated to ops and queued;               *)
(*   - the reconciler: it compares the two stores, deletes what only Neo4j *)
(*     holds, and queues ops for some of what only PostgreSQL holds.       *)
(*                                                                         *)
(* The replay worker drains graph_sync_queue into Neo4j.  No step of any   *)
(* of them is in a transaction with a step of another: every await is a    *)
(* step of its own here.                                                   *)
(*                                                                         *)
(* Both stores are sets of facts.  A fact is a node (an entity, a claim or *)
(* a document) or an edge, a pair of nodes: entity-entity edges are        *)
(* relationships, claim-document edges are evidence, claim-entity edges    *)
(* say what a claim is about.  Attributes and texts are abstracted away.   *)
(***************************************************************************)
EXTENDS Integers, Sequences, FiniteSets

CONSTANTS
    Entities,     \* (kind, name) keys of entities
    Claims,       \* claim uuids, minted by the handlers
    Docs,         \* documents, already in PostgreSQL
    Clients,      \* agents with a call in flight
    None,         \* "no value"
    CallKinds,    \* the handlers that agents call
    Sections,     \* the sections of a reconcile pass, in the order of the code
    MaxAttempts,  \* a queued op is given up at this attempt (5 in the code)
    ReplayBatch,  \* LIMIT of the replay worker's SELECT (20 in the code)
    MirrorBatch,  \* LIMIT of the mirror worker's SELECT (50 in the code)
    MaxCalls,     \* bound: calls in a behaviour
    MaxFaults,    \* bound: crashes, failed PostgreSQL statements, hang-ups
    MaxOutages,   \* bound: how often Neo4j goes away
    MaxDeletes    \* bound: rows deleted by administrators

AllCallKinds == {"entity", "relationship", "claim", "extract"}

SweepSections == {"sweep_entity", "sweep_claim", "sweep_document", "sweep_evidence"}
FillSections == {"fill_claim", "fill_evidence", "fill_document"}

ASSUME KindsAssumption ==
    /\ CallKinds \subseteq AllCallKinds
    /\ Sections \in Seq(SweepSections \cup FillSections)
    /\ Len(Sections) > 0

ASSUME SizesAssumption ==
    /\ MaxAttempts \in Nat \ {0}
    /\ ReplayBatch \in Nat \ {0}
    /\ MirrorBatch \in Nat \ {0}
    /\ MaxCalls \in Nat
    /\ MaxFaults \in Nat
    /\ MaxOutages \in Nat
    /\ MaxDeletes \in Nat

\* The three sorts of nodes are different values, and no node is an edge.
ASSUME SortsAssumption ==
    /\ Entities \cap Claims = {}
    /\ Entities \cap Docs = {}
    /\ Claims \cap Docs = {}
    /\ None \notin Entities \cup Claims \cup Docs
    /\ \A x, y \in Entities \cup Claims \cup Docs :
            <<x, y>> \notin Entities \cup Claims \cup Docs

VARIABLES
    pg,      \* facts in PostgreSQL
    neo,     \* facts in Neo4j
    up,      \* Neo4j answers
    log,     \* graph_change_log
    queue,   \* graph_sync_queue
    client,  \* the call each agent has in flight
    minted,  \* claim uuids handed out so far
    replay,  \* the replay worker
    mirror,  \* the change_log mirror worker
    rec,     \* the reconciler
    spent,   \* how much of each bound is used
    gone,    \* history: facts an administrator deleted from PostgreSQL
    cut,     \* history: facts whose handler stopped between row and hand-over
    swept    \* history: facts the reconciler deleted from Neo4j

stores == <<pg, neo, up>>
tables == <<log, queue>>
workers == <<replay, mirror, rec>>
history == <<gone, cut, swept>>
vars == <<stores, tables, client, minted, workers, spent, history>>

-----------------------------------------------------------------------------
\* Facts and ops.

Node == Entities \cup Claims \cup Docs
Edge == Node \X Node
Fact == Node \cup Edge

OpType == {"create_entity", "create_relationship", "create_claim",
           "link_claim_evidence", "create_document"}
Op == [type : OpType, src : Node, dst : SUBSET Node]

EntityOp(e) == [type |-> "create_entity", src |-> e, dst |-> {}]
RelationshipOp(a, b) == [type |-> "create_relationship", src |-> a, dst |-> {b}]
ClaimOp(c, about) == [type |-> "create_claim", src |-> c, dst |-> about]
EvidenceOp(c, d) == [type |-> "link_claim_evidence", src |-> c, dst |-> {d}]
DocumentOp(d) == [type |-> "create_document", src |-> d, dst |-> {}]

\* What an op's Cypher leaves in the graph.  Every op MERGEs its endpoints
\* except create_relationship, which MATCHes them.
Writes(op) ==
    IF op.type = "create_relationship"
    THEN {op.src} \X op.dst
    ELSE {op.src} \cup op.dst \cup ({op.src} \X op.dst)

\* Mutant of Matches: every op MATCHes its nodes.
MatchesAlways(op, g) == {op.src} \cup op.dst \subseteq g

\* A MATCH without a row is not an error: nothing is written and the op succeeds.
Matches(op, g) ==
    op.type = "create_relationship" => {op.src} \cup op.dst \subseteq g

Apply(op, g) == IF Matches(op, g) THEN g \cup Writes(op) ELSE g

\* create_claim is a statement for the claim and one for each entity; when the
\* connection breaks, the statements already sent stay.
Fragments(op) ==
    IF op.type = "create_claim"
    THEN {[op EXCEPT !.dst = D] : D \in SUBSET op.dst}
    ELSE {op}

\* try_graph_write returns Ok.
Succeeds(op) ==
    /\ up
    /\ neo' = Apply(op, neo)
    /\ UNCHANGED <<up, spent>>

\* try_graph_write returns Err: Neo4j is away, or goes away during the op.
Fails(op) ==
    \/ /\ ~up
       /\ UNCHANGED <<neo, up, spent>>
    \/ /\ up
       /\ spent.outages < MaxOutages
       /\ up' = FALSE
       /\ spent' = [spent EXCEPT !.outages = @ + 1]
       /\ \E f \in Fragments(op) : neo' = Apply(f, neo)

\* A key is a fresh uuid (None) or, for a backfill, the uuid v5 of a fact.
NewRow(key, op) ==
    [key |-> key, op |-> op, status |-> "PENDING", attempts |-> 0]

\* A DETACH DELETE of a node takes its edges along; for an edge, only itself.
Detach(f) == {f} \cup {e \in Edge : f = e[1] \/ f = e[2]}

\* The first n members of a set of row numbers (ORDER BY ... LIMIT n).
FirstOf(S, n) == {i \in S : Cardinality({j \in S : j < i}) < n}

IsFirst(i, S) == i \in S /\ \A j \in S : i <= j

-----------------------------------------------------------------------------
\* Types.

ClientPc ==
    {"idle", "entity_row", "entity_graph", "entity_log",
     "endpoints", "relationship_row", "relationship_graph", "relationship_log",
     "claim_row", "evidence_row", "evidence_graph", "about_row",
     "claim_graph", "claim_log", "extract_audit", "extract_commit"}

GraphPc == {"entity_graph", "relationship_graph", "evidence_graph", "claim_graph"}

\* claim: the claim being created; ent, other: the entity or the endpoints, or
\* the document, at hand; docs, ents: still to be done; about: entities done;
\* failed: the graph write at pc returned an error and the op must be queued.
ClientState ==
    [pc : ClientPc, claim : Claims \cup {None}, ent : Entities \cup {None},
     other : Entities \cup Docs \cup {None}, docs : SUBSET Docs,
     ents : SUBSET Entities, about : SUBSET Entities, failed : BOOLEAN]

LogRow == [op : Op, early : BOOLEAN, mirrored : BOOLEAN]
QueueRow == [key : Fact \cup {None}, op : Op,
             status : {"PENDING", "DONE", "FAILED"}, attempts : 0 .. MaxAttempts]

Idle == [pc |-> "idle", claim |-> None, ent |-> None, other |-> None,
         docs |-> {}, ents |-> {}, about |-> {}, failed |-> FALSE]
ReplayIdle == [batch |-> {}, outcome |-> "none"]
MirrorIdle == [batch |-> {}, queued |-> FALSE]
RecIdle == [pc |-> "idle", stage |-> 1, seen |-> {}, todo |-> {}]

TablesOK ==
    /\ log \in Seq(LogRow)
    /\ queue \in Seq(QueueRow)

WorkersOK ==
    /\ replay \in [batch : SUBSET (1 .. Len(queue)), outcome : {"none", "ok", "err"}]
    /\ mirror \in [batch : SUBSET (1 .. Len(log)), queued : BOOLEAN]
    /\ rec \in [pc : {"idle", "pg", "neo", "act"}, stage : 1 .. Len(Sections),
                seen : SUBSET Fact, todo : SUBSET Fact]

TypeOK ==
    /\ pg \subseteq Fact
    /\ neo \subseteq Fact
    /\ up \in BOOLEAN
    /\ TablesOK
    /\ client \in [Clients -> ClientState]
    /\ minted \subseteq Claims
    /\ WorkersOK
    /\ spent \in [calls : 0 .. MaxCalls, faults : 0 .. MaxFaults,
                  outages : 0 .. MaxOutages, deletes : 0 .. MaxDeletes]
    /\ gone \subseteq Fact
    /\ cut \subseteq Fact
    /\ swept \subseteq Fact

Init ==
    /\ pg = Docs
    /\ neo = {}
    /\ up = TRUE
    /\ log = <<>>
    /\ queue = <<>>
    /\ client = [p \in Clients |-> Idle]
    /\ minted = {}
    /\ replay = ReplayIdle
    /\ mirror = MirrorIdle
    /\ rec = RecIdle
    /\ spent = [calls |-> 0, faults |-> 0, outages |-> 0, deletes |-> 0]
    /\ gone = {}
    /\ cut = {}
    /\ swept = {}

-----------------------------------------------------------------------------
\* The handlers.  A call starts once its arguments are validated.

Call(p, kind, c) ==
    /\ client[p].pc = "idle"
    /\ kind \in CallKinds
    /\ spent.calls < MaxCalls
    /\ spent' = [spent EXCEPT !.calls = @ + 1]
    /\ client' = [client EXCEPT ![p] = c]
    /\ UNCHANGED <<stores, tables, workers, history>>

\* create_entity
StartEntity(p) ==
    \E e \in Entities :
        /\ Call(p, "entity", [Idle EXCEPT !.pc = "entity_row", !.ents = {e}])
        /\ UNCHANGED minted

\* create_relationship
StartRelationship(p) ==
    \E a, b \in Entities :
        /\ Call(p, "relationship",
                [Idle EXCEPT !.pc = "endpoints", !.ent = a, !.other = b])
        /\ UNCHANGED minted

\* create_claim: at least one evidence document, and every one exists.
StartClaim(p) ==
    \E c \in Claims \ minted, D \in SUBSET Docs \ {{}}, E \in SUBSET Entities :
        /\ Call(p, "claim", [Idle EXCEPT !.pc = "claim_row", !.claim = c,
                                         !.docs = D, !.ents = E])
        /\ minted' = minted \cup {c}

\* insert_one_claim of extract_claims
StartExtract(p) ==
    \E c \in Claims \ minted, E \in SUBSET Entities :
        /\ Call(p, "extract", [Idle EXCEPT !.pc = "extract_audit", !.claim = c,
                                           !.ents = E])
        /\ minted' = minted \cup {c}

\* Mutant of Insert: the result of the statement is ignored (let _ =).
InsertUnchecked(p, f, c) ==
    /\ pg' \in {pg, pg \cup {f}}
    /\ client' = [client EXCEPT ![p] = c]
    /\ UNCHANGED <<neo, up, tables, minted, workers, spent, history>>

\* A committed INSERT (or upsert) of a row; the call goes on as c.
Insert(p, f, c) ==
    /\ pg' = pg \cup {f}
    /\ client' = [client EXCEPT ![p] = c]
    /\ UNCHANGED <<neo, up, tables, minted, workers, spent, history>>

EntityRow(p) ==
    /\ client[p].pc = "entity_row"
    /\ \E e \in client[p].ents :
            Insert(p, e, [client[p] EXCEPT !.pc = "entity_graph", !.ent = e,
                                           !.ents = @ \ {e}])

ClaimRow(p) ==
    /\ client[p].pc = "claim_row"
    /\ Insert(p, client[p].claim, [client[p] EXCEPT !.pc = "evidence_row"])

EvidenceRow(p) ==
    /\ client[p].pc = "evidence_row"
    /\ client[p].claim \in pg
    /\ \E d \in client[p].docs :
            Insert(p, <<client[p].claim, d>>,
                   [client[p] EXCEPT !.pc = "evidence_graph", !.other = d,
                                     !.docs = @ \ {d}])

AboutRow(p) ==
    LET c == client[p] IN
    /\ c.pc = "about_row"
    /\ {c.claim, c.ent} \subseteq pg
    /\ Insert(p, <<c.claim, c.ent>>,
              [c EXCEPT !.pc = IF c.ents = {} THEN "claim_graph" ELSE "entity_row",
                        !.about = @ \cup {c.ent}])

\* The lookups of create_relationship; both endpoints were found.
Endpoints(p) ==
    LET c == client[p] IN
    /\ c.pc = "endpoints"
    /\ {c.ent, c.other} \subseteq pg
    /\ client' = [client EXCEPT ![p].pc = "relationship_row"]
    /\ UNCHANGED <<stores, tables, minted, workers, spent, history>>

RelationshipRow(p) ==
    LET c == client[p] IN
    /\ c.pc = "relationship_row"
    /\ {c.ent, c.other} \subseteq pg
    /\ Insert(p, <<c.ent, c.other>>, [c EXCEPT !.pc = "relationship_graph"])

\* A missing endpoint after three lookups, or a foreign key that a deletion
\* broke: the handler returns the error.
Rejected(p) ==
    LET c == client[p] IN
    /\ \/ /\ c.pc \in {"endpoints", "relationship_row"}
          /\ ~({c.ent, c.other} \subseteq pg)
       \/ /\ c.pc = "evidence_row"
          /\ c.claim \notin pg
       \/ /\ c.pc = "about_row"
          /\ ~({c.claim, c.ent} \subseteq pg)
    /\ client' = [client EXCEPT ![p] = Idle]
    /\ UNCHANGED <<stores, tables, minted, workers, spent, history>>

\* The op a handler writes to the graph at its pc.
Intent(c) ==
    CASE c.pc = "entity_graph" -> EntityOp(c.ent)
      [] c.pc = "relationship_graph" -> RelationshipOp(c.ent, c.other)
      [] c.pc = "evidence_graph" -> EvidenceOp(c.claim, c.other)
      [] c.pc = "claim_graph" -> ClaimOp(c.claim, c.about)

\* Where a handler goes on after graph_write, whatever became of it.
AfterGraph(c) ==
    CASE c.pc = "entity_graph" -> "entity_log"
      [] c.pc = "relationship_graph" -> "relationship_log"
      [] c.pc = "claim_graph" -> "claim_log"
      [] c.pc = "evidence_graph" ->
            IF c.docs # {} THEN "evidence_row"
            ELSE IF c.ents # {} THEN "entity_row" ELSE "claim_graph"

GraphWritten(p) ==
    /\ client' = [client EXCEPT ![p].pc = AfterGraph(client[p]), ![p].failed = FALSE]
    /\ UNCHANGED <<minted, workers, log, gone, swept>>

\* graph_write: the inline write.
GraphWriteOk(p) ==
    /\ client[p].pc \in GraphPc /\ ~client[p].failed
    /\ Succeeds(Intent(client[p]))
    /\ GraphWritten(p)
    /\ UNCHANGED <<pg, queue, cut>>

GraphWriteErr(p) ==
    /\ client[p].pc \in GraphPc /\ ~client[p].failed
    /\ Fails(Intent(client[p]))
    /\ client' = [client EXCEPT ![p].failed = TRUE]
    /\ UNCHANGED <<pg, tables, minted, workers, history>>

\* graph_write: the fallback INSERT into graph_sync_queue.
Enqueue(p) ==
    /\ client[p].pc \in GraphPc /\ client[p].failed
    /\ queue' = Append(queue, NewRow(None, Intent(client[p])))
    /\ GraphWritten(p)
    /\ UNCHANGED <<stores, spent, cut>>

\* What only the call in flight can still hand over to the mirror.
Owed(c) ==
    CASE c.pc \in {"entity_graph", "entity_log"} -> {c.ent}
      [] c.pc = "relationship_graph" -> {<<c.ent, c.other>>}
      [] OTHER -> {}

\* The result of that INSERT is ignored (let _ =): when it fails the handler
\* goes on as if the op were queued.  A change_log row still follows for an
\* entity; nothing follows for a relationship.
EnqueueLost(p) ==
    /\ client[p].pc \in GraphPc /\ client[p].failed
    /\ spent.faults < MaxFaults
    /\ spent' = [spent EXCEPT !.faults = @ + 1]
    /\ cut' = IF client[p].pc = "relationship_graph"
              THEN cut \cup Owed(client[p]) ELSE cut
    /\ GraphWritten(p)
    /\ UNCHANGED <<stores, queue>>

\* An INSERT into graph_change_log.
AppendLog(op, early) ==
    /\ log' = Append(log, [op |-> op, early |-> early, mirrored |-> FALSE])
    /\ UNCHANGED <<stores, queue, minted, workers, spent, history>>

EntityLog(p) ==
    /\ client[p].pc = "entity_log"
    /\ AppendLog(EntityOp(client[p].ent), FALSE)
    /\ client' = [client EXCEPT ![p] =
            IF client[p].claim = None THEN Idle
            ELSE [client[p] EXCEPT !.pc = "about_row"]]

RelationshipLog(p) ==
    /\ client[p].pc = "relationship_log"
    /\ AppendLog(RelationshipOp(client[p].ent, client[p].other), FALSE)
    /\ client' = [client EXCEPT ![p] = Idle]

ClaimLog(p) ==
    /\ client[p].pc = "claim_log"
    /\ AppendLog(ClaimOp(client[p].claim, client[p].about), FALSE)
    /\ client' = [client EXCEPT ![p] = Idle]

\* emit_claim_audit is handed the pool and not the open transaction: its row is
\* visible at once, the claim and its entities only after the commit.
ExtractAudit(p) ==
    /\ client[p].pc = "extract_audit"
    /\ AppendLog(ClaimOp(client[p].claim, client[p].ents), TRUE)
    /\ client' = [client EXCEPT ![p].pc = "extract_commit"]

ExtractCommit(p) ==
    LET c == client[p] IN
    /\ c.pc = "extract_commit"
    /\ pg' = pg \cup {c.claim} \cup c.ents \cup ({c.claim} \X c.ents)
    /\ client' = [client EXCEPT ![p] = Idle]
    /\ UNCHANGED <<neo, up, tables, minted, workers, spent, history>>

\* A failed PostgreSQL statement (the ? of each await), an invalid claim role
\* found after the claim was inserted, or a caller that hangs up: the rows
\* written so far stay.
ClientAbort(p) ==
    /\ client[p].pc # "idle"
    /\ spent.faults < MaxFaults
    /\ spent' = [spent EXCEPT !.faults = @ + 1]
    /\ cut' = cut \cup Owed(client[p])
    /\ client' = [client EXCEPT ![p] = Idle]
    /\ UNCHANGED <<stores, tables, minted, workers, gone, swept>>

-----------------------------------------------------------------------------
\* The replay worker.

\* Mutant of ReplayTick: rows that were given up are picked up again.
ReplayTickNotDone ==
    /\ replay.batch = {}
    /\ LET pending == {i \in DOMAIN queue : queue[i].status # "DONE"} IN
       /\ pending # {}
       /\ replay' = [ReplayIdle EXCEPT !.batch = FirstOf(pending, ReplayBatch)]
    /\ UNCHANGED <<stores, tables, client, minted, mirror, rec, spent, history>>

\* SELECT ... WHERE status = 'PENDING' ORDER BY created_at LIMIT 20
ReplayTick ==
    /\ replay.batch = {}
    /\ LET pending == {i \in DOMAIN queue : queue[i].status = "PENDING"} IN
       /\ pending # {}
       /\ replay' = [ReplayIdle EXCEPT !.batch = FirstOf(pending, ReplayBatch)]
    /\ UNCHANGED <<stores, tables, client, minted, mirror, rec, spent, history>>

\* try_graph_write on the next op of the batch.
ReplayTry ==
    /\ replay.outcome = "none"
    /\ \E i \in replay.batch :
        /\ IsFirst(i, replay.batch)
        /\ \/ Succeeds(queue[i].op) /\ replay' = [replay EXCEPT !.outcome = "ok"]
           \/ Fails(queue[i].op) /\ replay' = [replay EXCEPT !.outcome = "err"]
    /\ UNCHANGED <<pg, tables, client, minted, mirror, rec, history>>

\* Mutants of Marked: the attempts are compared one too late; an error is taken
\* for a success; a success is forgotten.
MarkedOneLate(row, outcome) ==
    IF outcome = "ok" THEN [row EXCEPT !.status = "DONE"]
    ELSE [row EXCEPT !.attempts = @ + 1,
                     !.status = IF row.attempts >= MaxAttempts
                                THEN "FAILED" ELSE "PENDING"]
MarkedDoneAnyway(row, outcome) ==
    [row EXCEPT !.status = "DONE"]
MarkedForgotten(row, outcome) ==
    IF outcome = "ok" THEN row
    ELSE [row EXCEPT !.attempts = @ + 1, !.status = "FAILED"]

\* The row after the attempt: given up at the fifth error.
Marked(row, outcome) ==
    IF outcome = "ok" THEN [row EXCEPT !.status = "DONE"]
    ELSE [row EXCEPT !.attempts = @ + 1,
                     !.status = IF row.attempts >= MaxAttempts - 1
                                THEN "FAILED" ELSE "PENDING"]

ReplayMark ==
    /\ replay.outcome # "none"
    /\ \E i \in replay.batch :
        /\ IsFirst(i, replay.batch)
        /\ queue' = [queue EXCEPT ![i] = Marked(@, replay.outcome)]
        /\ replay' = [batch |-> replay.batch \ {i}, outcome |-> "none"]
    /\ UNCHANGED <<stores, log, client, minted, mirror, rec, spent, history>>

-----------------------------------------------------------------------------
\* The change_log mirror worker.

\* Mutant of Translate: the entities of a claim are dropped.
TranslateBare(op) ==
    IF op.type = "create_relationship" THEN {} ELSE {[op EXCEPT !.dst = {}]}

\* translate_change_log.  A relationship row of create_relationship has no
\* subject, object or predicate and yields nothing.
Translate(op) == IF op.type = "create_relationship" THEN {} ELSE {op}

\* SELECT ... WHERE mirrored_at IS NULL ORDER BY change_id LIMIT 50
MirrorTick ==
    /\ mirror.batch = {}
    /\ LET fresh == {i \in DOMAIN log : ~log[i].mirrored} IN
       /\ fresh # {}
       /\ mirror' = [MirrorIdle EXCEPT !.batch = FirstOf(fresh, MirrorBatch)]
    /\ UNCHANGED <<stores, tables, client, minted, replay, rec, spent, history>>

\* Mutant of MirrorEnqueue: the result of the INSERT is ignored.
MirrorEnqueueUnchecked ==
    /\ ~mirror.queued
    /\ \E i \in mirror.batch :
        /\ IsFirst(i, mirror.batch)
        /\ \/ queue' = queue
           \/ \E op \in Translate(log[i].op) : queue' = Append(queue, NewRow(None, op))
        /\ mirror' = [mirror EXCEPT !.queued = TRUE]
    /\ UNCHANGED <<stores, log, client, minted, replay, rec, spent, history>>

MirrorEnqueue ==
    /\ ~mirror.queued
    /\ \E i \in mirror.batch :
        /\ IsFirst(i, mirror.batch)
        /\ IF Translate(log[i].op) = {} THEN queue' = queue
           ELSE \E op \in Translate(log[i].op) :
                    queue' = Append(queue, NewRow(None, op))
        /\ mirror' = [mirror EXCEPT !.queued = TRUE]
    /\ UNCHANGED <<stores, log, client, minted, replay, rec, spent, history>>

MirrorStamp ==
    /\ mirror.queued
    /\ \E i \in mirror.batch :
        /\ IsFirst(i, mirror.batch)
        /\ log' = [log EXCEPT ![i].mirrored = TRUE]
        /\ mirror' = [batch |-> mirror.batch \ {i}, queued |-> FALSE]
    /\ UNCHANGED <<stores, queue, client, minted, replay, rec, spent, history>>

-----------------------------------------------------------------------------
\* The reconciler.  Sections 1, 2, 4 and 5 sweep, sections 8a, 8b and 8c
\* backfill.  Sections 3, 6 and 7 are the same sweeps for findings, which no
\* handler mirrors.

Scope(section) ==
    CASE section = "sweep_entity" -> Entities
      [] section \in {"sweep_claim", "fill_claim"} -> Claims
      [] section \in {"sweep_document", "fill_document"} -> Docs
      [] section \in {"sweep_evidence", "fill_evidence"} -> Claims \X Docs

ReconcileStart ==
    /\ rec.pc = "idle"
    /\ rec' = [RecIdle EXCEPT !.pc = "pg"]
    /\ UNCHANGED <<stores, tables, client, minted, replay, mirror, spent, history>>

ReconcileReadPg ==
    /\ rec.pc = "pg"
    /\ rec' = [rec EXCEPT !.pc = "neo", !.seen = pg \cap Scope(Sections[rec.stage])]
    /\ UNCHANGED <<stores, tables, client, minted, replay, mirror, spent, history>>

\* Mutant of ReconcileReadNeo: the operands of the difference are swapped.
ReconcileReadNeoSwapped ==
    /\ rec.pc = "neo"
    /\ up
    /\ LET found == neo \cap Scope(Sections[rec.stage]) IN
       rec' = [rec EXCEPT !.pc = "act",
                          !.todo = IF Sections[rec.stage] \in SweepSections
                                   THEN rec.seen \ found ELSE found \ rec.seen]
    /\ UNCHANGED <<stores, tables, client, minted, replay, mirror, spent, history>>

ReconcileReadNeo ==
    /\ rec.pc = "neo"
    /\ up
    /\ LET found == neo \cap Scope(Sections[rec.stage]) IN
       rec' = [rec EXCEPT !.pc = "act",
                          !.todo = IF Sections[rec.stage] \in SweepSections THEN found \ rec.seen
                                   ELSE rec.seen \ found]
    /\ UNCHANGED <<stores, tables, client, minted, replay, mirror, spent, history>>

\* DETACH DELETE of a node, or DELETE of an evidence edge.
ReconcileSweep ==
    /\ rec.pc = "act" /\ Sections[rec.stage] \in SweepSections
    /\ up
    /\ \E f \in rec.todo :
        /\ neo' = neo \ Detach(f)
        /\ swept' = swept \cup (neo \cap Detach(f))
        /\ rec' = [rec EXCEPT !.todo = @ \ {f}]
    /\ UNCHANGED <<pg, up, tables, client, minted, replay, mirror, spent, gone, cut>>

\* Mutants of FillOp: the entities are not those of the claim; the evidence
\* edge is left out.
FillOpAllEntities(f) ==
    CASE f \in Claims -> ClaimOp(f, Entities)
      [] f \in Docs -> DocumentOp(f)
      [] f \in Claims \X Docs -> EvidenceOp(f[1], f[2])
FillOpNoEdge(f) ==
    CASE f \in Claims -> ClaimOp(f, {e \in Entities : <<f, e>> \in pg})
      [] f \in Docs -> DocumentOp(f)
      [] f \in Claims \X Docs -> DocumentOp(f[2])

FillOp(f) ==
    CASE f \in Claims -> ClaimOp(f, {e \in Entities : <<f, e>> \in pg})
      [] f \in Docs -> DocumentOp(f)
      [] f \in Claims \X Docs -> EvidenceOp(f[1], f[2])

\* A claim or document is read again and skipped when it has disappeared; the
\* INSERT does nothing when a row with the same deterministic key was ever made.
ReconcileFill ==
    /\ rec.pc = "act" /\ Sections[rec.stage] \in FillSections
    /\ \E f \in rec.todo :
        /\ LET skip == \/ f \in Node \ pg
                       \/ \E i \in DOMAIN queue : queue[i].key = f
           IN  queue' = IF skip THEN queue ELSE Append(queue, NewRow(f, FillOp(f)))
        /\ rec' = [rec EXCEPT !.todo = @ \ {f}]
    /\ UNCHANGED <<stores, log, client, minted, replay, mirror, spent, history>>

ReconcileNext ==
    /\ rec.pc = "act" /\ rec.todo = {}
    /\ rec' = IF rec.stage = Len(Sections) THEN RecIdle
              ELSE [RecIdle EXCEPT !.pc = "pg", !.stage = rec.stage + 1]
    /\ UNCHANGED <<stores, tables, client, minted, replay, mirror, spent, history>>

\* A Cypher query fails: the pass ends where it is.
ReconcileAbort ==
    /\ ~up
    /\ rec.pc = "neo" \/ (rec.pc = "act" /\ Sections[rec.stage] \in SweepSections /\ rec.todo # {})
    /\ rec' = RecIdle
    /\ UNCHANGED <<stores, tables, client, minted, replay, mirror, spent, history>>

-----------------------------------------------------------------------------
\* The environment.

\* hub-core stops and starts again: what is in memory is lost.
Restart ==
    /\ spent.faults < MaxFaults
    /\ spent' = [spent EXCEPT !.faults = @ + 1]
    /\ cut' = cut \cup UNION {Owed(client[p]) : p \in Clients}
    /\ client' = [p \in Clients |-> Idle]
    /\ replay' = ReplayIdle
    /\ mirror' = MirrorIdle
    /\ rec' = RecIdle
    /\ UNCHANGED <<stores, tables, minted, gone, swept>>

\* A PostgreSQL statement of a worker fails: its tick ends there.
WorkerAbort ==
    /\ spent.faults < MaxFaults
    /\ spent' = [spent EXCEPT !.faults = @ + 1]
    /\ \/ /\ replay # ReplayIdle /\ replay' = ReplayIdle
          /\ UNCHANGED <<mirror, rec>>
       \/ /\ mirror # MirrorIdle /\ mirror' = MirrorIdle
          /\ UNCHANGED <<replay, rec>>
       \/ /\ rec # RecIdle /\ rec' = RecIdle
          /\ UNCHANGED <<replay, mirror>>
    /\ UNCHANGED <<stores, tables, client, minted, history>>

NeoDown ==
    /\ up
    /\ spent.outages < MaxOutages
    /\ up' = FALSE
    /\ spent' = [spent EXCEPT !.outages = @ + 1]
    /\ UNCHANGED <<pg, neo, tables, client, minted, workers, history>>

NeoUp ==
    /\ ~up
    /\ up' = TRUE
    /\ UNCHANGED <<pg, neo, tables, client, minted, workers, spent, history>>

\* An administrator deletes an entity or a claim (with ON DELETE CASCADE) or a
\* relationship, as the comments at graphw.rs:1109 and server.rs:76 foresee and
\* the acceptance scripts do.
AdminDelete ==
    /\ spent.deletes < MaxDeletes
    /\ spent' = [spent EXCEPT !.deletes = @ + 1]
    /\ \E f \in pg \cap (Entities \cup Claims \cup (Entities \X Entities)) :
        /\ pg' = pg \ Detach(f)
        /\ gone' = gone \cup (pg \cap Detach(f))
    /\ UNCHANGED <<neo, up, tables, client, minted, workers, cut, swept>>

-----------------------------------------------------------------------------
Handler(p) ==
    \/ EntityRow(p) \/ ClaimRow(p) \/ EvidenceRow(p) \/ AboutRow(p)
    \/ Endpoints(p) \/ RelationshipRow(p) \/ Rejected(p)
    \/ GraphWriteOk(p) \/ GraphWriteErr(p) \/ Enqueue(p)
    \/ EntityLog(p) \/ RelationshipLog(p) \/ ClaimLog(p)
    \/ ExtractAudit(p) \/ ExtractCommit(p)

Start(p) ==
    \/ StartEntity(p) \/ StartRelationship(p) \/ StartClaim(p) \/ StartExtract(p)

Replay == ReplayTick \/ ReplayTry \/ ReplayMark
Mirror == MirrorTick \/ MirrorEnqueue \/ MirrorStamp
Reconcile ==
    \/ ReconcileStart \/ ReconcileReadPg \/ ReconcileReadNeo \/ ReconcileSweep
    \/ ReconcileFill \/ ReconcileNext \/ ReconcileAbort

Next ==
    \/ \E p \in Clients :
            Start(p) \/ Handler(p) \/ EnqueueLost(p) \/ ClientAbort(p)
    \/ Replay
    \/ Mirror
    \/ Reconcile
    \/ Restart
    \/ WorkerAbort
    \/ NeoDown
    \/ NeoUp
    \/ AdminDelete

Spec == Init /\ [][Next]_vars

\* The tokio runtime polls every spawned task, and an outage ends; nothing makes
\* an agent call, a fault happen or an administrator delete.
Fairness ==
    /\ \A p \in Clients : WF_vars(Handler(p))
    /\ WF_vars(Replay)
    /\ WF_vars(Mirror)
    /\ WF_vars(Reconcile)
    /\ WF_vars(NeoUp)

FairSpec == Spec /\ Fairness

-----------------------------------------------------------------------------
\* Safety.

\* Facts that a change_log row announces before their transaction commits.
Announced ==
    UNION {Writes(log[i].op) : i \in {j \in DOMAIN log : log[j].early}}

\* What PostgreSQL holds, held before a deletion, or is about to commit.
Backed == pg \cup gone \cup Announced

\* PostgreSQL is canonical (section 36): whatever interleaving of handlers,
\* queued ops and backfills, Neo4j never holds a fact that PostgreSQL did not
\* hold first, except what extract_claims announces ahead of its commit.
MirrorBacked == neo \subseteq Backed

\* The fact will still be written by somebody, or its op is kept as FAILED.
Carried(f) ==
    \/ \E p \in Clients : f \in Owed(client[p])
    \/ \E i \in DOMAIN log :
            ~log[i].mirrored /\ \E op \in Translate(log[i].op) : f \in Writes(op)
    \/ \E i \in DOMAIN queue :
            queue[i].status # "DONE" /\ f \in Writes(queue[i].op)

\* Section 72, "graph updates are NEVER lost", as far as it is true: an entity
\* of PostgreSQL is in Neo4j or still on its way through the handler, the
\* change_log or the queue, across outages, retries and restarts of the
\* workers.  The only two ways to lose it are a handler that stops between its
\* row and its change_log row, and the reconciler's delete.
NoLostEntity ==
    \A e \in Entities \cap pg : e \in neo \/ Carried(e) \/ e \in cut \/ e \in swept

\* An op the replay worker settled as DONE has been written: what it writes is
\* in Neo4j, or the reconciler deleted it since.  True of every op but
\* create_relationship, whose MATCH may find nothing.
DoneWasWritten ==
    \A i \in DOMAIN queue :
        queue[i].status = "DONE" /\ queue[i].op.type # "create_relationship"
            => Writes(queue[i].op) \subseteq neo \cup swept

\* A queue row that is DONE or FAILED is final and no row disappears, although
\* the worker acts on a batch it read earlier: an op is never run again after
\* it was settled, and a backfill key, once used, stays used.
SettledRowsAreFinal ==
    [][\A i \in DOMAIN queue :
            /\ i \in DOMAIN queue'
            /\ queue[i].status # "PENDING" => queue'[i] = queue[i]]_vars

-----------------------------------------------------------------------------
\* Refinement.

CarriedEntities == {e \in Entities : Carried(e)}

Promised ==
    INSTANCE CanonicalMirror
    WITH Facts <- Fact,
         Tracked <- Entities,
         canon <- pg,
         known <- Backed,
         copy <- neo,
         owed <- CarriedEntities,
         lost <- cut \cap Entities,
         swept <- swept

\* The handlers, the two tables, the three workers and the reconciler implement
\* CanonicalMirror for entities, step by step: one is owed from the INSERT of its
\* row on, is struck off only in Neo4j or on record as lost, deleted or not, and
\* no write brings what was not known.
MirrorRefines == Promised!Spec

-----------------------------------------------------------------------------
\* Liveness, under FairSpec.

\* The backfill of a fact ran out of attempts.
GivenUp(f) ==
    \E i \in DOMAIN queue : queue[i].key = f /\ queue[i].status = "FAILED"

\* The facts whose section of the reconciler runs.
Filled == UNION {Scope(Sections[i]) :
                    i \in {j \in DOMAIN Sections : Sections[j] \in FillSections}}
Compared == UNION {Scope(Sections[i]) :
                    i \in {j \in DOMAIN Sections : Sections[j] \in SweepSections}}

\* The reverse backfill closes the PG -> Neo4j direction for claims, evidence
\* and documents: whatever handlers, restarts and outages did, each of them is
\* in Neo4j in the end unless its one backfill row ended FAILED.
BackfillConverges == <>[](\A f \in Filled \cap pg : f \in neo \/ GivenUp(f))

\* Sweeping closes the other direction: no entity, claim, document or evidence
\* edge that PostgreSQL does not hold stays in Neo4j, even when a queued op
\* brings it back after it was swept.
OrphansGo == <>[](neo \cap Compared \subseteq pg)

\* Both pipelines drain: every change_log row gets stamped and every queued op
\* ends DONE or FAILED.
PipelinesDrain ==
    <>[](/\ \A i \in DOMAIN log : log[i].mirrored
         /\ \A i \in DOMAIN queue : queue[i].status # "PENDING")

-----------------------------------------------------------------------------
\* What comments and documents say and the code does not do.

\* "graph updates are NEVER lost" (graphw.rs:6) and "ordering between upstream
\* sources doesn't matter (both MERGE)" (the mirror design, line 64), said of a
\* relationship: it is in Neo4j, or on its way, or lost to a crash or a sweep.
RelationshipNeverLost ==
    \A r \in pg \cap (Entities \X Entities) :
        r \in neo \/ Carried(r) \/ r \in cut \/ r \in swept

\* The reconciler deletes orphans only, which "have no PG canonical
\* counterparts" (graphw.rs:1221): nothing that PostgreSQL holds leaves Neo4j.
SweepSpares == [][(neo \ neo') \cap pg = {}]_vars

=============================================================================
