-------------------------- MODULE GovernanceProofs --------------------------
(***************************************************************************)
(* Proofs about Governance: its type invariant, and the safety properties  *)
(* of the alert engine and of the budget governor.  Every step of the two  *)
(* together is one of a few moves of the alert engine, and what the alerts *)
(* promise is proved of those.                                             *)
(***************************************************************************)
EXTENDS Governance, SequenceTheorems, TLAPS

-----------------------------------------------------------------------------
\* What a step does to the alerts.

FaultsGrow == faults' >= faults /\ cut \subseteq cut'

\* A call of raise() begins.
Begins(p) ==
    \E key \in Keys \cup {None}, rank \in Ranks : BeginRaise(p, key, rank)

\* The alerts are left alone, but for a raise() that may begin.
Apart ==
    /\ FaultsGrow
    /\ AlertsHold
    /\ raising' = raising \/ \E p \in Raisers : Begins(p)

AlertMove ==
    \/ Apart
    \/ \E p \in Raisers : Raising(p)
    \/ \E i \in DOMAIN alerts : SetStatus(i)
    \/ Dispatching
    \/ HourPasses
    \/ AlertsRestart

Counters ==
    /\ requests \in 0 .. MaxRequests
    /\ faults \in 0 .. MaxFaults
    /\ events \in 0 .. MaxEvents

LEMMA BoundsAreNat ==
    /\ MinRank \in Nat /\ Retries \in Nat /\ MaxRequests \in Nat /\ MaxHours \in Nat
    /\ MaxFaults \in Nat /\ MaxEvents \in Nat /\ MaxSpends \in Nat /\ MaxDays \in Nat
    /\ Len(Channels) \in Nat
  BY LimitsAssumption, BudgetAssumption, ChannelsAssumption

\* The levels that are announced, and the refusal of a tool, are keys.
LEMMA KeysOfTheGovernor ==
    /\ \A level \in Levels \ {"GREEN"} : level \in Keys /\ Severity(level) \in Ranks
    /\ "l3deny" \in Keys
    /\ {0, 1, 2} = Ranks
  BY AlertKeysAssumption DEF Severity, Ranks, Levels

\* The ways a step may count: not at all, an event, a fault, a request.
LEMMA NothingCounts ==
    ASSUME Counters, NoFault, UNCHANGED requests
    PROVE  Counters' /\ FaultsGrow
  BY BoundsAreNat DEF Counters, NoFault, FaultsGrow

LEMMA EventCounts ==
    ASSUME Counters, EventOnly, UNCHANGED requests
    PROVE  Counters' /\ FaultsGrow
  BY BoundsAreNat DEF Counters, EventOnly, Event, FaultsGrow

LEMMA FaultCounts ==
    ASSUME Counters, NEW lost, Fault(lost), UNCHANGED requests
    PROVE  /\ Counters' /\ FaultsGrow
           /\ faults' = faults + 1 /\ faults' # faults
           /\ lost \subseteq cut' /\ cut' = cut \cup lost
  BY BoundsAreNat DEF Counters, Fault, Event, FaultsGrow

LEMMA RequestCounts ==
    ASSUME Counters, Request, NoFault
    PROVE  Counters' /\ FaultsGrow /\ requests' \in 0 .. MaxRequests
  BY BoundsAreNat DEF Counters, Request, NoFault, FaultsGrow

\* The governor's own steps.
LEMMA QuietIsApart ==
    ASSUME Counters, Quiet
    PROVE  Counters' /\ Apart /\ raising' = raising /\ cut' = cut
  BY NothingCounts DEF Quiet, AlertsRest, Apart, NoFault

LEMMA OutsideIsApart ==
    ASSUME Counters, Outside
    PROVE  Counters' /\ Apart /\ raising' = raising /\ cut' = cut
  BY EventCounts DEF Outside, AlertsRest, Apart, EventOnly

LEMMA TroubleIsApart ==
    ASSUME Counters, Trouble
    PROVE  Counters' /\ Apart /\ raising' = raising /\ cut' = cut
  BY FaultCounts DEF Trouble, AlertsRest, Apart

LEMMA CallingMoves ==
    ASSUME Counters, NEW p \in Callers, CostTypeOK, Calling(p)
    PROVE  Counters' /\ Apart /\ cut' = cut
  <1> USE QuietIsApart, TroubleIsApart
  <1>1. CASE Denied(p) \/ Alerted(p) \/ SweepTasks(p) \/ Gate(p) \/ Crawl(p)
    BY <1>1 DEF Denied, Alerted, SweepTasks, Gate, Crawl
  <1>2. CASE GetCached(p) \/ SumLedger(p) \/ FillCache(p) \/ GetSeen(p)
    BY <1>2 DEF GetCached, SumLedger, FillCache, GetSeen
  <1>3. CASE OpenTask(p) \/ FinishTask(p)
    BY <1>3 DEF OpenTask, FinishTask
  <1>4. CASE MeterPage(p) \/ MeterCall(p)
    BY <1>4 DEF MeterPage, MeterCall, Meter
  <1>5. CASE \E amount \in Amounts \cup {0} : EmbedQuery(p, amount)
    BY <1>5 DEF EmbedQuery, Meter
  <1>6. CASE SetSeen(p)
    <2>1. NoFault \/ Fault({})
      BY <1>6 DEF SetSeen
    <2>2. Counters' /\ FaultsGrow /\ cut' = cut
      BY <1>6, <2>1, NothingCounts, FaultCounts DEF SetSeen, NoFault
    <2>3. raising' = raising \/ Begins(p)
      <3>1. CASE call[p].level = "GREEN"
        BY <1>6, <3>1 DEF SetSeen
      <3>2. CASE call[p].level # "GREEN"
        <4>1. call[p].level \in Levels
          BY DEF CostTypeOK, Call
        <4>2. call[p].level \in Keys /\ Severity(call[p].level) \in Ranks
          BY <3>2, <4>1, KeysOfTheGovernor
        <4>3. BeginRaise(p, call[p].level, Severity(call[p].level))
          BY <1>6, <3>2 DEF SetSeen
        <4> QED BY <4>2, <4>3 DEF Begins
      <3> QED BY <3>1, <3>2
    <2>4. p \in Raisers
      BY BudgetAssumption
    <2> QED BY <1>6, <2>2, <2>3, <2>4 DEF SetSeen, Apart
  <1> QED BY <1>1, <1>2, <1>3, <1>4, <1>5, <1>6 DEF Calling

LEMMA InvokeMoves ==
    ASSUME Counters, NEW p \in Callers, NEW tool \in Tools, NEW admin \in BOOLEAN,
           Invoke(p, tool, admin)
    PROVE  Counters' /\ Apart /\ cut' = cut /\ requests' \in 0 .. MaxRequests
  <1>1. Counters' /\ FaultsGrow /\ cut' = cut /\ requests' \in 0 .. MaxRequests
    BY RequestCounts DEF Invoke, NoFault
  <1>2. raising' = raising \/ BeginRaise(p, "l3deny", 1)
    BY DEF Invoke
  <1>3. p \in Raisers
    BY BudgetAssumption
  <1> QED BY <1>1, <1>2, <1>3, KeysOfTheGovernor DEF Invoke, Apart, Begins

LEMMA SignalMoves ==
    ASSUME Counters, CollectSignal
    PROVE  Counters' /\ Apart /\ cut' = cut
  <1> PICK m \in Monitors, key \in MonitorKeys, rank \in {1, 2} : Signal(m, key, rank)
    BY DEF CollectSignal
  <1>1. Counters' /\ FaultsGrow /\ cut' = cut
    BY RequestCounts DEF Signal, NoFault
  <1>2. m \in Raisers /\ key \in Keys \cup {None} /\ rank \in Ranks
    BY RaisersAssumption, KeysAssumption DEF Ranks
  <1>3. Begins(m)
    BY <1>2 DEF Signal, Begins
  <1> QED BY <1>1, <1>2, <1>3 DEF Signal, Apart, AlertsHold

LEMMA RaiseCounts ==
    ASSUME Counters, NEW p, Raising(p)
    PROVE  /\ Counters' /\ FaultsGrow
           /\ cut' \subseteq cut \cup Known(p)
           /\ \/ faults' = faults /\ cut' = cut
              \/ faults' # faults /\ (RaiseErr(p) \/ Cooldown(p))
  <1>1. CASE Bump(p) \/ InsertAlert(p) \/ Enqueue(p)
    BY <1>1, NothingCounts DEF Bump, InsertAlert, Enqueue, NoFault
  <1>2. CASE Cooldown(p)
    BY <1>2, NothingCounts, FaultCounts DEF Cooldown, NoFault
  <1>3. CASE RaiseErr(p)
    BY <1>3, FaultCounts DEF RaiseErr
  <1> QED BY <1>1, <1>2, <1>3 DEF Raising

LEMMA DispatchCounts ==
    ASSUME Counters, Dispatching
    PROVE  Counters' /\ FaultsGrow /\ cut' = cut
  <1>1. CASE DispatchTick \/ Mark
    BY <1>1, NothingCounts DEF DispatchTick, Mark, NoFault
  <1>2. CASE \E n \in dispatcher.batch, arrives, ok \in BOOLEAN : Post(n, arrives, ok)
    BY <1>2, NothingCounts DEF Post, NoFault
  <1>3. CASE DispatchErr
    BY <1>3, FaultCounts DEF DispatchErr
  <1> QED BY <1>1, <1>2, <1>3 DEF Dispatching

\* Alerts whose raise() a step may end.
Losable == UNION {Known(p) : p \in Raisers}

\* Every step of the two together is a move of the alert engine.
LEMMA Moves ==
    ASSUME Counters, CostTypeOK, [Next]_vars
    PROVE  Counters' /\ AlertMove /\ FaultsGrow /\ cut' \subseteq cut \cup Losable
  <1> DEFINE Goal == Counters' /\ AlertMove /\ FaultsGrow /\ cut' \subseteq cut \cup Losable
  <1>1. CASE UNCHANGED vars
    BY <1>1, BoundsAreNat DEF vars, alertVars, AlertMove, Apart, AlertsHold, FaultsGrow, Counters
  <1>2. ASSUME NEW p \in Callers, NEW tool \in Tools, NEW admin \in BOOLEAN,
               Invoke(p, tool, admin)
        PROVE  Goal
    BY <1>2, InvokeMoves DEF AlertMove, Apart
  <1>3. ASSUME NEW p \in Callers, Calling(p)
        PROVE  Goal
    BY <1>3, CallingMoves DEF AlertMove, Apart
  <1>4. ASSUME NEW p \in Raisers, RaiseStep(p)
        PROVE  Goal
    BY <1>4, RaiseCounts DEF RaiseStep, AlertMove, Losable
  <1>5. CASE (\E amount \in Amounts : Spend(amount)) \/ CacheExpires \/ Midnight
    BY <1>5, QuietIsApart, OutsideIsApart
       DEF Spend, CacheExpires, Midnight, AlertMove, Apart
  <1>6. CASE CollectSignal
    BY <1>6, SignalMoves DEF AlertMove, Apart
  <1>7. CASE Acknowledge
    <2> PICK i \in DOMAIN alerts : SetStatus(i)
      BY <1>7 DEF Acknowledge
    <2> QED BY EventCounts DEF SetStatus, AlertMove, EventOnly
  <1>8. CASE DispatcherStep
    BY <1>8, DispatchCounts DEF DispatcherStep, AlertMove
  <1>9. CASE TimePasses
    BY <1>9, EventCounts DEF TimePasses, HourPasses, AlertMove, EventOnly
  <1>10. CASE Restart
    <2>1. AlertsRestart
      BY <1>10 DEF Restart
    <2> QED BY <2>1, FaultCounts DEF AlertsRestart, AlertMove, Losable
  <1> QED
    BY <1>1, <1>2, <1>3, <1>4, <1>5, <1>6, <1>7, <1>8, <1>9, <1>10 DEF Next

-----------------------------------------------------------------------------
\* Type correctness.

LEMMA NotRaisingType == NotRaising \in Raise
  BY BoundsAreNat DEF NotRaising, Raise, Ranks

\* raise() goes on to another statement.
LEMMA RaisingType ==
    ASSUME AlertsTypeOK, NEW p \in Raisers, Begins(p) \/ Raising(p)
    PROVE  raising' \in [Raisers -> Raise]
  <1> DEFINE r == raising[p]
  <1>0. r \in Raise /\ raising \in [Raisers -> Raise] /\ Len(alerts) \in Nat
    BY DEF AlertsTypeOK
  <1>1. CASE Begins(p)
    <2> PICK key \in Keys \cup {None}, rank \in Ranks : BeginRaise(p, key, rank)
      BY <1>1 DEF Begins
    <2>1. [NotRaising EXCEPT !.pc = IF key = None THEN "insert" ELSE "bump",
                             !.key = key, !.rank = rank] \in Raise
      BY NotRaisingType DEF Raise
    <2> QED BY <1>0, <2>1 DEF BeginRaise
  <1>2. CASE Bump(p)
    <2>1. [r EXCEPT !.pc = "insert", !.looked = Len(alerts)] \in Raise
      BY <1>0 DEF Raise
    <2> QED BY <1>0, <1>2, <2>1, NotRaisingType DEF Bump
  <1>3. CASE InsertAlert(p)
    <2>1. Len(alerts) + 1 \in 0 .. MaxRequests
      BY <1>0, <1>3, BoundsAreNat DEF InsertAlert
    <2> DEFINE pc == IF r.key \in MonitorKeys THEN "cooldown" ELSE "enqueue"
    <2>2. [r EXCEPT !.alert = Len(alerts) + 1, !.pc = pc] \in Raise
      BY <1>0, <2>1 DEF Raise
    <2>3. raising' = [raising EXCEPT ![p] = [r EXCEPT !.alert = Len(alerts) + 1, !.pc = pc]]
      BY <1>0, <1>3 DEF InsertAlert
    <2> QED BY <1>0, <2>2, <2>3
  <1>4. CASE Cooldown(p)
    <2>1. [r EXCEPT !.pc = "enqueue"] \in Raise
      BY <1>0 DEF Raise
    <2> QED BY <1>0, <1>4, <2>1, NotRaisingType DEF Cooldown
  <1>5. CASE Enqueue(p)
    <2>1. [r EXCEPT !.channel = r.channel + 1] \in Raise
      BY <1>0 DEF Raise
    <2> QED BY <1>0, <1>5, <2>1, NotRaisingType DEF Enqueue
  <1>6. CASE RaiseErr(p)
    BY <1>0, <1>6, NotRaisingType DEF RaiseErr
  <1> QED BY <1>1, <1>2, <1>3, <1>4, <1>5, <1>6 DEF Raising

\* The rows of alerts: how a step may change one, and that it adds at most one.
Same(a, b) == b.key = a.key /\ b.rank = a.rank /\ b.looked = a.looked

LEMMA AlertRows ==
    ASSUME AlertsTypeOK, NEW p \in Raisers, Raising(p)
    PROVE  /\ alerts' \in Seq(Alert) /\ Len(alerts') <= MaxRequests
           /\ DOMAIN alerts \subseteq DOMAIN alerts'
           /\ \A i \in DOMAIN alerts :
                  /\ Same(alerts[i], alerts'[i])
                  /\ alerts'[i].open = alerts[i].open
                  /\ alerts'[i].at + BumpWindow > clock => Fresh(i)
  <1>0. alerts \in Seq(Alert) /\ Len(alerts) \in Nat /\ Len(alerts) <= MaxRequests /\ clock \in Nat
    BY BoundsAreNat DEF AlertsTypeOK
  <1>1. CASE Bump(p)
    <2> DEFINE found == Absorbing(raising[p].key)
    <2>1. alerts' = [i \in DOMAIN alerts |->
              IF i \in found THEN [alerts[i] EXCEPT !.at = clock] ELSE alerts[i]]
      BY <1>1 DEF Bump
    <2>2. ASSUME NEW i \in DOMAIN alerts
          PROVE  /\ alerts'[i] \in Alert /\ Same(alerts[i], alerts'[i])
                 /\ alerts'[i].open = alerts[i].open
                 /\ alerts'[i].at + BumpWindow > clock => Fresh(i)
      <3>1. alerts[i] \in Alert
        BY <1>0
      <3>2. CASE i \in found
        <4>1. alerts'[i] = [alerts[i] EXCEPT !.at = clock]
          BY <2>1, <3>2
        <4>2. Fresh(i)
          BY <3>2 DEF Absorbing
        <4> QED BY <1>0, <3>1, <4>1, <4>2 DEF Alert, Same
      <3>3. CASE i \notin found
        BY <2>1, <3>1, <3>3 DEF Same, Fresh
      <3> QED BY <3>2, <3>3
    <2>3. DOMAIN alerts' = 1 .. Len(alerts)
      BY <1>0, <2>1
    <2>4. alerts' \in Seq(Alert)
      <3> DEFINE row(i) == IF i \in found THEN [alerts[i] EXCEPT !.at = clock] ELSE alerts[i]
      <3>0. alerts' = [i \in 1 .. Len(alerts) |-> row(i)] /\ DOMAIN alerts = 1 .. Len(alerts)
        BY <1>0, <2>1
      <3>2. \A i \in 1 .. Len(alerts) : row(i) \in Alert
        BY <2>2, <3>0
      <3> HIDE DEF row
      <3>1. alerts' \in [1 .. Len(alerts) -> Alert]
        BY <3>0, <3>2
      <3> QED BY <1>0, <3>1, SeqDef
    <2> QED BY <1>0, <2>2, <2>3, <2>4
  <1>2. CASE InsertAlert(p)
    <2> DEFINE row == [key |-> raising[p].key, rank |-> raising[p].rank, open |-> TRUE,
                       at |-> clock, looked |-> raising[p].looked]
    <2>1. row \in Alert
      BY <1>0 DEF AlertsTypeOK, Raise, Alert
    <2>2. alerts' = Append(alerts, row) /\ Len(alerts) < MaxRequests
      BY <1>2 DEF InsertAlert
    <2> HIDE DEF row
    <2> QED BY <1>0, <2>1, <2>2, BoundsAreNat DEF Same, Fresh
  <1>3. CASE Cooldown(p) \/ Enqueue(p) \/ RaiseErr(p)
    <2>1. alerts' = alerts
      BY <1>3 DEF Cooldown, Enqueue, RaiseErr
    <2> QED BY <1>0, <2>1 DEF Same, Fresh
  <1> QED BY <1>1, <1>2, <1>3 DEF Raising

LEMMA DeliveryTypes ==
    /\ NoDelivery \in Delivery
    /\ [NoDelivery EXCEPT !.status = "PENDING"] \in Delivery
    /\ clock \in Nat => \A d \in Delivery, ok \in BOOLEAN : Outcome(d, ok) \in Delivery
  <1>1. NoDelivery \in Delivery /\ [NoDelivery EXCEPT !.status = "PENDING"] \in Delivery
    BY DEF NoDelivery, Delivery
  <1>2. ASSUME NEW d \in Delivery, NEW ok \in BOOLEAN, clock \in Nat
        PROVE  Outcome(d, ok) \in Delivery
    <2> DEFINE st == IF ok THEN "DELIVERED"
                     ELSE IF d.attempts >= Retries THEN "FAILED" ELSE d.status
               at == IF ok THEN clock ELSE d.at
    <2>1. Outcome(d, ok) = [d EXCEPT !.attempts = d.attempts + 1, !.status = st, !.at = at]
      BY DEF Outcome
    <2>2. d.attempts + 1 \in Nat /\ d.status \in {"none", "PENDING", "DELIVERED", "FAILED"} /\ d.at \in Nat
      BY DEF Delivery
    <2>3. st \in {"none", "PENDING", "DELIVERED", "FAILED"} /\ at \in Nat
      BY <1>2, <2>2
    <2> HIDE DEF st, at
    <2> QED BY <2>1, <2>2, <2>3 DEF Delivery
  <1> QED BY <1>1, <1>2

LEMMA DispatchType ==
    ASSUME AlertsTypeOK, Dispatching
    PROVE  /\ dispatcher' \in Dispatch
           /\ deliveries' \in [Notices -> Delivery]
           /\ posts' \in [Notices -> Nat]
  <1>0. /\ dispatcher \in Dispatch /\ deliveries \in [Notices -> Delivery]
        /\ posts \in [Notices -> Nat] /\ clock \in Nat
    BY BoundsAreNat DEF AlertsTypeOK
  <1>1. CASE DispatchTick
    <2> PICK batch \in SUBSET Pending :
            dispatcher' = [Idle EXCEPT !.pc = "post", !.batch = batch]
      BY <1>1 DEF DispatchTick
    <2>1. batch \in SUBSET Notices
      BY DEF Pending
    <2>2. dispatcher' \in Dispatch
      BY <2>1 DEF Idle, Dispatch
    <2> QED BY <1>0, <1>1, <2>2 DEF DispatchTick
  <1>2. ASSUME NEW n \in dispatcher.batch, NEW arrives \in BOOLEAN, NEW ok \in BOOLEAN,
               Post(n, arrives, ok)
        PROVE  dispatcher' \in Dispatch /\ posts' \in [Notices -> Nat] /\ deliveries' = deliveries
    <2>1. n \in Notices
      BY <1>0 DEF Dispatch
    <2>2. dispatcher' \in Dispatch
      BY <1>0, <1>2, <2>1 DEF Post, Dispatch
    <2> QED BY <1>0, <1>2, <2>1, <2>2 DEF Post
  <1>3. CASE Mark
    <2>1. dispatcher.ok \in BOOLEAN
      BY <1>0 DEF Dispatch
    <2>2. \A n \in Notices : Outcome(deliveries[n], dispatcher.ok) \in Delivery
      BY <1>0, <2>1, DeliveryTypes
    <2>3. deliveries' \in [Notices -> Delivery]
      BY <1>0, <1>3, <2>2 DEF Mark
    <2> DEFINE left == dispatcher.batch \ {dispatcher.row}
    <2>4. left \in SUBSET Notices
      BY <1>0 DEF Dispatch
    <2>5. dispatcher' = IF left = {} THEN Idle ELSE [Idle EXCEPT !.pc = "post", !.batch = left]
      BY <1>3 DEF Mark
    <2> HIDE DEF left
    <2>6. dispatcher' \in Dispatch
      BY <2>4, <2>5 DEF Idle, Dispatch
    <2> QED BY <1>0, <1>3, <2>3, <2>6 DEF Mark
  <1>4. CASE DispatchErr
    BY <1>0, <1>4 DEF DispatchErr, Idle, Dispatch
  <1> QED BY <1>0, <1>1, <1>2, <1>3, <1>4 DEF Dispatching

LEMMA SetStatusRows ==
    ASSUME AlertsTypeOK, NEW k \in DOMAIN alerts, SetStatus(k)
    PROVE  /\ alerts' \in Seq(Alert) /\ Len(alerts') = Len(alerts)
           /\ DOMAIN alerts' = DOMAIN alerts
           /\ \A i \in DOMAIN alerts :
                  /\ Same(alerts[i], alerts'[i])
                  /\ alerts'[i].open => alerts'[i] = alerts[i]
  <1> DEFINE row == [alerts[k] EXCEPT !.open = FALSE, !.at = clock]
  <1>0. alerts \in Seq(Alert) /\ clock \in Nat /\ alerts[k] \in Alert
    BY BoundsAreNat DEF AlertsTypeOK
  <1>1. row \in Alert /\ Same(alerts[k], row) /\ row.open = FALSE
    BY <1>0 DEF Alert, Same
  <1>2. alerts' = [alerts EXCEPT ![k] = row]
    BY <1>0 DEF SetStatus
  <1> HIDE DEF row
  <1> QED BY <1>0, <1>1, <1>2 DEF Same

LEMMA AlertsType ==
    ASSUME AlertsTypeOK, Counters', AlertMove, cut' \subseteq cut \cup Losable
    PROVE  AlertsTypeOK'
  <1>0. cut' \subseteq Ids
    BY BoundsAreNat DEF AlertsTypeOK, Losable, Known, Ids, Raise
  <1> DEFINE Goal == /\ alerts' \in Seq(Alert) /\ Len(alerts') <= MaxRequests
                     /\ deliveries' \in [Notices -> Delivery]
                     /\ raising' \in [Raisers -> Raise]
                     /\ dispatcher' \in Dispatch
                     /\ clock' \in 0 .. MaxHours
                     /\ posts' \in [Notices -> Nat]
  <1> SUFFICES Goal
    BY <1>0 DEF AlertsTypeOK, Counters
  <1>1. CASE Apart
    BY <1>1, RaisingType DEF Apart, AlertsHold, AlertsTypeOK
  <1>2. ASSUME NEW p \in Raisers, Raising(p) PROVE Goal
    <2>1. raising' \in [Raisers -> Raise]
      BY <1>2, RaisingType
    <2>2. alerts' \in Seq(Alert) /\ Len(alerts') <= MaxRequests
      BY <1>2, AlertRows
    <2>3. dispatcher' = dispatcher /\ clock' = clock /\ posts' = posts
      BY <1>2 DEF Raising, Bump, InsertAlert, Cooldown, Enqueue, RaiseErr
    <2>4. deliveries' \in [Notices -> Delivery]
      <3>1. CASE Enqueue(p)
        BY <3>1, DeliveryTypes DEF Enqueue, AlertsTypeOK
      <3>2. CASE ~Enqueue(p)
        BY <1>2, <3>2 DEF Raising, Bump, InsertAlert, Cooldown, RaiseErr, AlertsTypeOK
      <3> QED BY <3>1, <3>2
    <2> QED BY <2>1, <2>2, <2>3, <2>4 DEF AlertsTypeOK
  <1>3. ASSUME NEW i \in DOMAIN alerts, SetStatus(i) PROVE Goal
    BY <1>3, SetStatusRows DEF SetStatus, AlertsTypeOK
  <1>4. CASE Dispatching
    <2>1. UNCHANGED <<alerts, raising, clock>>
      BY <1>4 DEF Dispatching, DispatchTick, Post, Mark, DispatchErr
    <2> QED BY <1>4, <2>1, DispatchType DEF AlertsTypeOK
  <1>5. CASE HourPasses
    BY <1>5, BoundsAreNat DEF HourPasses, AlertsTypeOK
  <1>6. CASE AlertsRestart
    <2>1. Idle \in Dispatch
      BY DEF Idle, Dispatch
    <2> QED BY <1>6, <2>1, NotRaisingType DEF AlertsRestart, AlertsTypeOK
  <1> QED BY <1>1, <1>2, <1>3, <1>4, <1>5, <1>6 DEF AlertMove

LEMMA NotCallingType == NotCalling \in Call
  BY BoundsAreNat DEF NotCalling, Nothing, Call, Usage, Levels

LEMMA LevelType == ASSUME NEW usage PROVE LevelOf(usage) \in Levels
  <1>1. Reaches(usage, 100) \in BOOLEAN /\ Reaches(usage, 90) \in BOOLEAN
        /\ Reaches(usage, 70) \in BOOLEAN
    BY DEF Reaches
  <1> QED BY <1>1 DEF LevelOf, Levels

CallPc ==
    {"idle", "denying", "usage", "sum", "fill", "seen", "set", "alerting", "sweep",
     "gate", "open", "work", "page", "finish", "meter"}

LEMMA GotoType ==
    ASSUME call \in [Callers -> Call], NEW p \in Callers, NEW pc \in CallPc, Goto(p, pc)
    PROVE  call' \in [Callers -> Call]
  <1>1. [call[p] EXCEPT !.pc = pc] \in Call
    BY DEF Call, CallPc
  <1> QED BY <1>1 DEF Goto

LEMMA AnswerType ==
    ASSUME call \in [Callers -> Call], NEW p \in Callers, Answer(p)
    PROVE  call' \in [Callers -> Call]
  BY NotCallingType DEF Answer

\* A call has its usage, from Redis or from the ledger.
LEMMA UsageType ==
    ASSUME call \in [Callers -> Call], NEW p \in Callers, NEW pc \in CallPc,
           NEW usage \in Usage,
           call' = [call EXCEPT ![p].pc = pc, ![p].usage = usage, ![p].level = LevelOf(usage)]
    PROVE  call' \in [Callers -> Call]
  <1> DEFINE level == LevelOf(usage)
  <1>1. level \in Levels
    BY LevelType
  <1>2. call' = [call EXCEPT ![p].pc = pc, ![p].usage = usage, ![p].level = level]
    OBVIOUS
  <1> HIDE DEF level
  <1>3. [call[p] EXCEPT !.pc = pc, !.usage = usage, !.level = level] \in Call
    BY <1>1 DEF Call, CallPc
  <1>4. call' = [call EXCEPT ![p] = [call[p] EXCEPT !.pc = pc, !.usage = usage, !.level = level]]
    BY <1>2
  <1> QED BY <1>3, <1>4

LEMMA MeterType ==
    ASSUME ledger \in Usage, NEW k \in Kinds, NEW amount \in Nat,
           Record(k, amount) \/ Meter(k, amount)
    PROVE  ledger' \in Usage
  BY DEF Record, Meter, Usage

LEMMA CallingType ==
    ASSUME CostTypeOK, NEW p \in Callers, Calling(p)
    PROVE  CostTypeOK'
  <1>0. /\ call \in [Callers -> Call] /\ ledger \in Usage /\ cached \in Usage \cup {None}
        /\ seen \in Levels /\ call[p] \in Call
        /\ tasks \in [1 .. MaxRequests -> {"none", "running", "completed", "terminated"}]
    BY DEF CostTypeOK
  <1> DEFINE Rest == UNCHANGED <<ledger, cached, seen, tasks, spends, days, missed>>
  <1>1. CASE call' \in [Callers -> Call] /\ Rest
    BY <1>1 DEF CostTypeOK
  <1>2. CASE Denied(p)
    BY <1>0, <1>1, <1>2, AnswerType DEF Denied
  <1>3. CASE GetCached(p)
    <2>1. CASE Goto(p, "sum")
      BY <1>0, <1>1, <1>3, <2>1, GotoType DEF GetCached, CallPc
    <2>2. CASE ~Goto(p, "sum")
      <3>1. /\ cached \in Usage
            /\ call' = [call EXCEPT ![p].pc = "seen", ![p].usage = cached,
                                    ![p].level = LevelOf(cached)]
        BY <1>0, <1>3, <2>2 DEF GetCached
      <3>2. "seen" \in CallPc
        BY DEF CallPc
      <3> QED BY <1>0, <1>1, <1>3, <3>1, <3>2, UsageType DEF GetCached
    <2> QED BY <2>1, <2>2
  <1>4. CASE SumLedger(p)
    <2>1. CASE Goto(p, "seen")
      BY <1>0, <1>1, <1>4, <2>1, GotoType DEF SumLedger, CallPc
    <2>2. CASE ~Goto(p, "seen")
      <3>1. call' = [call EXCEPT ![p].pc = "fill", ![p].usage = ledger,
                                 ![p].level = LevelOf(ledger)]
        BY <1>0, <1>4, <2>2 DEF SumLedger
      <3>2. "fill" \in CallPc
        BY DEF CallPc
      <3> QED BY <1>0, <1>1, <1>4, <3>1, <3>2, UsageType DEF SumLedger
    <2> QED BY <2>1, <2>2
  <1>5. CASE FillCache(p)
    <2>1. call' \in [Callers -> Call]
      BY <1>0, <1>5, GotoType DEF FillCache, CallPc
    <2>2. call[p].usage \in Usage
      BY <1>0 DEF Call
    <2> QED BY <1>5, <2>1, <2>2 DEF FillCache, CostTypeOK
  <1>6. CASE GetSeen(p)
    BY <1>0, <1>1, <1>6, GotoType DEF GetSeen, CallPc
  <1>7. CASE SetSeen(p)
    <2>1. call' \in [Callers -> Call]
      BY <1>0, <1>7, GotoType DEF SetSeen, CallPc
    <2>2. call[p].level \in Levels
      BY <1>0 DEF Call
    <2> QED BY <1>7, <2>1, <2>2 DEF SetSeen, CostTypeOK
  <1>8. CASE Alerted(p) \/ SweepTasks(p)
    BY <1>0, <1>1, <1>8, GotoType DEF Alerted, SweepTasks, CallPc
  <1>9. CASE Gate(p)
    <2>1. CASE Refused(p)
      BY <1>0, <1>1, <1>9, <2>1, AnswerType DEF Gate
    <2>2. CASE ~Refused(p)
      <3> DEFINE pc == CASE call[p].tool \in CrawlTools -> "open"
                         [] call[p].tool \in TokenTools -> "work"
                         [] OTHER -> "meter"
      <3>1. pc \in CallPc
        BY DEF CallPc
      <3>2. Goto(p, pc)
        BY <1>9, <2>2 DEF Gate
      <3> HIDE DEF pc
      <3> QED BY <1>0, <1>1, <1>9, <3>1, <3>2, GotoType DEF Gate
    <2> QED BY <2>1, <2>2
  <1>10. CASE OpenTask(p)
    <2>1. call' \in [Callers -> Call]
      BY <1>0, <1>10, GotoType DEF OpenTask, CallPc
    <2> QED BY <1>10, <2>1 DEF OpenTask, CostTypeOK
  <1>11. CASE Crawl(p)
    BY <1>0, <1>1, <1>11, GotoType DEF Crawl, CallPc
  <1>12. CASE MeterPage(p)
    <2>1. call' \in [Callers -> Call]
      BY <1>0, <1>12, GotoType DEF MeterPage, CallPc
    <2>2. ledger' \in Usage
      BY <1>0, <1>12, MeterType, BudgetAssumption DEF MeterPage
    <2> QED BY <1>12, <2>1, <2>2 DEF MeterPage, CostTypeOK
  <1>13. CASE FinishTask(p)
    <2>1. call' \in [Callers -> Call]
      BY <1>0, <1>13, GotoType DEF FinishTask, CallPc
    <2> QED BY <1>13, <2>1 DEF FinishTask, CostTypeOK
  <1>14. CASE MeterCall(p)
    <2>1. call' \in [Callers -> Call]
      BY <1>0, <1>14, AnswerType DEF MeterCall
    <2>2. ledger' \in Usage
      BY <1>0, <1>14, MeterType, BudgetAssumption DEF MeterCall
    <2> QED BY <1>14, <2>1, <2>2 DEF MeterCall, CostTypeOK
  <1>15. ASSUME NEW amount \in Amounts \cup {0}, EmbedQuery(p, amount)
         PROVE  CostTypeOK'
    <2>1. call' \in [Callers -> Call]
      BY <1>0, <1>15, GotoType DEF EmbedQuery, CallPc
    <2>2. ledger' \in Usage
      BY <1>0, <1>15, MeterType, BudgetAssumption DEF EmbedQuery
    <2> QED BY <1>15, <2>1, <2>2 DEF EmbedQuery, CostTypeOK
  <1> QED
    BY <1>2, <1>3, <1>4, <1>5, <1>6, <1>7, <1>8, <1>9, <1>10, <1>11, <1>12, <1>13,
       <1>14, <1>15 DEF Calling

LEMMA CostType ==
    ASSUME Counters, AlertsTypeOK, CostTypeOK, [Next]_vars
    PROVE  CostTypeOK'
  <1>0. /\ call \in [Callers -> Call] /\ ledger \in Usage /\ cached \in Usage \cup {None}
        /\ seen \in Levels /\ spends \in 0 .. MaxSpends /\ days \in 0 .. MaxDays
        /\ missed \subseteq Levels
    BY DEF CostTypeOK
  <1>1. CASE UNCHANGED vars
    BY <1>1 DEF vars, costVars, CostTypeOK
  <1>2. ASSUME NEW p \in Callers, NEW tool \in Tools, NEW admin \in BOOLEAN,
               Invoke(p, tool, admin)
        PROVE  CostTypeOK'
    <2> DEFINE pc == IF tool \in AdminTools /\ ~admin THEN "denying" ELSE "usage"
    <2>1. requests' \in 0 .. MaxRequests
      BY <1>2, InvokeMoves
    <2>2. [NotCalling EXCEPT !.pc = pc, !.tool = tool, !.task = requests'] \in Call
      BY <2>1, NotCallingType DEF Call
    <2>3. call' \in [Callers -> Call]
      BY <1>0, <1>2, <2>2 DEF Invoke
    <2> QED BY <1>2, <2>3 DEF Invoke, CostTypeOK
  <1>3. ASSUME NEW p \in Callers, Calling(p)
        PROVE  CostTypeOK'
    BY <1>3, CallingType
  <1>4. ASSUME NEW p \in Raisers, RaiseStep(p)
        PROVE  CostTypeOK'
    BY <1>4 DEF RaiseStep, CostTypeOK, callVars, Untold
  <1>5. CASE \E amount \in Amounts : Spend(amount)
    <2> PICK amount \in Amounts : Spend(amount)
      BY <1>5
    <2>1. ledger' \in Usage
      BY <1>0, MeterType, BudgetAssumption DEF Spend
    <2> QED BY <2>1, BoundsAreNat DEF Spend, CostTypeOK
  <1>6. CASE CacheExpires
    BY <1>6 DEF CacheExpires, CostTypeOK
  <1>7. CASE Midnight
    BY <1>7, BoundsAreNat DEF Midnight, CostTypeOK, Nothing, Usage
  <1>8. CASE CollectSignal \/ Acknowledge \/ DispatcherStep \/ TimePasses
    BY <1>8 DEF CollectSignal, Acknowledge, DispatcherStep, TimePasses, costVars, CostTypeOK
  <1>9. CASE Restart
    BY <1>9, NotCallingType DEF Restart, CostTypeOK, Untold
  <1> QED
    BY <1>1, <1>2, <1>3, <1>4, <1>5, <1>6, <1>7, <1>8, <1>9 DEF Next

LEMMA InitType == Init => TypeOK
  <1> SUFFICES ASSUME Init PROVE TypeOK
    OBVIOUS
  <1>1. Idle \in Dispatch /\ NoDelivery \in Delivery
    BY DEF Idle, Dispatch, NoDelivery, Delivery
  <1>2. AlertsTypeOK
    BY <1>1, NotRaisingType, BoundsAreNat DEF Init, AlertsInit, AlertsTypeOK
  <1>3. CostTypeOK
    BY NotCallingType, BoundsAreNat DEF Init, CostInit, CostTypeOK, Nothing, Usage, Levels
  <1> QED BY <1>2, <1>3 DEF TypeOK

LEMMA NextType == TypeOK /\ [Next]_vars => TypeOK'
  <1> SUFFICES ASSUME TypeOK, [Next]_vars PROVE TypeOK'
    OBVIOUS
  <1>1. Counters /\ AlertsTypeOK /\ CostTypeOK
    BY DEF TypeOK, AlertsTypeOK, Counters
  <1>2. Counters' /\ AlertMove /\ cut' \subseteq cut \cup Losable
    BY <1>1, Moves
  <1> QED BY <1>1, <1>2, AlertsType, CostType DEF TypeOK

\* The governor and the alert engine keep their types.
THEOREM GovernanceTypes == Spec => []TypeOK
  BY InitType, NextType, PTL DEF Spec

-----------------------------------------------------------------------------
\* The strengthening: which rows a raise() has written, and which are still
\* missing; what the dispatcher holds.

Status(n) == deliveries[n].status

RaiseShape(p) ==
    /\ raising[p].looked <= Len(alerts)
    /\ raising[p].pc \notin {"cooldown", "enqueue"} => raising[p].alert = 0
    /\ raising[p].pc \in {"cooldown", "enqueue"} =>
           /\ raising[p].alert \in DOMAIN alerts
           /\ alerts[raising[p].alert].key = raising[p].key
           /\ alerts[raising[p].alert].rank = raising[p].rank
           /\ \A c \in DOMAIN Channels :
                  /\ c >= raising[p].channel => Status(<<raising[p].alert, c>>) = "none"
                  /\ c < raising[p].channel => Status(<<raising[p].alert, c>>) # "none"
    /\ raising[p].pc = "cooldown" => raising[p].key \in MonitorKeys
    /\ raising[p].pc # "enqueue" => raising[p].channel = 1
    /\ raising[p].channel >= 1

\* No two calls of raise() work on one alert.
OwnAlerts ==
    \A p, q \in Raisers :
        p # q /\ raising[p].alert = raising[q].alert => raising[p].alert = 0

\* A row exists once its alert does; a new one has had no attempt.
RowShape ==
    \A n \in Notices :
        /\ n[1] \notin DOMAIN alerts => Status(n) = "none"
        /\ Status(n) = "none" => deliveries[n].attempts = 0

\* The dispatcher, the only one that settles rows, holds pending rows, and
\* marks a row as delivered after its channel took it.
BatchShape ==
    /\ \A n \in dispatcher.batch : Status(n) = "PENDING"
    /\ dispatcher.pc = "mark" =>
           /\ dispatcher.row \in dispatcher.batch
           /\ dispatcher.ok => posts[dispatcher.row] > 0

AlertShape ==
    /\ \A p \in Raisers : RaiseShape(p)
    /\ OwnAlerts
    /\ RowShape
    /\ BatchShape

\* A raise() that is left alone keeps its shape, when rows are only added to
\* alerts and no delivery of its alert appears.
LEMMA ShapeKept ==
    ASSUME AlertsTypeOK, NEW p \in Raisers, RaiseShape(p), raising'[p] = raising[p],
           Len(alerts') >= Len(alerts), Len(alerts') \in Nat,
           \A i \in DOMAIN alerts : i \in DOMAIN alerts' /\ Same(alerts[i], alerts'[i]),
           \A c \in DOMAIN Channels :
               raising[p].alert # 0 =>
                   (Status(<<raising[p].alert, c>>)' = "none"
                        <=> Status(<<raising[p].alert, c>>) = "none")
    PROVE  RaiseShape(p)'
  <1>0. raising[p] \in Raise /\ Len(alerts) \in Nat
    BY DEF AlertsTypeOK
  <1>1. raising'[p].looked <= Len(alerts')
    BY <1>0 DEF RaiseShape, Raise
  <1>2. ASSUME raising[p].pc \in {"cooldown", "enqueue"}
        PROVE  /\ raising[p].alert \in DOMAIN alerts'
               /\ alerts'[raising[p].alert].key = raising[p].key
               /\ alerts'[raising[p].alert].rank = raising[p].rank
               /\ raising[p].alert # 0
    <2>1. raising[p].alert \in DOMAIN alerts
      BY <1>2 DEF RaiseShape
    <2>2. DOMAIN alerts = 1 .. Len(alerts)
      BY DEF AlertsTypeOK
    <2> QED BY <1>0, <1>2, <2>1, <2>2 DEF RaiseShape, Same
  <1> QED BY <1>1, <1>2 DEF RaiseShape

\* So does one that ends or begins.
LEMMA ShapeFresh ==
    ASSUME NEW p \in Raisers, Len(alerts') \in Nat,
           raising'[p].pc \in {"idle", "bump", "insert"}, raising'[p].alert = 0,
           raising'[p].looked = 0, raising'[p].channel = 1
    PROVE  RaiseShape(p)'
  BY DEF RaiseShape

LEMMA ShapeEnded ==
    ASSUME NEW p \in Raisers, Len(alerts') \in Nat, raising'[p] = NotRaising
    PROVE  RaiseShape(p)' /\ raising'[p].alert = 0
  BY DEF RaiseShape, NotRaising

\* Steps that leave the rows as they are.
LEMMA SameRows ==
    ASSUME AlertsTypeOK, RowShape, deliveries' = deliveries,
           DOMAIN alerts \subseteq DOMAIN alerts'
    PROVE  RowShape'
  BY DEF RowShape, Status

LEMMA SameBatch ==
    ASSUME BatchShape, UNCHANGED <<deliveries, dispatcher, posts>>
    PROVE  BatchShape'
  BY DEF BatchShape, Status

\* A raise() that begins, or none.
LEMMA ApartShape ==
    ASSUME AlertsTypeOK, AlertShape, Apart
    PROVE  AlertShape'
  <1>0. raising \in [Raisers -> Raise] /\ Len(alerts) \in Nat /\ UNCHANGED <<alerts, deliveries, dispatcher, posts>>
    BY DEF AlertsTypeOK, Apart, AlertsHold
  <1>1. RowShape' /\ BatchShape'
    BY <1>0, SameRows, SameBatch DEF AlertShape
  <1>2. ASSUME NEW q \in Raisers, raising'[q] = raising[q]
        PROVE  RaiseShape(q)'
    BY <1>0, <1>2, ShapeKept DEF AlertShape, Same, Status
  <1>3. CASE raising' = raising
    BY <1>1, <1>2, <1>3 DEF AlertShape, OwnAlerts
  <1>4. ASSUME NEW p \in Raisers, Begins(p)
        PROVE  AlertShape'
    <2> PICK key \in Keys \cup {None}, rank \in Ranks : BeginRaise(p, key, rank)
      BY <1>4 DEF Begins
    <2> DEFINE pc == IF key = None THEN "insert" ELSE "bump"
    <2>1. /\ raising'[p] = [NotRaising EXCEPT !.pc = pc, !.key = key, !.rank = rank]
          /\ \A q \in Raisers : q # p => raising'[q] = raising[q]
      BY <1>0 DEF BeginRaise
    <2>2. pc \in {"idle", "bump", "insert"}
      OBVIOUS
    <2> HIDE DEF pc
    <2>a. Len(alerts') \in Nat
      BY <1>0
    <2>b. /\ raising'[p].pc \in {"idle", "bump", "insert"} /\ raising'[p].alert = 0
          /\ raising'[p].looked = 0 /\ raising'[p].channel = 1
      BY <2>1, <2>2 DEF NotRaising
    <2>3. RaiseShape(p)' /\ raising'[p].alert = 0
      BY <2>a, <2>b, ShapeFresh
    <2>4. \A q \in Raisers : RaiseShape(q)'
      BY <1>2, <2>1, <2>3
    <2>5. OwnAlerts'
      BY <2>1, <2>3 DEF AlertShape, OwnAlerts
    <2> QED BY <1>1, <2>4, <2>5 DEF AlertShape
  <1> QED BY <1>3, <1>4 DEF Apart

\* A statement of raise() by p, whose own shape and row are dealt with apart.
LEMMA RaisingFrame ==
    ASSUME AlertsTypeOK, AlertShape, NEW p \in Raisers, Raising(p)
    PROVE  /\ Len(alerts') \in Nat /\ Len(alerts') >= Len(alerts)
           /\ \A i \in DOMAIN alerts : i \in DOMAIN alerts' /\ Same(alerts[i], alerts'[i])
           /\ \A q \in Raisers : q # p => raising'[q] = raising[q]
           /\ UNCHANGED <<dispatcher, posts, clock>>
  <1>0. raising \in [Raisers -> Raise] /\ alerts \in Seq(Alert)
    BY DEF AlertsTypeOK
  <1>1. /\ alerts' \in Seq(Alert) /\ DOMAIN alerts \subseteq DOMAIN alerts'
        /\ \A i \in DOMAIN alerts : Same(alerts[i], alerts'[i])
    BY AlertRows
  <1>2. Len(alerts') \in Nat /\ Len(alerts') >= Len(alerts)
    <2>1. Len(alerts) \in Nat /\ Len(alerts') \in Nat
          /\ DOMAIN alerts = 1 .. Len(alerts) /\ DOMAIN alerts' = 1 .. Len(alerts')
      BY <1>0, <1>1
    <2>2. CASE Len(alerts) = 0
      BY <2>1, <2>2
    <2>3. CASE Len(alerts) > 0
      <3>1. Len(alerts) \in DOMAIN alerts'
        BY <1>1, <2>1, <2>3
      <3> QED BY <2>1, <3>1
    <2> QED BY <2>1, <2>2, <2>3
  <1>3. \A q \in Raisers : q # p => raising'[q] = raising[q]
    BY <1>0 DEF Raising, Bump, InsertAlert, Cooldown, Enqueue, RaiseErr
  <1>4. UNCHANGED <<dispatcher, posts, clock>>
    BY DEF Raising, Bump, InsertAlert, Cooldown, Enqueue, RaiseErr
  <1> QED BY <1>1, <1>2, <1>3, <1>4

LEMMA BumpShape ==
    ASSUME AlertsTypeOK, AlertShape, NEW p \in Raisers, Bump(p)
    PROVE  RaiseShape(p)' /\ raising'[p].alert = 0 /\ deliveries' = deliveries
  <1>0. raising \in [Raisers -> Raise] /\ raising[p] \in Raise
    BY DEF AlertsTypeOK
  <1>1. Len(alerts') \in Nat /\ Len(alerts') >= Len(alerts) /\ Len(alerts) \in Nat
    BY RaisingFrame DEF Raising, AlertsTypeOK
  <1>2. raising[p].alert = 0 /\ raising[p].channel = 1
    BY DEF AlertShape, RaiseShape, Bump
  <1>3. raising'[p] = NotRaising \/ raising'[p] = [raising[p] EXCEPT !.pc = "insert", !.looked = Len(alerts)]
    BY <1>0 DEF Bump
  <1>4. /\ raising'[p].pc \in {"idle", "insert"} /\ raising'[p].alert = 0
        /\ raising'[p].channel = 1 /\ raising'[p].looked <= Len(alerts')
    <2>1. CASE raising'[p] = NotRaising
      BY <1>1, <2>1 DEF NotRaising
    <2>2. CASE raising'[p] = [raising[p] EXCEPT !.pc = "insert", !.looked = Len(alerts)]
      <3>1. /\ raising'[p].pc = "insert" /\ raising'[p].alert = raising[p].alert
            /\ raising'[p].channel = raising[p].channel
            /\ raising'[p].looked = Len(alerts)
        BY <1>0, <2>2 DEF Raise
      <3> QED BY <1>1, <1>2, <3>1
    <2> QED BY <1>3, <2>1, <2>2
  <1> QED BY <1>4 DEF RaiseShape, Bump

LEMMA InsertShape ==
    ASSUME AlertsTypeOK, AlertShape, NEW p \in Raisers, InsertAlert(p)
    PROVE  /\ RaiseShape(p)' /\ deliveries' = deliveries
           /\ raising'[p].alert = Len(alerts) + 1
           /\ Len(alerts') = Len(alerts) + 1
           /\ alerts'[Len(alerts) + 1].key = raising[p].key
           /\ alerts'[Len(alerts) + 1].looked = raising[p].looked
           /\ \A i \in DOMAIN alerts : alerts'[i] = alerts[i]
  <1> DEFINE k == Len(alerts) + 1
             row == [key |-> raising[p].key, rank |-> raising[p].rank, open |-> TRUE,
                     at |-> clock, looked |-> raising[p].looked]
             pc == IF raising[p].key \in MonitorKeys THEN "cooldown" ELSE "enqueue"
  <1>0. /\ raising \in [Raisers -> Raise] /\ raising[p] \in Raise /\ Len(alerts) \in Nat
        /\ alerts \in Seq(Alert)
    BY DEF AlertsTypeOK
  <1>1. alerts' = Append(alerts, row) /\ Len(alerts) < MaxRequests /\ deliveries' = deliveries
    BY DEF InsertAlert
  <1>2. raising'[p] = [raising[p] EXCEPT !.alert = k, !.pc = pc]
    BY <1>0 DEF InsertAlert
  <1>3. row.key = raising[p].key /\ row.rank = raising[p].rank /\ row.looked = raising[p].looked
    OBVIOUS
  <1> HIDE DEF row
  <1>4. /\ Len(alerts') = k /\ k \in DOMAIN alerts' /\ alerts'[k] = row
        /\ \A i \in DOMAIN alerts : alerts'[i] = alerts[i]
    BY <1>0, <1>1
  <1>5. raising[p].channel = 1 /\ raising[p].looked <= Len(alerts)
    BY DEF AlertShape, RaiseShape, InsertAlert
  <1>6. /\ raising'[p].alert = k /\ raising'[p].pc = pc /\ raising'[p].channel = 1
        /\ raising'[p].key = raising[p].key /\ raising'[p].rank = raising[p].rank
        /\ raising'[p].looked <= Len(alerts')
    BY <1>0, <1>2, <1>4, <1>5 DEF Raise
  <1>7. \A c \in DOMAIN Channels : deliveries'[<<k, c>>].status = "none"
    <2> TAKE c \in DOMAIN Channels
    <2>1. <<k, c>> \in Notices /\ k \notin DOMAIN alerts
      BY <1>0, <1>1, ChannelsAssumption, BoundsAreNat DEF Notices, Ids
    <2> QED BY <1>1, <2>1 DEF AlertShape, RowShape, Status
  <1>8. \A c \in DOMAIN Channels : ~(c < 1)
    BY ChannelsAssumption
  <1>9. pc \in {"cooldown", "enqueue"} /\ (pc = "cooldown" => raising[p].key \in MonitorKeys)
    OBVIOUS
  <1> HIDE DEF pc, k
  <1>10. RaiseShape(p)'
    BY <1>3, <1>4, <1>6, <1>7, <1>8, <1>9 DEF RaiseShape, Status
  <1> QED BY <1>1, <1>3, <1>4, <1>6, <1>10 DEF k

LEMMA CooldownShape ==
    ASSUME AlertsTypeOK, AlertShape, NEW p \in Raisers, Cooldown(p)
    PROVE  /\ RaiseShape(p)' /\ deliveries' = deliveries /\ alerts' = alerts
           /\ raising'[p].alert \in {0, raising[p].alert}
  <1>0. raising \in [Raisers -> Raise] /\ raising[p] \in Raise /\ Len(alerts) \in Nat
    BY DEF AlertsTypeOK
  <1>1. alerts' = alerts /\ deliveries' = deliveries
    BY DEF Cooldown
  <1>2. raising'[p] = NotRaising \/ raising'[p] = [raising[p] EXCEPT !.pc = "enqueue"]
    BY <1>0 DEF Cooldown
  <1>3. CASE raising'[p] = NotRaising
    BY <1>0, <1>1, <1>3, ShapeEnded
  <1>4. CASE raising'[p] = [raising[p] EXCEPT !.pc = "enqueue"]
    <2>1. /\ raising'[p].pc = "enqueue" /\ raising'[p].alert = raising[p].alert
          /\ raising'[p].key = raising[p].key /\ raising'[p].rank = raising[p].rank
          /\ raising'[p].channel = raising[p].channel
          /\ raising'[p].looked = raising[p].looked
      BY <1>0, <1>4 DEF Raise
    <2>2. RaiseShape(p) /\ raising[p].pc = "cooldown"
      BY DEF AlertShape, Cooldown
    <2> QED BY <1>1, <2>1, <2>2 DEF RaiseShape, Status
  <1> QED BY <1>1, <1>2, <1>3, <1>4

\* The row that an INSERT of raise() adds.
LEMMA EnqueueRow ==
    ASSUME AlertsTypeOK, AlertShape, NEW p \in Raisers, Enqueue(p)
    PROVE  /\ alerts' = alerts
           /\ \/ deliveries' = deliveries
              \/ LET n == <<raising[p].alert, raising[p].channel>>
                 IN  /\ n \in Notices /\ Status(n) = "none"
                     /\ deliveries' = [deliveries EXCEPT ![n] = [NoDelivery EXCEPT !.status = "PENDING"]]
                     /\ deliveries'[n].status = "PENDING"
                     /\ deliveries'[n].attempts = 0
  <1> DEFINE n == <<raising[p].alert, raising[p].channel>>
  <1>0. /\ raising[p] \in Raise /\ deliveries \in [Notices -> Delivery]
        /\ Len(Channels) \in Nat /\ DOMAIN Channels = 1 .. Len(Channels)
        /\ alerts \in Seq(Alert) /\ Len(alerts) <= MaxRequests
    BY ChannelsAssumption DEF AlertsTypeOK
  <1>1. alerts' = alerts
    BY DEF Enqueue
  <1>2. CASE deliveries' = deliveries
    BY <1>1, <1>2
  <1>3. CASE deliveries' # deliveries
    <2>1. /\ raising[p].channel <= Len(Channels)
          /\ deliveries' = [deliveries EXCEPT ![n] = [NoDelivery EXCEPT !.status = "PENDING"]]
      BY <1>3 DEF Enqueue
    <2>2. /\ raising[p].alert \in DOMAIN alerts /\ raising[p].channel >= 1
          /\ \A c \in DOMAIN Channels :
                 c >= raising[p].channel => Status(<<raising[p].alert, c>>) = "none"
      BY DEF AlertShape, RaiseShape, Enqueue
    <2>3. raising[p].channel \in DOMAIN Channels /\ raising[p].alert \in Ids
      BY <1>0, <2>1, <2>2, BoundsAreNat DEF Raise, Ids
    <2>4. n \in Notices /\ Status(n) = "none"
      BY <1>0, <2>2, <2>3 DEF Notices, Raise
    <2>5. deliveries'[n] = [NoDelivery EXCEPT !.status = "PENDING"]
      BY <1>0, <2>1, <2>4
    <2>6. deliveries'[n].status = "PENDING" /\ deliveries'[n].attempts = 0
      BY <2>5 DEF NoDelivery
    <2> QED BY <1>1, <2>1, <2>4, <2>6
  <1> QED BY <1>2, <1>3

LEMMA EnqueueShape ==
    ASSUME AlertsTypeOK, AlertShape, NEW p \in Raisers, Enqueue(p)
    PROVE  RaiseShape(p)' /\ raising'[p].alert \in {0, raising[p].alert}
  <1> DEFINE c == raising[p].channel
             n == <<raising[p].alert, c>>
  <1>0. /\ raising \in [Raisers -> Raise] /\ raising[p] \in Raise /\ Len(alerts) \in Nat
        /\ deliveries \in [Notices -> Delivery] /\ Len(Channels) \in Nat
        /\ DOMAIN Channels = 1 .. Len(Channels) /\ c \in Nat
    BY ChannelsAssumption DEF AlertsTypeOK, Raise
  <1>1. alerts' = alerts
    BY DEF Enqueue
  <1>2. CASE raising'[p] = NotRaising
    BY <1>0, <1>1, <1>2, ShapeEnded
  <1>3. CASE raising'[p] # NotRaising
    <2>1. /\ c < Len(Channels) /\ raising'[p] = [raising[p] EXCEPT !.channel = c + 1]
          /\ deliveries' = [deliveries EXCEPT ![n] = [NoDelivery EXCEPT !.status = "PENDING"]]
      BY <1>0, <1>3 DEF Enqueue
    <2>2. /\ raising'[p].pc = "enqueue" /\ raising'[p].alert = raising[p].alert
          /\ raising'[p].key = raising[p].key /\ raising'[p].rank = raising[p].rank
          /\ raising'[p].channel = c + 1
          /\ raising'[p].looked = raising[p].looked
      BY <1>0, <2>1 DEF Raise, Enqueue
    <2>3. RaiseShape(p) /\ raising[p].pc = "enqueue"
      BY DEF AlertShape, Enqueue
    <2>4. ASSUME NEW d \in DOMAIN Channels
          PROVE  /\ d >= c + 1 => deliveries'[<<raising[p].alert, d>>].status = "none"
                 /\ d < c + 1 => deliveries'[<<raising[p].alert, d>>].status # "none"
      <3>1. raising[p].alert \in Ids
        BY <1>0, <2>3, BoundsAreNat DEF RaiseShape, Raise, Ids, AlertsTypeOK
      <3>2. <<raising[p].alert, d>> \in Notices
        BY <1>0, <3>1 DEF Notices
      <3>3. CASE d = c
        <4>1. deliveries'[<<raising[p].alert, d>>] = [NoDelivery EXCEPT !.status = "PENDING"]
          BY <1>0, <2>1, <3>2, <3>3
        <4> QED BY <1>0, <3>3, <4>1 DEF NoDelivery
      <3>4. CASE d # c
        <4>1. deliveries'[<<raising[p].alert, d>>] = deliveries[<<raising[p].alert, d>>]
          BY <1>0, <2>1, <3>2, <3>4
        <4>2. (d >= c + 1 => d >= c) /\ (d < c + 1 => d < c)
          BY <1>0, <3>4
        <4> QED BY <2>3, <4>1, <4>2 DEF RaiseShape, Status
      <3> QED BY <3>3, <3>4
    <2>5. c >= 1 /\ c + 1 >= 1
      BY <1>0, <2>3 DEF RaiseShape
    <2>6. RaiseShape(p)'
      BY <1>1, <2>2, <2>3, <2>4, <2>5 DEF RaiseShape, Status
    <2> QED BY <2>2, <2>6
  <1> QED BY <1>0, <1>2, <1>3 DEF NotRaising

LEMMA RaisingShape ==
    ASSUME AlertsTypeOK, AlertShape, NEW p \in Raisers, Raising(p)
    PROVE  AlertShape'
  <1>0. /\ raising \in [Raisers -> Raise] /\ deliveries \in [Notices -> Delivery]
        /\ dispatcher \in Dispatch /\ Len(alerts) \in Nat /\ alerts \in Seq(Alert)
        /\ raising[p] \in Raise
    BY DEF AlertsTypeOK
  <1>1. /\ Len(alerts') \in Nat /\ Len(alerts') >= Len(alerts)
        /\ \A i \in DOMAIN alerts : i \in DOMAIN alerts' /\ Same(alerts[i], alerts'[i])
        /\ \A q \in Raisers : q # p => raising'[q] = raising[q]
        /\ UNCHANGED <<dispatcher, posts, clock>>
    BY RaisingFrame
  <1> DEFINE n == <<raising[p].alert, raising[p].channel>>
             Written == /\ n \in Notices /\ Status(n) = "none"
                        /\ deliveries' = [deliveries EXCEPT ![n] = [NoDelivery EXCEPT !.status = "PENDING"]]
                        /\ deliveries'[n].status = "PENDING"
                        /\ deliveries'[n].attempts = 0
  <1>2. deliveries' = deliveries \/ (Enqueue(p) /\ Written)
    BY EnqueueRow DEF Raising, Bump, InsertAlert, Cooldown, RaiseErr
  <1>3. /\ RaiseShape(p)'
        /\ raising'[p].alert \in {0, raising[p].alert, Len(alerts) + 1}
    <2>1. CASE RaiseErr(p)
      BY <1>0, <1>1, <2>1, ShapeEnded DEF RaiseErr
    <2> QED BY <2>1, BumpShape, InsertShape, CooldownShape, EnqueueShape DEF Raising
  <1>4. ASSUME NEW q \in Raisers, q # p
        PROVE  RaiseShape(q)' /\ (raising'[q].alert = raising'[p].alert => raising'[q].alert = 0)
    <2>1. raising'[q] = raising[q] /\ RaiseShape(q) /\ raising[q] \in Raise
      BY <1>0, <1>1, <1>4 DEF AlertShape
    <2>2. ASSUME NEW c \in DOMAIN Channels, raising[q].alert # 0
          PROVE  deliveries'[<<raising[q].alert, c>>] = deliveries[<<raising[q].alert, c>>]
      <3>1. CASE deliveries' = deliveries
        BY <3>1
      <3>2. CASE Written
        <4>1. raising[q].alert # raising[p].alert
          BY <1>4, <2>2 DEF AlertShape, OwnAlerts
        <4>2. <<raising[q].alert, c>> # n
          BY <4>1
        <4>3. raising[q].alert \in Ids
          BY <2>1, <2>2, BoundsAreNat DEF Raise, Ids
        <4>4. <<raising[q].alert, c>> \in Notices
          BY <4>3, ChannelsAssumption DEF Notices
        <4> QED BY <1>0, <3>2, <4>2, <4>4
      <3> QED BY <1>2, <3>1, <3>2
    <2>3. RaiseShape(q)'
      BY <1>1, <2>1, <2>2, ShapeKept DEF Status
    <2>4. raising[q].alert # 0 => raising[q].alert \in DOMAIN alerts
      BY <2>1 DEF RaiseShape
    <2>5. raising[q].alert # Len(alerts) + 1
      BY <1>0, <2>4
    <2>6. raising[q].alert = raising[p].alert => raising[q].alert = 0
      BY <1>4 DEF AlertShape, OwnAlerts
    <2> QED BY <1>3, <2>1, <2>3, <2>5, <2>6
  <1>5. OwnAlerts'
    <2> SUFFICES ASSUME NEW q \in Raisers, NEW r \in Raisers, q # r,
                        raising'[q].alert = raising'[r].alert
                 PROVE  raising'[q].alert = 0
      BY DEF OwnAlerts
    <2>1. CASE q = p \/ r = p
      BY <1>4, <2>1
    <2>2. CASE q # p /\ r # p
      BY <1>1, <2>2 DEF AlertShape, OwnAlerts
    <2> QED BY <2>1, <2>2
  <1>6. RowShape' /\ BatchShape'
    <2>1. CASE deliveries' = deliveries
      BY <1>0, <1>1, <2>1, SameRows, SameBatch DEF AlertShape
    <2>2. CASE Enqueue(p) /\ Written
      <3>1. \A m \in Notices : m # n => deliveries'[m] = deliveries[m]
        BY <1>0, <2>2
      <3>2. n[1] \in DOMAIN alerts
        BY <2>2 DEF AlertShape, RaiseShape, Enqueue
      <3>3. RowShape'
        BY <1>1, <2>2, <3>1, <3>2 DEF AlertShape, RowShape, Status
      <3>4. n \notin dispatcher.batch /\ dispatcher.batch \subseteq Notices
        BY <1>0, <2>2 DEF AlertShape, BatchShape, Dispatch
      <3>5. BatchShape'
        BY <1>1, <3>1, <3>4 DEF AlertShape, BatchShape, Status
      <3> QED BY <3>3, <3>5
    <2> QED BY <1>2, <2>1, <2>2
  <1>7. \A q \in Raisers : RaiseShape(q)'
    BY <1>3, <1>4
  <1> QED BY <1>5, <1>6, <1>7 DEF AlertShape

\* What marking makes of a row.
LEMMA OutcomeOf ==
    ASSUME NEW d \in Delivery, NEW ok \in BOOLEAN
    PROVE  /\ Outcome(d, ok).attempts = d.attempts + 1
           /\ Outcome(d, ok).status =
                  IF ok THEN "DELIVERED" ELSE IF d.attempts >= Retries THEN "FAILED" ELSE d.status
  BY DEF Outcome, Delivery

LEMMA MarkedRow ==
    ASSUME AlertsTypeOK, AlertShape, Mark
    PROVE  LET n == dispatcher.row IN
           /\ n \in Notices /\ n \in dispatcher.batch
           /\ Status(n) = "PENDING" /\ (dispatcher.ok => posts[n] > 0)
           /\ deliveries' = [deliveries EXCEPT ![n] = Outcome(deliveries[n], dispatcher.ok)]
           /\ deliveries'[n].attempts = deliveries[n].attempts + 1
           /\ deliveries'[n].status =
                  IF dispatcher.ok THEN "DELIVERED"
                  ELSE IF deliveries[n].attempts >= Retries THEN "FAILED" ELSE "PENDING"
           /\ deliveries'[n].status # "none"
           /\ \A m \in Notices \ {n} : deliveries'[m] = deliveries[m]
  <1> DEFINE n == dispatcher.row
  <1>0. dispatcher \in Dispatch /\ deliveries \in [Notices -> Delivery]
    BY DEF AlertsTypeOK
  <1>1. n \in dispatcher.batch /\ Status(n) = "PENDING" /\ (dispatcher.ok => posts[n] > 0)
    BY DEF AlertShape, BatchShape, Mark
  <1>2. n \in Notices /\ dispatcher.ok \in BOOLEAN
    BY <1>0, <1>1 DEF Dispatch
  <1>3. deliveries' = [deliveries EXCEPT ![n] = Outcome(deliveries[n], dispatcher.ok)]
    BY DEF Mark
  <1>4. deliveries'[n] = Outcome(deliveries[n], dispatcher.ok) /\ deliveries[n] \in Delivery
    BY <1>0, <1>2, <1>3
  <1>5. \A m \in Notices \ {n} : deliveries'[m] = deliveries[m]
    BY <1>0, <1>2, <1>3
  <1>6. /\ deliveries'[n].attempts = deliveries[n].attempts + 1
        /\ deliveries'[n].status =
               IF dispatcher.ok THEN "DELIVERED"
               ELSE IF deliveries[n].attempts >= Retries THEN "FAILED" ELSE "PENDING"
    BY <1>1, <1>2, <1>4, OutcomeOf DEF Status
  <1> QED BY <1>1, <1>2, <1>3, <1>5, <1>6

\* Settling rows neither creates nor removes one.
LEMMA SameExistence ==
    ASSUME AlertsTypeOK, AlertShape, Dispatching
    PROVE  /\ \A n \in Notices : deliveries'[n].status = "none" <=> Status(n) = "none"
           /\ UNCHANGED <<alerts, raising, clock>>
           /\ \A n \in Notices : Status(n) = "none" => deliveries'[n] = deliveries[n]
  <1>1. UNCHANGED <<alerts, raising, clock>>
    BY DEF Dispatching, DispatchTick, Post, Mark, DispatchErr
  <1>2. CASE Mark
    BY <1>1, <1>2, MarkedRow DEF Status
  <1>3. CASE ~Mark
    BY <1>1, <1>3 DEF Dispatching, DispatchTick, Post, DispatchErr, Status
  <1> QED BY <1>2, <1>3

LEMMA PostedRow ==
    ASSUME AlertsTypeOK, NEW n \in dispatcher.batch, NEW arrives \in BOOLEAN,
           NEW ok \in BOOLEAN, Post(n, arrives, ok)
    PROVE  /\ n \in Notices /\ posts \in [Notices -> Nat]
           /\ posts'[n] = (IF arrives THEN posts[n] + 1 ELSE posts[n])
           /\ \A m \in Notices : m # n => posts'[m] = posts[m]
           /\ posts' = [posts EXCEPT ![n] = posts'[n]]
           /\ dispatcher'.pc = "mark" /\ dispatcher'.row = n /\ dispatcher'.ok = ok
           /\ dispatcher'.batch = dispatcher.batch
           /\ dispatcher.pc = "post"
           /\ ok => posts'[n] > 0
           /\ UNCHANGED <<deliveries, faults>>
  <1>0. dispatcher \in Dispatch /\ posts \in [Notices -> Nat]
    BY DEF AlertsTypeOK
  <1>1. n \in Notices
    BY <1>0 DEF Dispatch
  <1>2. /\ posts' = [posts EXCEPT ![n] = IF arrives THEN posts[n] + 1 ELSE posts[n]]
        /\ dispatcher' = [dispatcher EXCEPT !.pc = "mark", !.row = n, !.ok = ok]
        /\ dispatcher.pc = "post" /\ (ok => arrives) /\ UNCHANGED <<deliveries, faults>>
    BY DEF Post, NoFault
  <1>3. /\ dispatcher'.pc = "mark" /\ dispatcher'.row = n /\ dispatcher'.ok = ok
        /\ dispatcher'.batch = dispatcher.batch
    BY <1>0, <1>2 DEF Dispatch
  <1>4. /\ posts'[n] = (IF arrives THEN posts[n] + 1 ELSE posts[n]) /\ posts[n] \in Nat
        /\ \A m \in Notices : m # n => posts'[m] = posts[m]
        /\ posts' = [posts EXCEPT ![n] = posts'[n]]
    BY <1>0, <1>1, <1>2
  <1> QED BY <1>0, <1>1, <1>2, <1>3, <1>4

LEMMA DispatchingShape ==
    ASSUME AlertsTypeOK, AlertShape, Dispatching
    PROVE  AlertShape'
  <1>0. /\ raising \in [Raisers -> Raise] /\ Len(alerts) \in Nat
        /\ dispatcher \in Dispatch /\ deliveries \in [Notices -> Delivery]
    BY DEF AlertsTypeOK
  <1>1. /\ UNCHANGED <<alerts, raising>>
        /\ \A n \in Notices : deliveries'[n].status = "none" <=> Status(n) = "none"
    BY SameExistence
  <1>2. ASSUME NEW q \in Raisers PROVE RaiseShape(q)'
    <2>1. ASSUME NEW c \in DOMAIN Channels, raising[q].alert # 0
          PROVE  <<raising[q].alert, c>> \in Notices
      <3>1. raising[q].alert \in Ids
        BY <1>0, <2>1, BoundsAreNat DEF Raise, Ids
      <3> QED BY <3>1, ChannelsAssumption DEF Notices
    <2> QED BY <1>0, <1>1, <2>1, ShapeKept DEF AlertShape, Same, Status
  <1>3. OwnAlerts'
    BY <1>1 DEF AlertShape, OwnAlerts
  <1>4. RowShape'
    BY <1>1, SameExistence DEF AlertShape, RowShape, Status
  <1>5. BatchShape'
    <2>1. CASE DispatchTick
      <3> PICK batch \in SUBSET Pending :
              dispatcher' = [Idle EXCEPT !.pc = "post", !.batch = batch]
        BY <2>1 DEF DispatchTick
      <3>1. dispatcher'.batch = batch /\ dispatcher'.pc = "post"
        BY DEF Idle
      <3> QED BY <2>1, <3>1 DEF DispatchTick, BatchShape, Pending, Status
    <2>2. ASSUME NEW n \in dispatcher.batch, NEW arrives \in BOOLEAN, NEW ok \in BOOLEAN,
                 Post(n, arrives, ok)
          PROVE  BatchShape'
      <3>1. /\ dispatcher'.pc = "mark" /\ dispatcher'.row = n /\ dispatcher'.ok = ok
            /\ dispatcher'.batch = dispatcher.batch /\ (ok => posts'[n] > 0)
            /\ deliveries' = deliveries
        BY <2>2, PostedRow
      <3> QED BY <3>1 DEF AlertShape, BatchShape, Status
    <2>3. CASE Mark
      <3> DEFINE left == dispatcher.batch \ {dispatcher.row}
      <3>1. \A m \in left : deliveries'[m] = deliveries[m]
        BY <1>0, <2>3, MarkedRow DEF Dispatch
      <3>2. \A m \in left : deliveries[m].status = "PENDING"
        BY DEF AlertShape, BatchShape, Status
      <3>3. dispatcher' = IF left = {} THEN Idle ELSE [Idle EXCEPT !.pc = "post", !.batch = left]
        BY <2>3 DEF Mark
      <3> HIDE DEF left
      <3>4. dispatcher'.pc # "mark" /\ dispatcher'.batch \subseteq left
        BY <3>3 DEF Idle
      <3> QED BY <3>1, <3>2, <3>4 DEF BatchShape, Status
    <2>4. CASE DispatchErr
      BY <2>4 DEF DispatchErr, BatchShape, Idle
    <2> QED BY <2>1, <2>2, <2>3, <2>4 DEF Dispatching
  <1> QED BY <1>2, <1>3, <1>4, <1>5 DEF AlertShape

LEMMA ShapeMoves ==
    ASSUME AlertsTypeOK, AlertShape, AlertMove
    PROVE  AlertShape'
  <1>0. Len(alerts) \in Nat /\ raising \in [Raisers -> Raise]
    BY DEF AlertsTypeOK
  <1>1. CASE Apart
    BY <1>1, ApartShape
  <1>2. ASSUME NEW p \in Raisers, Raising(p) PROVE AlertShape'
    BY <1>2, RaisingShape
  <1>3. ASSUME NEW i \in DOMAIN alerts, SetStatus(i) PROVE AlertShape'
    <2>1. /\ Len(alerts') = Len(alerts) /\ DOMAIN alerts' = DOMAIN alerts
          /\ \A j \in DOMAIN alerts : Same(alerts[j], alerts'[j])
          /\ UNCHANGED <<raising, deliveries, dispatcher, posts>>
      BY <1>3, SetStatusRows DEF SetStatus
    <2>2. \A q \in Raisers : RaiseShape(q)'
      BY <1>0, <2>1, ShapeKept DEF AlertShape, Status
    <2> QED BY <2>1, <2>2, SameRows, SameBatch DEF AlertShape, OwnAlerts
  <1>4. CASE Dispatching
    BY <1>4, DispatchingShape
  <1>5. CASE HourPasses
    <2>1. UNCHANGED <<alerts, raising, deliveries, dispatcher, posts>>
      BY <1>5 DEF HourPasses
    <2> QED BY <2>1 DEF AlertShape, RaiseShape, OwnAlerts, RowShape, BatchShape, Status
  <1>6. CASE AlertsRestart
    <2>1. /\ UNCHANGED <<alerts, deliveries, posts>> /\ dispatcher' = Idle
          /\ \A q \in Raisers : raising'[q] = NotRaising
      BY <1>6 DEF AlertsRestart
    <2>2. \A q \in Raisers : RaiseShape(q)' /\ raising'[q].alert = 0
      BY <1>0, <2>1, ShapeEnded
    <2>3. RowShape' /\ OwnAlerts'
      BY <2>1, <2>2, SameRows DEF AlertShape, OwnAlerts
    <2>4. BatchShape'
      BY <2>1 DEF BatchShape, Idle
    <2> QED BY <2>2, <2>3, <2>4 DEF AlertShape
  <1> QED BY <1>1, <1>2, <1>3, <1>4, <1>5, <1>6 DEF AlertMove

LEMMA ShapeInit == Init => AlertShape
  <1> SUFFICES ASSUME Init PROVE AlertShape
    OBVIOUS
  <1>1. /\ alerts = <<>> /\ deliveries = [n \in Notices |-> NoDelivery]
        /\ \A p \in Raisers : raising[p] = NotRaising
        /\ dispatcher = Idle
    BY DEF Init, AlertsInit
  <1>2. Len(alerts) = 0
    BY <1>1
  <1>3. \A p \in Raisers : RaiseShape(p) /\ raising[p].alert = 0
    BY <1>1, <1>2 DEF RaiseShape, NotRaising
  <1>4. RowShape
    BY <1>1 DEF RowShape, NoDelivery, Status
  <1>5. BatchShape
    BY <1>1 DEF BatchShape, Idle
  <1> QED BY <1>3, <1>4, <1>5 DEF AlertShape, OwnAlerts

\* What every reachable state satisfies, and every step does.
Inv == TypeOK /\ AlertShape

LEMMA Inductive ==
    /\ Init => Inv
    /\ Inv /\ [Next]_vars => Inv'
  <1>1. Init => Inv
    BY InitType, ShapeInit DEF Inv
  <1>2. ASSUME Inv, [Next]_vars PROVE Inv'
    <2>1. AlertsTypeOK /\ CostTypeOK /\ Counters /\ AlertShape
      BY <1>2 DEF Inv, TypeOK, AlertsTypeOK, Counters
    <2> QED BY <1>2, <2>1, NextType, Moves, ShapeMoves DEF Inv
  <1> QED BY <1>1, <1>2

LEMMA InvHolds == Spec => []Inv
  BY Inductive, PTL DEF Spec

LEMMA InvMove ==
    ASSUME Inv, [Next]_vars
    PROVE  /\ AlertsTypeOK /\ CostTypeOK /\ AlertShape /\ AlertMove /\ FaultsGrow
           /\ AlertsTypeOK' /\ CostTypeOK' /\ AlertShape'
  <1>1. AlertsTypeOK /\ CostTypeOK /\ Counters /\ AlertShape
    BY DEF Inv, TypeOK, AlertsTypeOK, Counters
  <1> QED BY <1>1, Inductive, Moves DEF Inv, TypeOK
=============================================================================
