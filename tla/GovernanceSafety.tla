-------------------------- MODULE GovernanceSafety --------------------------
(***************************************************************************)
(* The safety properties of Governance, proved from the invariant of       *)
(* GovernanceProofs: what is posted and settled, whom the alerts reach,    *)
(* and what a budget does to a call.                                       *)
(***************************************************************************)
EXTENDS GovernanceProofs

-----------------------------------------------------------------------------
\* Posts and attempts.

InFlight(n) == IF dispatcher.pc = "mark" /\ dispatcher.row = n THEN 1 ELSE 0

Accounted(n) == posts[n] <= deliveries[n].attempts + InFlight(n) + faults

\* A step that is not the dispatcher's takes back no attempt, but for that of
\* a row that had none.
LEMMA AttemptsKept ==
    ASSUME AlertsTypeOK, AlertShape, AlertMove, ~Dispatching, NEW n \in Notices
    PROVE  /\ posts' = posts
           /\ deliveries'[n].attempts = deliveries[n].attempts
           /\ dispatcher' = dispatcher \/ AlertsRestart
  <1>1. CASE Apart \/ HourPasses \/ AlertsRestart \/ \E i \in DOMAIN alerts : SetStatus(i)
    BY <1>1 DEF Apart, AlertsHold, HourPasses, AlertsRestart, SetStatus
  <1>2. ASSUME NEW p \in Raisers, Raising(p)
        PROVE  /\ posts' = posts /\ dispatcher' = dispatcher
               /\ deliveries'[n].attempts = deliveries[n].attempts
    <2>1. posts' = posts /\ dispatcher' = dispatcher
      BY <1>2, RaisingFrame
    <2>2. CASE Enqueue(p)
      <3> DEFINE m == <<raising[p].alert, raising[p].channel>>
      <3>1. CASE deliveries' = deliveries
        BY <2>1, <3>1
      <3>2. CASE deliveries' # deliveries
        <4>1. /\ m \in Notices /\ Status(m) = "none" /\ deliveries'[m].attempts = 0
              /\ deliveries' = [deliveries EXCEPT ![m] = [NoDelivery EXCEPT !.status = "PENDING"]]
          BY <2>2, <3>2, EnqueueRow
        <4>2. deliveries[m].attempts = 0
          BY <4>1 DEF AlertShape, RowShape
        <4>3. n # m => deliveries'[n] = deliveries[n]
          BY <4>1 DEF AlertsTypeOK
        <4> QED BY <2>1, <4>1, <4>2, <4>3
      <3> QED BY <3>1, <3>2
    <2>3. CASE ~Enqueue(p)
      BY <1>2, <2>1, <2>3 DEF Raising, Bump, InsertAlert, Cooldown, RaiseErr
    <2> QED BY <2>2, <2>3
  <1> QED BY <1>1, <1>2 DEF AlertMove

LEMMA AccountedMoves ==
    ASSUME Inv, [Next]_vars, NEW n \in Notices, Accounted(n)
    PROVE  Accounted(n)'
  <1>0. /\ AlertsTypeOK /\ AlertShape /\ AlertMove /\ AlertsTypeOK'
        /\ faults' >= faults /\ faults' \in Nat /\ faults \in Nat
    BY InvMove, BoundsAreNat DEF FaultsGrow, AlertsTypeOK
  <1>1. /\ posts[n] \in Nat /\ posts'[n] \in Nat
        /\ deliveries[n].attempts \in Nat /\ deliveries'[n].attempts \in Nat
    BY <1>0 DEF AlertsTypeOK, Delivery
  <1>2. InFlight(n) \in 0 .. 1 /\ InFlight(n)' \in 0 .. 1
    BY DEF InFlight
  <1>3. CASE ~Dispatching /\ dispatcher' = dispatcher
    BY <1>0, <1>1, <1>2, <1>3, AttemptsKept DEF Accounted, InFlight
  <1>4. CASE ~Dispatching /\ AlertsRestart
    <2>1. faults' = faults + 1
      BY <1>4 DEF AlertsRestart, Fault
    <2> QED BY <1>0, <1>1, <1>2, <1>4, <2>1, AttemptsKept DEF Accounted
  <1>5. CASE DispatchTick
    <2>1. dispatcher.pc = "idle" /\ posts' = posts /\ deliveries' = deliveries
      BY <1>5 DEF DispatchTick
    <2>2. InFlight(n) = 0
      BY <2>1 DEF InFlight
    <2> QED BY <1>0, <1>1, <1>2, <2>1, <2>2 DEF Accounted
  <1>6. ASSUME NEW m \in dispatcher.batch, NEW arrives \in BOOLEAN, NEW ok \in BOOLEAN,
               Post(m, arrives, ok)
        PROVE  Accounted(n)'
    <2>1. /\ dispatcher.pc = "post" /\ dispatcher'.pc = "mark" /\ dispatcher'.row = m
          /\ deliveries' = deliveries
          /\ posts'[n] <= posts[n] + (IF n = m THEN 1 ELSE 0)
      BY <1>0, <1>1, <1>6, PostedRow
    <2>2. InFlight(n) = 0 /\ InFlight(n)' = (IF n = m THEN 1 ELSE 0)
      BY <2>1 DEF InFlight
    <2> QED BY <1>0, <1>1, <2>1, <2>2 DEF Accounted
  <1>7. CASE Mark
    <2>1. /\ posts' = posts
          /\ deliveries'[n].attempts = deliveries[n].attempts + InFlight(n)
      BY <1>0, <1>1, <1>7, MarkedRow DEF Mark, InFlight
    <2> QED BY <1>0, <1>1, <1>2, <2>1 DEF Accounted
  <1>8. CASE DispatchErr
    <2>1. posts' = posts /\ deliveries' = deliveries /\ faults' = faults + 1
      BY <1>8 DEF DispatchErr, Fault
    <2> QED BY <1>0, <1>1, <1>2, <2>1 DEF Accounted
  <1> QED BY <1>0, <1>3, <1>4, <1>5, <1>6, <1>7, <1>8, AttemptsKept DEF Dispatching

\* An endpoint receives a notice no more often than its row counts attempts,
\* but for the answer being marked and for what faults took.
THEOREM PostsStayAccounted == Spec => []PostsAccounted
  <1> DEFINE AllAccounted == \A n \in Notices : Accounted(n)
  <1>1. Init => AllAccounted
    <2> SUFFICES ASSUME Init, NEW n \in Notices PROVE Accounted(n)
      OBVIOUS
    <2> QED BY DEF Init, AlertsInit, Accounted, InFlight, Idle, NoDelivery
  <1>2. Inv /\ AllAccounted /\ [Next]_vars => AllAccounted'
    BY AccountedMoves
  <1>3. AllAccounted => PostsAccounted
    BY DEF Accounted, InFlight, PostsAccounted
  <1> HIDE DEF AllAccounted
  <1> QED BY <1>1, <1>2, <1>3, InvHolds, PTL DEF Spec

-----------------------------------------------------------------------------
\* The delivery of notices.

FateOf == [n \in Notices |-> Fate(Status(n))]
Heard == {n \in Notices : posts[n] > 0}

LEMMA Fates ==
    /\ Fate("none") = "none" /\ Fate("PENDING") = "owed"
    /\ Fate("DELIVERED") = "told" /\ Fate("FAILED") = "given up"
  BY DEF Fate

\* A step of the engine owes, hears, tells or gives up one notice, or none.
LEMMA DeliveryStep ==
    ASSUME Inv, [Next]_vars
    PROVE  \/ FateOf' = FateOf /\ Heard' = Heard
           \/ \E n \in Notices :
                  \/ /\ FateOf[n] = "none" /\ FateOf' = [FateOf EXCEPT ![n] = "owed"]
                     /\ Heard' = Heard
                  \/ /\ FateOf[n] = "owed" /\ Heard' = Heard \cup {n} /\ FateOf' = FateOf
                  \/ /\ FateOf[n] = "owed" /\ n \in Heard
                     /\ FateOf' = [FateOf EXCEPT ![n] = "told"] /\ Heard' = Heard
                  \/ /\ FateOf[n] = "owed" /\ FateOf' = [FateOf EXCEPT ![n] = "given up"]
                     /\ Heard' = Heard
  <1> DEFINE Goal ==
           \/ FateOf' = FateOf /\ Heard' = Heard
           \/ \E n \in Notices :
                  \/ /\ FateOf[n] = "none" /\ FateOf' = [FateOf EXCEPT ![n] = "owed"]
                     /\ Heard' = Heard
                  \/ /\ FateOf[n] = "owed" /\ Heard' = Heard \cup {n} /\ FateOf' = FateOf
                  \/ /\ FateOf[n] = "owed" /\ n \in Heard
                     /\ FateOf' = [FateOf EXCEPT ![n] = "told"] /\ Heard' = Heard
                  \/ /\ FateOf[n] = "owed" /\ FateOf' = [FateOf EXCEPT ![n] = "given up"]
                     /\ Heard' = Heard
  <1>0. AlertsTypeOK /\ AlertShape /\ AlertMove /\ AlertsTypeOK'
    BY InvMove
  <1>1. CASE UNCHANGED <<deliveries, posts>>
    BY <1>1 DEF FateOf, Heard, Status
  <1>2. CASE Apart \/ HourPasses \/ AlertsRestart \/ \E i \in DOMAIN alerts : SetStatus(i)
    BY <1>1, <1>2 DEF Apart, AlertsHold, HourPasses, AlertsRestart, SetStatus
  <1>3. ASSUME NEW p \in Raisers, Raising(p) PROVE Goal
    <2> DEFINE n == <<raising[p].alert, raising[p].channel>>
    <2>1. posts' = posts
      BY <1>0, <1>3, RaisingFrame
    <2>2. CASE deliveries' = deliveries
      BY <1>1, <2>1, <2>2
    <2>3. CASE deliveries' # deliveries
      <3>1. Enqueue(p)
        BY <1>3, <2>3 DEF Raising, Bump, InsertAlert, Cooldown, RaiseErr
      <3>2. /\ n \in Notices /\ Status(n) = "none" /\ deliveries'[n].status = "PENDING"
            /\ deliveries' = [deliveries EXCEPT ![n] = [NoDelivery EXCEPT !.status = "PENDING"]]
        BY <1>0, <2>3, <3>1, EnqueueRow
      <3> HIDE DEF n
      <3>3. \A m \in Notices : m # n => deliveries'[m] = deliveries[m]
        BY <1>0, <3>2 DEF AlertsTypeOK
      <3>4. n \in Notices /\ Status(n) = "none" /\ deliveries'[n].status = "PENDING"
        BY <3>2
      <3>5. FateOf[n] = "none" /\ FateOf' = [FateOf EXCEPT ![n] = "owed"]
        BY <3>3, <3>4, Fates DEF FateOf, Status
      <3> QED BY <2>1, <3>2, <3>5 DEF Heard
    <2> QED BY <2>2, <2>3
  <1>4. CASE DispatchTick \/ DispatchErr
    BY <1>1, <1>4 DEF DispatchTick, DispatchErr
  <1>5. ASSUME NEW n \in dispatcher.batch, NEW arrives \in BOOLEAN, NEW ok \in BOOLEAN,
               Post(n, arrives, ok)
        PROVE  Goal
    <2>1. /\ n \in Notices /\ deliveries' = deliveries /\ posts \in [Notices -> Nat]
          /\ posts'[n] = (IF arrives THEN posts[n] + 1 ELSE posts[n])
          /\ \A m \in Notices : m # n => posts'[m] = posts[m]
      BY <1>0, <1>5, PostedRow
    <2>2. FateOf' = FateOf /\ FateOf[n] = "owed"
      BY <1>0, <2>1, Fates DEF FateOf, Status, AlertShape, BatchShape
    <2>3. CASE arrives
      <3>1. posts[n] \in Nat /\ posts'[n] > 0
        BY <2>1, <2>3
      <3>2. Heard' = Heard \cup {n}
        BY <2>1, <3>1 DEF Heard
      <3> QED BY <2>1, <2>2, <3>2
    <2>4. CASE ~arrives
      BY <2>1, <2>2, <2>4 DEF Heard
    <2> QED BY <2>3, <2>4
  <1>6. CASE Mark
    <2> DEFINE n == dispatcher.row
               status == IF dispatcher.ok THEN "DELIVERED"
                         ELSE IF deliveries[n].attempts >= Retries THEN "FAILED" ELSE "PENDING"
    <2>1. posts' = posts
      BY <1>6 DEF Mark
    <2>2. /\ n \in Notices /\ Status(n) = "PENDING" /\ (dispatcher.ok => posts[n] > 0)
          /\ deliveries'[n].status = status
          /\ \A m \in Notices \ {n} : deliveries'[m] = deliveries[m]
      BY <1>0, <1>6, MarkedRow
    <2>3. status \in {"DELIVERED", "FAILED", "PENDING"} /\ (status = "DELIVERED" => dispatcher.ok)
      OBVIOUS
    <2> HIDE DEF n, status
    <2>4. FateOf[n] = "owed" /\ FateOf' = [FateOf EXCEPT ![n] = Fate(status)]
      BY <2>2, Fates DEF FateOf, Status
    <2>5. CASE status = "DELIVERED"
      BY <2>1, <2>2, <2>3, <2>4, <2>5, Fates DEF Heard
    <2>6. CASE status = "FAILED"
      BY <2>1, <2>2, <2>4, <2>6, Fates DEF Heard
    <2>7. CASE status = "PENDING"
      <3>1. FateOf' = FateOf
        BY <2>2, <2>4, <2>7, Fates DEF FateOf
      <3> QED BY <2>1, <3>1 DEF Heard
    <2> QED BY <2>3, <2>5, <2>6, <2>7
  <1> QED BY <1>0, <1>2, <1>3, <1>4, <1>5, <1>6 DEF AlertMove, Dispatching

\* raise() and the dispatcher implement AlertDelivery.
THEOREM DeliveryIsRefined == Spec => DeliveryRefines
  <1>1. Init => Delivering!Init
    BY DEF Init, AlertsInit, Delivering!Init, NoDelivery, Fate
  <1>2. Inv /\ [Next]_vars => [Delivering!Next]_(Delivering!noticeVars)
    <2> SUFFICES ASSUME Inv, [Next]_vars
                 PROVE  [Delivering!Next]_(Delivering!noticeVars)
      OBVIOUS
    <2> QED BY DeliveryStep
         DEF FateOf, Heard, Status, Delivering!Next, Delivering!Owe, Delivering!Hear,
             Delivering!Tell, Delivering!GiveUp, Delivering!noticeVars
  <1> QED BY <1>1, <1>2, InvHolds, PTL DEF Spec, DeliveryRefines, Delivering!Spec

-----------------------------------------------------------------------------
\* Whom an alert reaches.

\* Why some channel has no delivery of alert i.
ToldBefore(i) ==
    /\ alerts[i].key \in MonitorKeys
    /\ \E j \in DOMAIN alerts, d \in DOMAIN Channels :
           /\ j # i
           /\ alerts[j].key = alerts[i].key
           /\ deliveries[<<j, d>>].status = "DELIVERED"

Explained(i) ==
    \/ \E p \in Raisers : raising[p].alert = i
    \/ i \in cut
    \/ ToldBefore(i)

Silent(i) ==
    alerts[i].rank >= MinRank /\ \E c \in DOMAIN Channels : Status(<<i, c>>) = "none"

LEMMA NoticeOf ==
    ASSUME AlertsTypeOK, NEW i \in DOMAIN alerts, NEW c \in DOMAIN Channels
    PROVE  <<i, c>> \in Notices
  BY ChannelsAssumption, BoundsAreNat DEF AlertsTypeOK, Notices, Ids

\* What a step does to the alerts there are: their keys and ranks stay, nothing
\* that was delivered is undone, no row goes.
LEMMA AlertsStay ==
    ASSUME Inv, [Next]_vars
    PROVE  /\ \A i \in DOMAIN alerts : i \in DOMAIN alerts' /\ Same(alerts[i], alerts'[i])
           /\ \A n \in Notices :
                  /\ Status(n) = "DELIVERED" => deliveries'[n].status = "DELIVERED"
                  /\ deliveries'[n].status = "none" => Status(n) = "none"
           /\ Len(alerts') \in Nat /\ Len(alerts) \in Nat /\ Len(alerts') >= Len(alerts)
  <1> DEFINE Goal ==
           /\ \A i \in DOMAIN alerts : i \in DOMAIN alerts' /\ Same(alerts[i], alerts'[i])
           /\ \A n \in Notices :
                  /\ Status(n) = "DELIVERED" => deliveries'[n].status = "DELIVERED"
                  /\ deliveries'[n].status = "none" => Status(n) = "none"
           /\ Len(alerts') \in Nat /\ Len(alerts) \in Nat /\ Len(alerts') >= Len(alerts)
  <1>0. AlertsTypeOK /\ AlertShape /\ AlertMove /\ Len(alerts) \in Nat
    BY InvMove DEF AlertsTypeOK
  <1>1. CASE alerts' = alerts /\ deliveries' = deliveries
    BY <1>0, <1>1 DEF Same, Status
  <1>2. CASE Apart \/ HourPasses \/ AlertsRestart
    BY <1>1, <1>2 DEF Apart, AlertsHold, HourPasses, AlertsRestart
  <1>3. ASSUME NEW k \in DOMAIN alerts, SetStatus(k) PROVE Goal
    <2>1. deliveries' = deliveries
      BY <1>3 DEF SetStatus
    <2> QED BY <1>0, <1>3, <2>1, SetStatusRows DEF Status
  <1>4. ASSUME NEW p \in Raisers, Raising(p) PROVE Goal
    <2>1. /\ Len(alerts') \in Nat /\ Len(alerts') >= Len(alerts)
          /\ \A i \in DOMAIN alerts : i \in DOMAIN alerts' /\ Same(alerts[i], alerts'[i])
      BY <1>0, <1>4, RaisingFrame
    <2>2. CASE deliveries' = deliveries
      BY <1>0, <2>1, <2>2 DEF Status
    <2>3. CASE deliveries' # deliveries
      <3> DEFINE m == <<raising[p].alert, raising[p].channel>>
      <3>1. Enqueue(p)
        BY <1>4, <2>3 DEF Raising, Bump, InsertAlert, Cooldown, RaiseErr
      <3>2. /\ m \in Notices /\ Status(m) = "none" /\ deliveries'[m].status = "PENDING"
            /\ deliveries' = [deliveries EXCEPT ![m] = [NoDelivery EXCEPT !.status = "PENDING"]]
        BY <1>0, <2>3, <3>1, EnqueueRow
      <3>3. \A n \in Notices : n # m => deliveries'[n] = deliveries[n]
        BY <1>0, <3>2 DEF AlertsTypeOK
      <3>4. Status(m) = "none" /\ deliveries'[m].status = "PENDING"
        BY <3>2
      <3> QED BY <1>0, <2>1, <3>3, <3>4 DEF Status
    <2> QED BY <2>2, <2>3
  <1>5. CASE Mark
    <2>1. alerts' = alerts
      BY <1>5 DEF Mark
    <2> DEFINE n == dispatcher.row
    <2>2. /\ Status(n) = "PENDING" /\ deliveries'[n].status # "none"
          /\ \A m \in Notices \ {n} : deliveries'[m] = deliveries[m]
      BY <1>0, <1>5, MarkedRow
    <2> QED BY <1>0, <2>1, <2>2 DEF Same, Status
  <1>6. CASE Dispatching /\ ~Mark
    BY <1>1, <1>6 DEF Dispatching, DispatchTick, Post, DispatchErr
  <1> QED BY <1>0, <1>2, <1>3, <1>4, <1>5, <1>6 DEF AlertMove

\* A cooldown keeps back an alert of whose key another one was delivered.
LEMMA CooldownExplains ==
    ASSUME Inv, NEW p \in Raisers, Cooldown(p), raising'[p] = NotRaising
    PROVE  ToldBefore(raising[p].alert)
  <1> DEFINE i == raising[p].alert
  <1>0. AlertsTypeOK /\ AlertShape /\ raising[p] \in Raise /\ raising \in [Raisers -> Raise]
    BY DEF Inv, TypeOK, AlertsTypeOK
  <1>1. RaiseShape(p) /\ raising[p].pc = "cooldown" /\ raising[p].channel = 1
    BY <1>0 DEF AlertShape, RaiseShape, Cooldown
  <1>2. Suppressed(raising[p].key)
    <2>1. [raising[p] EXCEPT !.pc = "enqueue"] # NotRaising
      BY <1>0 DEF Raise, NotRaising
    <2> QED BY <1>0, <2>1 DEF Cooldown
  <1>3. PICK n \in Told(raising[p].key) : TRUE
    BY <1>2 DEF Suppressed
  <1>4. /\ n \in Notices /\ deliveries[n].status = "DELIVERED" /\ n[1] \in DOMAIN alerts
        /\ alerts[n[1]].key = raising[p].key
    BY <1>3 DEF Told
  <1>5. n = <<n[1], n[2]>> /\ n[2] \in DOMAIN Channels
    BY <1>4, ChannelsAssumption DEF Notices
  <1>6. n[2] >= 1
    BY <1>5, ChannelsAssumption
  <1>7. n[1] # i
    BY <1>1, <1>4, <1>5, <1>6 DEF RaiseShape, Status
  <1>8. deliveries[<<n[1], n[2]>>].status = "DELIVERED"
    BY <1>4, <1>5
  <1>9. alerts[i].key = raising[p].key /\ raising[p].key \in MonitorKeys
    BY <1>1 DEF RaiseShape
  <1> QED BY <1>4, <1>5, <1>7, <1>8, <1>9 DEF ToldBefore

\* An enqueue that ends has a row for every channel, or the alert is not severe
\* enough for any.
LEMMA EnqueueCompletes ==
    ASSUME Inv, NEW p \in Raisers, Enqueue(p), raising'[p] = NotRaising,
           raising[p].rank >= MinRank
    PROVE  \A c \in DOMAIN Channels : deliveries'[<<raising[p].alert, c>>].status # "none"
  <1> DEFINE k == raising[p].channel
             i == raising[p].alert
  <1>0. /\ AlertsTypeOK /\ AlertShape /\ raising[p] \in Raise
        /\ raising \in [Raisers -> Raise] /\ deliveries \in [Notices -> Delivery]
        /\ Len(Channels) \in Nat /\ DOMAIN Channels = 1 .. Len(Channels) /\ k \in Nat
    BY ChannelsAssumption DEF Inv, TypeOK, AlertsTypeOK, Raise
  <1>1. RaiseShape(p) /\ raising[p].pc = "enqueue" /\ i \in DOMAIN alerts
    BY <1>0 DEF AlertShape, RaiseShape, Enqueue
  <1> TAKE c \in DOMAIN Channels
  <1>2. <<i, c>> \in Notices
    BY <1>0, <1>1, NoticeOf
  <1>3. CASE k <= Len(Channels)
    <2>1. [raising[p] EXCEPT !.channel = k + 1] # NotRaising
      BY <1>0, <1>1 DEF Raise, NotRaising
    <2>2. /\ k = Len(Channels)
          /\ deliveries' = [deliveries EXCEPT ![<<i, k>>] = [NoDelivery EXCEPT !.status = "PENDING"]]
      BY <1>0, <1>3, <2>1 DEF Enqueue
    <2>3. CASE c = k
      <3>1. deliveries'[<<i, c>>] = [NoDelivery EXCEPT !.status = "PENDING"]
        BY <1>0, <1>2, <2>2, <2>3
      <3> QED BY <3>1 DEF NoDelivery
    <2>4. CASE c # k
      <3>1. deliveries'[<<i, c>>] = deliveries[<<i, c>>] /\ c < k
        BY <1>0, <1>2, <2>2, <2>4
      <3> QED BY <1>1, <3>1 DEF RaiseShape, Status
    <2> QED BY <2>3, <2>4
  <1>4. CASE ~(k <= Len(Channels))
    <2>1. deliveries' = deliveries /\ c < k
      BY <1>0, <1>4 DEF Enqueue
    <2> QED BY <1>1, <2>1 DEF RaiseShape, Status
  <1> QED BY <1>3, <1>4

\* A new alert is the one row that a raise() inserts.
LEMMA NewAlert ==
    ASSUME Inv, [Next]_vars, NEW i \in DOMAIN alerts', i \notin DOMAIN alerts
    PROVE  /\ i = Len(alerts) + 1
           /\ \E p \in Raisers : InsertAlert(p) /\ raising'[p].alert = i
  <1>0. AlertsTypeOK /\ AlertShape /\ AlertMove /\ AlertsTypeOK'
    BY InvMove
  <1>1. alerts' # alerts /\ DOMAIN alerts' # DOMAIN alerts
    OBVIOUS
  <1>2. PICK p \in Raisers : Raising(p)
    BY <1>0, <1>1, SetStatusRows
       DEF AlertMove, Apart, AlertsHold, HourPasses, AlertsRestart, Dispatching,
           DispatchTick, Post, Mark, DispatchErr
  <1>3. InsertAlert(p)
    <2>1. Bump(p) => DOMAIN alerts' = DOMAIN alerts
      BY DEF Bump
    <2> QED BY <1>1, <1>2, <2>1 DEF Raising, Cooldown, Enqueue, RaiseErr
  <1>4. Len(alerts') = Len(alerts) + 1 /\ raising'[p].alert = Len(alerts) + 1
    BY <1>0, <1>3, InsertShape
  <1>5. i = Len(alerts) + 1
    BY <1>0, <1>4 DEF AlertsTypeOK
  <1> QED BY <1>3, <1>4, <1>5

LEMMA SilenceMoves ==
    ASSUME Inv, [Next]_vars, \A i \in DOMAIN alerts : Silent(i) => Explained(i)
    PROVE  \A i \in DOMAIN alerts' : Silent(i)' => Explained(i)'
  <1> SUFFICES ASSUME NEW i \in DOMAIN alerts', Silent(i)' PROVE Explained(i)'
    OBVIOUS
  <1>0. /\ AlertsTypeOK /\ AlertShape /\ AlertMove /\ AlertsTypeOK' /\ cut \subseteq cut'
        /\ raising \in [Raisers -> Raise]
    BY InvMove DEF FaultsGrow, AlertsTypeOK
  <1>1. CASE i \notin DOMAIN alerts
    BY <1>1, NewAlert DEF Explained
  <1>2. CASE i \in DOMAIN alerts
    <2>1. Silent(i)
      <3>1. PICK c \in DOMAIN Channels : deliveries'[<<i, c>>].status = "none"
        BY DEF Silent, Status
      <3>2. <<i, c>> \in Notices
        BY <1>0, <1>2, NoticeOf
      <3>3. Status(<<i, c>>) = "none"
        BY <3>1, <3>2, AlertsStay
      <3>4. alerts'[i].rank = alerts[i].rank
        BY <1>2, AlertsStay DEF Same
      <3> QED BY <3>3, <3>4 DEF Silent
    <2>2. ToldBefore(i) => ToldBefore(i)'
      <3> SUFFICES ASSUME ToldBefore(i) PROVE ToldBefore(i)'
        OBVIOUS
      <3> PICK j \in DOMAIN alerts, d \in DOMAIN Channels :
              /\ j # i /\ alerts[j].key = alerts[i].key
              /\ deliveries[<<j, d>>].status = "DELIVERED"
        BY DEF ToldBefore
      <3>1. <<j, d>> \in Notices
        BY <1>0, NoticeOf
      <3>2. deliveries'[<<j, d>>].status = "DELIVERED"
        BY <3>1, AlertsStay DEF Status
      <3>3. j \in DOMAIN alerts' /\ alerts'[j].key = alerts[j].key /\ alerts'[i].key = alerts[i].key
        BY <1>2, AlertsStay DEF Same
      <3> QED BY <3>2, <3>3 DEF ToldBefore
    <2>3. CASE i \in cut \/ ToldBefore(i)
      BY <1>0, <2>2, <2>3 DEF Explained
    <2>4. ASSUME NEW p \in Raisers, raising[p].alert = i
          PROVE  Explained(i)'
      <3>1. i # 0 /\ i \in {raising[p].alert} \ {0}
        BY <1>0, <1>2, <2>4 DEF AlertsTypeOK
      <3>2. CASE raising'[p] = raising[p]
        BY <2>4, <3>2 DEF Explained
      <3>3. CASE AlertsRestart
        BY <3>1, <3>3 DEF AlertsRestart, Fault, Known, Explained
      <3>4. CASE RaiseErr(p)
        BY <3>1, <3>4 DEF RaiseErr, Fault, Known, Explained
      <3>5. CASE Cooldown(p)
        <4>1. CASE raising'[p] = NotRaising
          BY <2>2, <2>4, <3>5, <4>1, CooldownExplains DEF Explained
        <4>2. CASE raising'[p] # NotRaising
          <5>1. raising'[p] = [raising[p] EXCEPT !.pc = "enqueue"] /\ raising[p] \in Raise
            BY <1>0, <3>5, <4>2 DEF Cooldown
          <5>2. raising'[p].alert = raising[p].alert
            BY <5>1 DEF Raise
          <5> QED BY <2>4, <5>2 DEF Explained
        <4> QED BY <4>1, <4>2
      <3>6. CASE Enqueue(p)
        <4>1. CASE raising'[p] = NotRaising
          <5>1. alerts[i].rank = raising[p].rank
            BY <1>0, <2>4, <3>6 DEF AlertShape, RaiseShape, Enqueue
          <5>2. \A c \in DOMAIN Channels : deliveries'[<<i, c>>].status # "none"
            BY <2>1, <2>4, <3>6, <4>1, <5>1, EnqueueCompletes DEF Silent
          <5> QED BY <5>2 DEF Silent, Status
        <4>2. CASE raising'[p] # NotRaising
          <5>1. /\ raising'[p] = [raising[p] EXCEPT !.channel = raising[p].channel + 1]
                /\ raising[p] \in Raise
            BY <1>0, <3>6, <4>2 DEF Enqueue
          <5>2. raising'[p].alert = raising[p].alert
            BY <5>1 DEF Raise
          <5> QED BY <2>4, <5>2 DEF Explained
        <4> QED BY <4>1, <4>2
      <3>7. CASE Bump(p) \/ InsertAlert(p)
        BY <1>0, <2>4, <3>1, <3>7 DEF AlertShape, RaiseShape, Bump, InsertAlert
      <3>8. CASE \E q \in Raisers \ {p} : Raising(q)
        BY <1>0, <3>2, <3>8, RaisingFrame
      <3>9. CASE Apart
        <4>1. raising'[p] = raising[p] \/ Begins(p)
          BY <1>0, <3>9 DEF Apart, Begins, BeginRaise
        <4>2. Begins(p) => raising[p].pc = "idle"
          BY DEF Begins, BeginRaise
        <4>3. ~Begins(p)
          BY <1>0, <2>4, <3>1, <4>2 DEF AlertShape, RaiseShape
        <4> QED BY <3>2, <4>1, <4>3
      <3>10. CASE HourPasses \/ Dispatching \/ \E k \in DOMAIN alerts : SetStatus(k)
        BY <1>0, <3>2, <3>10, SameExistence DEF HourPasses, SetStatus
      <3> QED
        BY <1>0, <3>3, <3>4, <3>5, <3>6, <3>7, <3>8, <3>9, <3>10 DEF AlertMove, Raising
    <2> QED BY <1>2, <2>1, <2>3, <2>4 DEF Explained
  <1> QED BY <1>1, <1>2

\* A severe alert without a delivery is being raised, was cut short by a fault,
\* or is kept back because another one of its key was delivered.
THEOREM SilenceIsExplained == Spec => []SilenceExplained
  <1> DEFINE AllExplained == \A i \in DOMAIN alerts : Silent(i) => Explained(i)
  <1>1. Init => AllExplained
    BY DEF Init, AlertsInit
  <1>2. Inv /\ AllExplained /\ [Next]_vars => AllExplained'
    BY SilenceMoves
  <1>3. AllExplained => SilenceExplained
    BY DEF Silent, Explained, ToldBefore, Status, SilenceExplained
  <1> HIDE DEF AllExplained
  <1> QED BY <1>1, <1>2, <1>3, InvHolds, PTL DEF Spec
-----------------------------------------------------------------------------
\* Twins: open alerts of one key that would both take up its next repeat.

Absorbs(i) == alerts[i].open /\ Fresh(i)

\* The alerts that would take up what p is about to insert came after p looked.
LookedBefore(p) ==
    raising[p].pc = "insert" /\ raising[p].key # None =>
        \A i \in DOMAIN alerts :
            alerts[i].key = raising[p].key /\ Absorbs(i) => raising[p].looked < i

\* No step opens an alert again, and none but a bump of a fresh one makes it
\* younger.
LEMMA NoneRevives ==
    ASSUME Inv, [Next]_vars, NEW i \in DOMAIN alerts, Absorbs(i)'
    PROVE  Absorbs(i)
  <1>0. /\ AlertsTypeOK /\ AlertShape /\ AlertMove /\ AlertsTypeOK'
        /\ i \in DOMAIN alerts'
    BY InvMove, AlertsStay
  <1>1. /\ BumpWindow \in Nat /\ clock \in Nat /\ alerts[i] \in Alert
        /\ alerts[i].at \in Nat
    <2>1. BumpWindow \in Nat
      BY LimitsAssumption
    <2>2. alerts \in Seq(Alert) /\ clock \in Nat
      BY <1>0, BoundsAreNat DEF AlertsTypeOK
    <2>3. alerts[i] \in Alert
      BY <2>2
    <2> QED BY <2>1, <2>2, <2>3 DEF Alert
  <1>2. alerts'[i].open /\ alerts'[i].at + BumpWindow > clock'
    BY DEF Absorbs, Fresh
  <1>3. CASE alerts' = alerts /\ (clock' = clock \/ clock' = clock + 1)
    BY <1>0, <1>1, <1>2, <1>3 DEF Absorbs, Fresh
  <1>4. CASE Apart \/ AlertsRestart \/ HourPasses \/ Dispatching
    BY <1>3, <1>4 DEF Apart, AlertsHold, AlertsRestart, HourPasses, Dispatching,
                      DispatchTick, Post, Mark, DispatchErr
  <1>5. ASSUME NEW p \in Raisers, Raising(p) PROVE Absorbs(i)
    <2>1. clock' = clock
      BY <1>0, <1>5, RaisingFrame
    <2> QED BY <1>0, <1>2, <1>5, <2>1, AlertRows DEF Absorbs
  <1>6. ASSUME NEW k \in DOMAIN alerts, SetStatus(k) PROVE Absorbs(i)
    <2>1. alerts'[i] = alerts[i] /\ clock' = clock
      BY <1>0, <1>2, <1>6, SetStatusRows DEF SetStatus
    <2> QED BY <1>2, <2>1 DEF Absorbs, Fresh
  <1> QED BY <1>0, <1>4, <1>5, <1>6 DEF AlertMove

LEMMA LookedMoves ==
    ASSUME Inv, [Next]_vars, NEW p \in Raisers, LookedBefore(p)
    PROVE  LookedBefore(p)'
  <1> SUFFICES ASSUME raising'[p].pc = "insert", raising'[p].key # None,
                      NEW i \in DOMAIN alerts', alerts'[i].key = raising'[p].key,
                      Absorbs(i)'
               PROVE  raising'[p].looked < i
    BY DEF LookedBefore
  <1>0. /\ AlertsTypeOK /\ AlertShape /\ AlertMove /\ Len(alerts) \in Nat
        /\ raising \in [Raisers -> Raise] /\ raising[p] \in Raise
    BY InvMove DEF AlertsTypeOK
  <1>1. CASE raising'[p] = raising[p]
    <2>1. CASE i \in DOMAIN alerts
      BY <1>1, <2>1, AlertsStay, NoneRevives DEF LookedBefore, Same
    <2>2. CASE i \notin DOMAIN alerts
      <3>1. i = Len(alerts) + 1 /\ raising[p].looked <= Len(alerts) /\ raising[p].looked \in Nat
        BY <1>0, <2>2, NewAlert DEF AlertShape, RaiseShape, Raise
      <3> QED BY <1>0, <1>1, <3>1
    <2> QED BY <2>1, <2>2
  <1>2. CASE Bump(p)
    <2>1. Absorbing(raising[p].key) = {}
      BY <1>0, <1>2 DEF Bump, NotRaising
    <2>2. alerts' = alerts /\ clock' = clock
      BY <1>0, <1>2, <2>1 DEF Bump, AlertsTypeOK
    <2>3. raising'[p] = [raising[p] EXCEPT !.pc = "insert", !.looked = Len(alerts)]
      BY <1>0, <1>2, <2>1 DEF Bump
    <2>4. raising'[p].key = raising[p].key
      BY <1>0, <2>3 DEF Raise
    <2> QED BY <2>1, <2>2, <2>4 DEF Absorbing, Absorbs, Fresh
  <1>3. CASE InsertAlert(p) \/ Cooldown(p) \/ Enqueue(p) \/ RaiseErr(p)
    <2>1. raising'[p].pc # "insert"
      <3>1. CASE InsertAlert(p)
        BY <1>0, <3>1 DEF InsertAlert, Raise
      <3>2. CASE Cooldown(p)
        BY <1>0, <3>2 DEF Cooldown, NotRaising, Raise
      <3>3. CASE Enqueue(p)
        BY <1>0, <3>3 DEF Enqueue, NotRaising, Raise
      <3>4. CASE RaiseErr(p)
        BY <1>0, <3>4 DEF RaiseErr, NotRaising
      <3> QED BY <1>3, <3>1, <3>2, <3>3, <3>4
    <2> QED BY <2>1
  <1>4. CASE \E q \in Raisers \ {p} : Raising(q)
    BY <1>0, <1>1, <1>4, RaisingFrame
  <1>5. CASE AlertsRestart
    BY <1>5 DEF AlertsRestart, NotRaising
  <1>6. CASE HourPasses \/ Dispatching \/ \E k \in DOMAIN alerts : SetStatus(k)
    BY <1>0, <1>1, <1>6, SameExistence DEF HourPasses, SetStatus
  <1>7. CASE Apart
    <2>1. raising'[p] = raising[p] \/ Begins(p)
      BY <1>0, <1>7 DEF Apart, Begins, BeginRaise
    <2>2. ASSUME NEW key \in Keys \cup {None}, NEW rank \in Ranks, BeginRaise(p, key, rank)
          PROVE  FALSE
      <3> DEFINE pc == IF key = None THEN "insert" ELSE "bump"
      <3>1. raising'[p] = [NotRaising EXCEPT !.pc = pc, !.key = key, !.rank = rank]
        BY <1>0, <2>2 DEF BeginRaise
      <3> HIDE DEF pc
      <3>2. raising'[p].pc = pc /\ raising'[p].key = key
        BY <3>1 DEF NotRaising
      <3> QED BY <3>2 DEF pc
    <2> QED BY <1>1, <2>1, <2>2 DEF Begins
  <1> QED BY <1>0, <1>2, <1>3, <1>4, <1>5, <1>6, <1>7 DEF AlertMove, Raising

\* Two open alerts of one key both absorb its repeats only when the second
\* raiser had looked before the first one inserted.
THEOREM TwinsHaveRaced == Spec => []TwinsRaced
  <1> DEFINE AllLooked == \A p \in Raisers : LookedBefore(p)
  <1>1. Init => AllLooked /\ TwinsRaced
    BY DEF Init, AlertsInit, LookedBefore, TwinsRaced, NotRaising
  <1>2. Inv /\ AllLooked /\ [Next]_vars => AllLooked'
    BY LookedMoves
  <1>3. ASSUME Inv, AllLooked, TwinsRaced, [Next]_vars
        PROVE  TwinsRaced'
    <2> SUFFICES ASSUME NEW i \in DOMAIN alerts', NEW j \in DOMAIN alerts', i < j,
                        alerts'[i].key = alerts'[j].key, alerts'[i].key # None,
                        Absorbs(i)', Absorbs(j)'
                 PROVE  alerts'[j].looked < i
      BY DEF TwinsRaced, Absorbs, Fresh
    <2>0. /\ AlertsTypeOK /\ AlertsTypeOK' /\ AlertShape /\ Len(alerts) \in Nat
          /\ DOMAIN alerts = 1 .. Len(alerts) /\ DOMAIN alerts' = 1 .. Len(alerts')
      BY <1>3, InvMove DEF AlertsTypeOK
    <2>1. CASE j \in DOMAIN alerts
      <3>1. i \in DOMAIN alerts
        BY <2>0, <2>1
      <3>2. Absorbs(i) /\ Absorbs(j)
        BY <1>3, <2>1, <3>1, NoneRevives
      <3>3. Same(alerts[i], alerts'[i]) /\ Same(alerts[j], alerts'[j])
        BY <1>3, <2>1, <3>1, AlertsStay
      <3> QED BY <1>3, <2>1, <3>1, <3>2, <3>3 DEF TwinsRaced, Absorbs, Same
    <2>2. CASE j \notin DOMAIN alerts
      <3>1. PICK p \in Raisers : InsertAlert(p) /\ j = Len(alerts) + 1
        BY <1>3, <2>2, NewAlert
      <3>2. /\ alerts'[j].key = raising[p].key /\ alerts'[j].looked = raising[p].looked
            /\ \A k \in DOMAIN alerts : alerts'[k] = alerts[k]
        BY <2>0, <3>1, InsertShape
      <3>3. i \in DOMAIN alerts
        BY <2>0, <3>1
      <3>4. Absorbs(i) /\ alerts[i].key = raising[p].key /\ raising[p].key # None
        BY <1>3, <3>2, <3>3, NoneRevives
      <3> QED BY <1>3, <3>1, <3>2, <3>3, <3>4 DEF LookedBefore, InsertAlert
    <2> QED BY <2>1, <2>2
  <1> HIDE DEF AllLooked
  <1> QED BY <1>1, <1>2, <1>3, InvHolds, PTL DEF Spec
-----------------------------------------------------------------------------
\* The announcement of levels.

\* The alert of a level exists, is on its way, or was taken by a fault.
Announced(level) ==
    \/ \E i \in DOMAIN alerts : alerts[i].key = level
    \/ \E p \in Callers : level \in Untold(p)
    \/ level \in missed

LEMMA AlertExists ==
    ASSUME Inv, [Next]_vars, NEW level, NEW i \in DOMAIN alerts, alerts[i].key = level
    PROVE  Announced(level)'
  <1>1. i \in DOMAIN alerts' /\ alerts'[i].key = level
    BY AlertsStay DEF Same
  <1> QED BY <1>1 DEF Announced

\* Steps that leave the alerts alone begin a raise() only where none is under way.
LEMMA ApartAnnounces ==
    ASSUME Inv, [Next]_vars, NEW level, Announced(level), missed \subseteq missed',
           Apart \/ raising' = raising
    PROVE  Announced(level)'
  <1>0. raising \in [Raisers -> Raise] /\ Callers \subseteq Raisers
    BY BudgetAssumption DEF Inv, TypeOK, AlertsTypeOK
  <1>1. ASSUME NEW p \in Callers, level \in Untold(p) PROVE Announced(level)'
    <2>1. raising[p].pc \in {"bump", "insert"}
      BY <1>1 DEF Untold
    <2>2. \A q \in Raisers : Begins(q) => (raising'[p] = raising[p] \/ q = p)
      BY <1>0 DEF Begins, BeginRaise
    <2>3. ~Begins(p)
      BY <2>1 DEF Begins, BeginRaise
    <2>4. raising'[p] = raising[p]
      BY <2>2, <2>3 DEF Apart
    <2> QED BY <1>1, <2>4 DEF Announced, Untold
  <1> QED BY <1>1, AlertExists DEF Announced

LEMMA RaiseAnnounces ==
    ASSUME Inv, [Next]_vars, NEW level, NEW p \in Raisers, RaiseStep(p),
           level \in Untold(p), p \in Callers
    PROVE  Announced(level)'
  <1>0. /\ AlertsTypeOK /\ AlertShape /\ Raising(p) /\ raising \in [Raisers -> Raise]
        /\ raising[p] \in Raise /\ Len(alerts) \in Nat /\ faults \in Nat
    BY BoundsAreNat DEF Inv, TypeOK, AlertsTypeOK, RaiseStep
  <1>1. raising[p].pc \in {"bump", "insert"} /\ raising[p].key = level /\ level \in Levels
    BY DEF Untold
  <1>2. CASE Bump(p)
    <2>1. CASE Absorbing(level) = {}
      <3>1. raising'[p] = [raising[p] EXCEPT !.pc = "insert", !.looked = Len(alerts)]
        BY <1>0, <1>1, <1>2, <2>1 DEF Bump
      <3>2. raising'[p].pc = "insert" /\ raising'[p].key = level
        BY <1>0, <1>1, <3>1 DEF Raise
      <3> QED BY <1>1, <3>2 DEF Announced, Untold
    <2>2. CASE Absorbing(level) # {}
      <3>1. PICK i \in DOMAIN alerts : alerts[i].key = level
        BY <2>2 DEF Absorbing
      <3> QED BY <3>1, AlertExists
    <2> QED BY <2>1, <2>2
  <1>3. CASE InsertAlert(p)
    <2>1. /\ Len(alerts') = Len(alerts) + 1
          /\ alerts'[Len(alerts) + 1].key = level
      BY <1>0, <1>1, <1>3, InsertShape
    <2>2. Len(alerts) + 1 \in DOMAIN alerts'
      <3>1. AlertsTypeOK'
        BY InvMove
      <3> QED BY <1>0, <2>1, <3>1 DEF AlertsTypeOK
    <2> QED BY <2>1, <2>2 DEF Announced
  <1>4. CASE RaiseErr(p)
    <2>1. faults' # faults
      BY <1>0, <1>4 DEF RaiseErr, Fault
    <2> QED BY <2>1 DEF RaiseStep, Announced
  <1>5. CASE Cooldown(p) \/ Enqueue(p)
    BY <1>1, <1>5 DEF Cooldown, Enqueue
  <1> QED BY <1>0, <1>2, <1>3, <1>4, <1>5 DEF Raising

LEMMA AnnouncedStays ==
    ASSUME Inv, [Next]_vars, NEW level, Announced(level)
    PROVE  Announced(level)'
  <1>0. /\ AlertsTypeOK /\ CostTypeOK /\ Counters /\ AlertShape /\ Callers \subseteq Raisers
        /\ raising \in [Raisers -> Raise]
    BY BudgetAssumption DEF Inv, TypeOK, AlertsTypeOK, Counters
  <1>1. CASE UNCHANGED vars
    BY <1>1, ApartAnnounces DEF vars, alertVars, costVars
  <1>2. ASSUME NEW p \in Callers, NEW tool \in Tools, NEW admin \in BOOLEAN,
               Invoke(p, tool, admin)
        PROVE  Announced(level)'
    <2>1. Apart /\ missed' = missed
      BY <1>0, <1>2, InvokeMoves DEF Invoke
    <2> QED BY <2>1, ApartAnnounces
  <1>3. ASSUME NEW p \in Callers, Calling(p)
        PROVE  Announced(level)'
    <2>1. Apart
      BY <1>0, <1>3, CallingMoves
    <2>2. missed' = missed
      BY <1>3 DEF Calling, Denied, GetCached, SumLedger, FillCache, GetSeen, SetSeen, Alerted,
                  SweepTasks, Gate, OpenTask, Crawl, EmbedQuery, MeterPage, FinishTask,
                  MeterCall
    <2> QED BY <2>1, <2>2, ApartAnnounces
  <1>4. ASSUME NEW q \in Raisers, RaiseStep(q)
        PROVE  Announced(level)'
    <2>1. CASE \E i \in DOMAIN alerts : alerts[i].key = level
      BY <2>1, AlertExists
    <2>2. CASE level \in missed
      BY <1>4, <2>2 DEF RaiseStep, Announced
    <2>3. ASSUME NEW p \in Callers, level \in Untold(p)
          PROVE  Announced(level)'
      <3>1. CASE p = q
        BY <1>4, <2>3, <3>1, RaiseAnnounces
      <3>2. CASE p # q
        <4>1. raising'[p] = raising[p]
          BY <1>0, <1>4, <3>2, RaisingFrame DEF RaiseStep
        <4> QED BY <2>3, <4>1 DEF Announced, Untold
      <3> QED BY <3>1, <3>2
    <2> QED BY <2>1, <2>2, <2>3 DEF Announced
  <1>5. CASE (\E amount \in Amounts : Spend(amount)) \/ CacheExpires \/ Midnight
    <2>1. raising' = raising /\ missed' = missed
      BY <1>5 DEF Spend, CacheExpires, Midnight, Outside, Quiet, AlertsRest
    <2> QED BY <2>1, ApartAnnounces
  <1>6. CASE CollectSignal
    <2>1. Apart /\ missed' = missed
      BY <1>0, <1>6, SignalMoves DEF CollectSignal, costVars
    <2> QED BY <2>1, ApartAnnounces
  <1>7. CASE Acknowledge \/ DispatcherStep \/ TimePasses
    <2>1. raising' = raising /\ missed' = missed
      BY <1>7 DEF Acknowledge, SetStatus, DispatcherStep, Dispatching, DispatchTick, Post,
                  Mark, DispatchErr, TimePasses, HourPasses, costVars
    <2> QED BY <2>1, ApartAnnounces
  <1>8. CASE Restart
    <2>1. CASE \E i \in DOMAIN alerts : alerts[i].key = level
      BY <2>1, AlertExists
    <2>2. CASE level \in missed \/ \E p \in Callers : level \in Untold(p)
      BY <1>0, <1>8, <2>2 DEF Restart, Announced
    <2> QED BY <2>1, <2>2 DEF Announced
  <1> QED BY <1>1, <1>2, <1>3, <1>4, <1>5, <1>6, <1>7, <1>8 DEF Next

\* The state in Redis changes only to a level whose raise() begins.
LEMMA SeenIsAnnounced ==
    ASSUME Inv, [Next]_vars, NEW level \in Levels, level # "GREEN",
           seen # level, seen' = level
    PROVE  Announced(level)'
  <1>0. CostTypeOK /\ raising \in [Raisers -> Raise] /\ Callers \subseteq Raisers
    BY BudgetAssumption DEF Inv, TypeOK, AlertsTypeOK
  <1>1. PICK p \in Callers : SetSeen(p)
    <2>1. PICK p \in Callers : Calling(p)
      BY DEF Next, vars, costVars, Invoke, RaiseStep, Spend, CacheExpires, Midnight,
             CollectSignal, Acknowledge, DispatcherStep, TimePasses, Restart
    <2> QED
      BY <2>1 DEF Calling, Denied, GetCached, SumLedger, FillCache, GetSeen, Alerted,
                  SweepTasks, Gate, OpenTask, Crawl, EmbedQuery, MeterPage, FinishTask,
                  MeterCall
  <1>2. level = call[p].level /\ BeginRaise(p, level, Severity(level))
    BY <1>1 DEF SetSeen
  <1>3. level \in Keys /\ level # None
    BY KeysOfTheGovernor, RaisersAssumption
  <1>4. raising'[p] = [NotRaising EXCEPT !.pc = "bump", !.key = level, !.rank = Severity(level)]
    BY <1>0, <1>2, <1>3 DEF BeginRaise
  <1>5. raising'[p].pc = "bump" /\ raising'[p].key = level
    BY <1>4 DEF NotRaising
  <1> QED BY <1>5 DEF Announced, Untold

\* A level that Redis remembers has its alert, or a call is about to raise it,
\* or a fault took that call.
THEOREM TransitionIsTold == Spec => []TransitionTold
  <1> DEFINE SeenAnnounced ==
          \A level \in Levels : seen = level /\ level # "GREEN" => Announced(level)
  <1>1. Init => SeenAnnounced
    BY DEF Init, CostInit
  <1>2. ASSUME Inv, SeenAnnounced, [Next]_vars, NEW level \in Levels,
               seen' = level, level # "GREEN"
        PROVE  Announced(level)'
    <2>1. CASE seen = level
      BY <1>2, <2>1, AnnouncedStays
    <2>2. CASE seen # level
      BY <1>2, <2>2, SeenIsAnnounced
    <2> QED BY <2>1, <2>2
  <1>3. Inv /\ SeenAnnounced /\ [Next]_vars => SeenAnnounced'
    BY <1>2
  <1>4. Inv /\ SeenAnnounced => TransitionTold
    BY DEF Inv, TypeOK, CostTypeOK, TransitionTold, Announced
  <1> HIDE DEF SeenAnnounced
  <1> QED BY <1>1, <1>3, <1>4, InvHolds, PTL DEF Spec
-----------------------------------------------------------------------------
\* What a call is refused for.

\* Usage that reaches 90% of a budget, where the ledger does too.
Backed(usage) == Reaches(usage, 90) => Reaches(ledger, 90)

Refusing(level) == level \in {"RED", "KILL"}

\* Until the first midnight, what Redis and the calls hold is backed.
BudgetShape ==
    days = 0 =>
        /\ cached # None => Backed(cached)
        /\ \A p \in Callers :
               /\ Backed(call[p].usage)
               /\ Refusing(call[p].level) => Reaches(ledger, 90)

LEMMA ReachesMore ==
    ASSUME NEW u \in Usage, NEW v \in Usage, \A k \in Kinds : v[k] >= u[k], Reaches(u, 90)
    PROVE  Reaches(v, 90)
  <1> PICK k \in Kinds : u[k] * 100 >= 90 * Limit[k]
    BY DEF Reaches
  <1>1. u[k] \in Nat /\ v[k] \in Nat /\ Limit[k] \in Nat /\ v[k] >= u[k]
    BY BudgetAssumption DEF Usage
  <1>2. v[k] * 100 >= 90 * Limit[k]
    BY <1>1
  <1> QED BY <1>2 DEF Reaches

LEMMA RefusingReaches ==
    ASSUME NEW u \in Usage, Refusing(LevelOf(u))
    PROVE  Reaches(u, 90)
  <1>1. CASE Reaches(u, 100)
    <2> PICK k \in Kinds : u[k] * 100 >= 100 * Limit[k]
      BY <1>1 DEF Reaches
    <2>1. u[k] \in Nat /\ Limit[k] \in Nat
      BY BudgetAssumption DEF Usage
    <2>2. u[k] * 100 >= 90 * Limit[k]
      BY <2>1
    <2> QED BY <2>2 DEF Reaches
  <1>2. CASE ~Reaches(u, 100) /\ ~Reaches(u, 90)
    <2>1. LevelOf(u) \in {"YELLOW", "GREEN"}
      <3>1. Reaches(u, 70) \in BOOLEAN
        BY DEF Reaches
      <3> QED BY <1>2, <3>1 DEF LevelOf
    <2> QED BY <2>1 DEF Refusing
  <1> QED BY <1>1, <1>2

LEMMA NothingReaches == Nothing \in Usage /\ ~Reaches(Nothing, 90)
  <1>1. Nothing \in Usage
    BY DEF Nothing, Usage
  <1>2. \A k \in Kinds : Nothing[k] = 0 /\ Limit[k] \in Nat \ {0}
    BY BudgetAssumption DEF Nothing
  <1>3. \A k \in Kinds : ~(Nothing[k] * 100 >= 90 * Limit[k])
    BY <1>2
  <1> QED BY <1>1, <1>3 DEF Reaches

\* Where the usage of a call may come from.
CallKept(p) == call'[p].usage = call[p].usage /\ call'[p].level = call[p].level
CallFresh(p) == call'[p].usage = Nothing /\ call'[p].level = "GREEN"
CallRead(p, usage) == call'[p].usage = usage /\ call'[p].level = LevelOf(usage)

CallSource(p) ==
    \/ CallKept(p)
    \/ CallFresh(p)
    \/ cached # None /\ CallRead(p, cached)
    \/ CallRead(p, ledger)

CacheSource == cached' \in {cached, None} \/ \E p \in Callers : cached' = call[p].usage

LedgerGrows == days' = days /\ \A k \in Kinds : ledger'[k] >= ledger[k]

LEMMA MeterGrows ==
    ASSUME CostTypeOK, NEW k \in Kinds, NEW amount \in Nat, Meter(k, amount) \/ Record(k, amount)
    PROVE  \A l \in Kinds : ledger'[l] >= ledger[l]
  <1>1. ledger \in [Kinds -> Nat]
    BY DEF CostTypeOK, Usage
  <1> QED BY <1>1 DEF Meter, Record

LEMMA GotoKeeps ==
    ASSUME CostTypeOK, NEW p \in Callers, NEW pc, Goto(p, pc), NEW q \in Callers
    PROVE  CallKept(q)
  <1>1. call \in [Callers -> Call] /\ call[p] \in Call
    BY DEF CostTypeOK
  <1>2. call' = [call EXCEPT ![p] = [call[p] EXCEPT !.pc = pc]]
    BY DEF Goto
  <1>3. /\ [call[p] EXCEPT !.pc = pc].usage = call[p].usage
        /\ [call[p] EXCEPT !.pc = pc].level = call[p].level
    BY <1>1 DEF Call
  <1> QED BY <1>1, <1>2, <1>3 DEF CallKept

LEMMA AnswerFrees ==
    ASSUME CostTypeOK, NEW p \in Callers, Answer(p), NEW q \in Callers
    PROVE  CallKept(q) \/ CallFresh(q)
  BY DEF CostTypeOK, Answer, NotCalling, CallKept, CallFresh

LEMMA ReadSets ==
    ASSUME CostTypeOK, NEW p \in Callers, NEW pc \in CallPc, NEW usage \in Usage,
           call' = [call EXCEPT ![p].pc = pc, ![p].usage = usage, ![p].level = LevelOf(usage)],
           NEW q \in Callers
    PROVE  CallKept(q) \/ CallRead(q, usage)
  <1>1. call \in [Callers -> Call] /\ call[p] \in Call
    BY DEF CostTypeOK
  <1> DEFINE level == LevelOf(usage)
             c == [call[p] EXCEPT !.pc = pc, !.usage = usage, !.level = level]
  <1>2. call' = [call EXCEPT ![p] = c]
    OBVIOUS
  <1> HIDE DEF level
  <1>3. c.usage = usage /\ c.level = level
    BY <1>1 DEF Call
  <1> HIDE DEF c
  <1> QED BY <1>1, <1>2, <1>3 DEF CallKept, CallRead, level

\* What a statement of a call reads, and what it writes.
LEMMA CallingReads ==
    ASSUME CostTypeOK, NEW p \in Callers, Calling(p), NEW q \in Callers
    PROVE  CallSource(q) /\ CacheSource /\ LedgerGrows
  <1>0. ledger \in Usage /\ \A k \in Kinds : ledger[k] \in Nat
    BY DEF CostTypeOK, Usage
  <1>1. CASE UNCHANGED <<ledger, cached, days>> /\ CallSource(q)
    BY <1>0, <1>1 DEF CacheSource, LedgerGrows
  <1>2. CASE Denied(p)
    BY <1>1, <1>2, AnswerFrees DEF Denied, CallSource
  <1>3. CASE GetCached(p)
    <2>1. CASE Goto(p, "sum")
      BY <1>1, <1>3, <2>1, GotoKeeps DEF GetCached, CallSource
    <2>2. CASE /\ cached # None
               /\ call' = [call EXCEPT ![p].pc = "seen", ![p].usage = cached,
                                       ![p].level = LevelOf(cached)]
      <3>1. cached # None /\ UNCHANGED <<ledger, cached, days>> /\ cached \in Usage
        BY <1>3, <2>2 DEF GetCached, CostTypeOK
      <3>2. "seen" \in CallPc
        BY DEF CallPc
      <3>3. CallKept(q) \/ CallRead(q, cached)
        BY <2>2, <3>1, <3>2, ReadSets
      <3> QED BY <1>1, <3>1, <3>3 DEF CallSource
    <2> QED BY <1>3, <2>1, <2>2 DEF GetCached
  <1>4. CASE SumLedger(p)
    <2>1. CASE Goto(p, "seen")
      BY <1>1, <1>4, <2>1, GotoKeeps DEF SumLedger, CallSource
    <2>2. CASE call' = [call EXCEPT ![p].pc = "fill", ![p].usage = ledger, ![p].level = LevelOf(ledger)]
      <3>1. UNCHANGED <<ledger, cached, days>> /\ ledger \in Usage
        BY <1>4, <2>2 DEF SumLedger, CostTypeOK
      <3>2. "fill" \in CallPc
        BY DEF CallPc
      <3>3. CallKept(q) \/ CallRead(q, ledger)
        BY <2>2, <3>1, <3>2, ReadSets
      <3> QED BY <1>1, <3>1, <3>3 DEF CallSource
    <2> QED BY <1>4, <2>1, <2>2 DEF SumLedger
  <1>5. CASE FillCache(p)
    <2>1. CallKept(q)
      BY <1>5, GotoKeeps DEF FillCache
    <2>2. UNCHANGED <<ledger, days>> /\ cached' \in {cached, call[p].usage}
      BY <1>5 DEF FillCache
    <2> QED BY <1>0, <2>1, <2>2 DEF CallSource, CacheSource, LedgerGrows
  <1>6. CASE GetSeen(p)
    BY <1>1, <1>6, GotoKeeps DEF GetSeen, CallSource
  <1>7. CASE SetSeen(p)
    <2>1. Goto(p, "gate") \/ Goto(p, "alerting")
      BY <1>7 DEF SetSeen
    <2> QED BY <1>1, <1>7, <2>1, GotoKeeps DEF SetSeen, CallSource
  <1>8. CASE Alerted(p) \/ SweepTasks(p)
    BY <1>1, <1>8, GotoKeeps DEF Alerted, SweepTasks, CallSource
  <1>9. CASE Gate(p)
    BY <1>1, <1>9, GotoKeeps, AnswerFrees DEF Gate, CallSource
  <1>10. CASE OpenTask(p) \/ FinishTask(p)
    <2>1. Goto(p, "work") \/ Goto(p, "meter")
      BY <1>10 DEF OpenTask, FinishTask
    <2> QED BY <1>1, <1>10, <2>1, GotoKeeps DEF OpenTask, FinishTask, CallSource
  <1>11. CASE Crawl(p)
    BY <1>1, <1>11, GotoKeeps DEF Crawl, CallSource
  <1>12. CASE MeterPage(p)
    <2>1. \A k \in Kinds : ledger'[k] >= ledger[k]
      BY <1>12, MeterGrows, BudgetAssumption DEF MeterPage
    <2> QED BY <1>12, <2>1, GotoKeeps DEF MeterPage, CallSource, CacheSource, LedgerGrows
  <1>13. CASE MeterCall(p)
    <2>1. \A k \in Kinds : ledger'[k] >= ledger[k]
      BY <1>13, MeterGrows, BudgetAssumption DEF MeterCall
    <2> QED BY <1>13, <2>1, AnswerFrees DEF MeterCall, CallSource, CacheSource, LedgerGrows
  <1>14. ASSUME NEW amount \in Amounts \cup {0}, EmbedQuery(p, amount)
         PROVE  CallSource(q) /\ CacheSource /\ LedgerGrows
    <2>1. \A k \in Kinds : ledger'[k] >= ledger[k]
      BY <1>14, MeterGrows, BudgetAssumption DEF EmbedQuery
    <2> QED BY <1>14, <2>1, GotoKeeps DEF EmbedQuery, CallSource, CacheSource, LedgerGrows
  <1> QED
    BY <1>2, <1>3, <1>4, <1>5, <1>6, <1>7, <1>8, <1>9, <1>10, <1>11, <1>12, <1>13, <1>14
       DEF Calling

LEMMA BudgetReads ==
    ASSUME Inv, [Next]_vars, days' = 0
    PROVE  /\ \A q \in Callers : CallSource(q)
           /\ CacheSource
           /\ LedgerGrows
  <1> SUFFICES /\ \A q \in Callers : CallSource(q)
               /\ CacheSource
               /\ LedgerGrows
    OBVIOUS
  <1>0. /\ CostTypeOK /\ ledger \in Usage /\ \A k \in Kinds : ledger[k] \in Nat
    BY DEF Inv, TypeOK, CostTypeOK, Usage
  <1>1. CASE UNCHANGED <<ledger, days>> /\ cached' \in {cached, None} /\ call' = call
    BY <1>0, <1>1 DEF CallSource, CallKept, CacheSource, LedgerGrows
  <1>2. CASE UNCHANGED vars
    BY <1>1, <1>2 DEF vars, costVars
  <1>3. ASSUME NEW p \in Callers, NEW tool \in Tools, NEW admin \in BOOLEAN,
               Invoke(p, tool, admin)
        PROVE  (\A q \in Callers : CallSource(q)) /\ CacheSource /\ LedgerGrows
    <2> DEFINE pc == IF tool \in AdminTools /\ ~admin THEN "denying" ELSE "usage"
    <2>1. call' = [call EXCEPT ![p] =
                      [NotCalling EXCEPT !.pc = pc, !.tool = tool, !.task = requests']]
      BY <1>3 DEF Invoke
    <2>2. UNCHANGED <<ledger, days, cached>>
      BY <1>3 DEF Invoke
    <2> HIDE DEF pc
    <2>3. \A q \in Callers : CallFresh(q) \/ CallKept(q)
      BY <1>0, <2>1 DEF CostTypeOK, NotCalling, CallFresh, CallKept
    <2> QED BY <1>0, <2>2, <2>3 DEF CallSource, CacheSource, LedgerGrows
  <1>4. ASSUME NEW p \in Callers, Calling(p)
        PROVE  (\A q \in Callers : CallSource(q)) /\ CacheSource /\ LedgerGrows
    BY <1>0, <1>4, CallingReads
  <1>5. ASSUME NEW amount \in Amounts, Spend(amount)
        PROVE  (\A q \in Callers : CallSource(q)) /\ CacheSource /\ LedgerGrows
    <2>1. \A k \in Kinds : ledger'[k] >= ledger[k]
      BY <1>0, <1>5, MeterGrows, BudgetAssumption DEF Spend
    <2> QED BY <1>5, <2>1 DEF Spend, CallSource, CallKept, CacheSource, LedgerGrows
  <1>6. CASE CacheExpires \/ CollectSignal \/ Acknowledge \/ DispatcherStep \/ TimePasses
    BY <1>1, <1>6 DEF CacheExpires, CollectSignal, Acknowledge, DispatcherStep, TimePasses,
                      costVars
  <1>7. CASE \E p \in Raisers : RaiseStep(p)
    BY <1>1, <1>7 DEF RaiseStep, callVars
  <1>8. ~Midnight
    <2>1. days \in Nat
      BY <1>0, BoundsAreNat DEF CostTypeOK
    <2> QED BY <2>1 DEF Midnight
  <1>9. CASE Restart
    <2>1. \A q \in Callers : CallFresh(q)
      BY <1>9 DEF Restart, NotCalling, CallFresh
    <2> QED BY <1>0, <1>9, <2>1 DEF Restart, CallSource, CacheSource, LedgerGrows
  <1> QED BY <1>2, <1>3, <1>4, <1>5, <1>6, <1>7, <1>8, <1>9 DEF Next

LEMMA BudgetMoves ==
    ASSUME Inv, BudgetShape, [Next]_vars
    PROVE  BudgetShape'
  <1> SUFFICES ASSUME days' = 0
               PROVE  /\ cached' # None => Backed(cached)'
                      /\ \A p \in Callers :
                             /\ Backed(call[p].usage)'
                             /\ Refusing(call'[p].level) => Reaches(ledger', 90)
    BY DEF BudgetShape
  <1>0. CostTypeOK /\ CostTypeOK'
    BY InvMove
  <1>1. /\ \A q \in Callers : CallSource(q)
        /\ CacheSource /\ LedgerGrows /\ days = 0
    BY BudgetReads DEF LedgerGrows
  <1>2. Reaches(ledger, 90) => Reaches(ledger', 90)
    BY <1>0, <1>1, ReachesMore DEF CostTypeOK, LedgerGrows
  <1>3. /\ cached # None => (Reaches(cached, 90) => Reaches(ledger', 90))
        /\ \A p \in Callers :
               /\ Reaches(call[p].usage, 90) => Reaches(ledger', 90)
               /\ Refusing(call[p].level) => Reaches(ledger', 90)
    BY <1>1, <1>2 DEF BudgetShape, Backed
  <1>4. cached' # None => (Reaches(cached', 90) => Reaches(ledger', 90))
    BY <1>1, <1>3 DEF CacheSource
  <1>5. ASSUME NEW p \in Callers
        PROVE  /\ Reaches(call'[p].usage, 90) => Reaches(ledger', 90)
               /\ Refusing(call'[p].level) => Reaches(ledger', 90)
    <2>1. CASE CallKept(p)
      BY <1>3, <2>1 DEF CallKept
    <2>2. CASE CallFresh(p)
      BY <2>2, NothingReaches DEF CallFresh, Refusing
    <2>3. CASE cached # None /\ CallRead(p, cached)
      <3>1. cached \in Usage
        BY <1>0, <2>3 DEF CostTypeOK
      <3> QED BY <1>3, <2>3, <3>1, RefusingReaches DEF CallRead
    <2>4. CASE CallRead(p, ledger)
      <3>1. ledger \in Usage
        BY <1>0 DEF CostTypeOK
      <3> QED BY <1>2, <2>4, <3>1, RefusingReaches DEF CallRead
    <2> QED BY <1>1, <2>1, <2>2, <2>3, <2>4 DEF CallSource
  <1> QED BY <1>4, <1>5 DEF Backed

\* Before the first midnight a call is refused only when 90% of a budget is
\* spent, whatever Redis remembers and whichever statements fail.
THEOREM RefusalsAreRight == Spec => RefusedRightly
  <1> DEFINE Right ==
          \A p \in Callers :
              Gate(p) /\ call'[p].pc = "idle" => Reaches(ledger, 90) \/ days > 0
  <1>1. Init => BudgetShape
    BY NothingReaches DEF Init, CostInit, BudgetShape, Backed, Refusing, NotCalling
  <1>2. Inv /\ BudgetShape /\ [Next]_vars => BudgetShape'
    BY BudgetMoves
  <1>3. Inv /\ BudgetShape /\ [Next]_vars => [Right]_vars
    <2> SUFFICES ASSUME Inv, BudgetShape, NEW p \in Callers, Gate(p), call'[p].pc = "idle",
                        ~(days > 0)
                 PROVE  Reaches(ledger, 90)
      BY DEF Right
    <2>0. call \in [Callers -> Call] /\ call[p] \in Call /\ days = 0
      BY BoundsAreNat DEF Inv, TypeOK, CostTypeOK
    <2>1. Refused(p)
      <3> DEFINE pc == CASE call[p].tool \in CrawlTools -> "open"
                         [] call[p].tool \in TokenTools -> "work"
                         [] OTHER -> "meter"
      <3>1. pc \in {"open", "work", "meter"}
        OBVIOUS
      <3>2. ~Refused(p) => Goto(p, pc)
        BY DEF Gate
      <3> HIDE DEF pc
      <3>3. Goto(p, pc) => call'[p].pc = pc
        BY <2>0 DEF Goto, Call
      <3> QED BY <3>1, <3>2, <3>3
    <2>2. Refusing(call[p].level)
      BY <2>1 DEF Refused, Refusing
    <2> QED BY <2>0, <2>2 DEF BudgetShape
  <1>4. RefusedRightly <=> [][Right]_vars
    BY DEF RefusedRightly
  <1> HIDE DEF Right
  <1> QED BY <1>1, <1>2, <1>3, <1>4, InvHolds, PTL DEF Spec
=============================================================================
