------------------------------- MODULE Alerts -------------------------------
(***************************************************************************)
(* The alert engine of alerts.rs: raise() with its dedupe and its decaying *)
(* cooldown, acknowledgement, and the dispatcher that posts what raise()   *)
(* queued.  Every statement is a step of its own, as nothing in the module *)
(* runs in a transaction.                                                  *)
(*                                                                         *)
(* raise() is a procedure: BeginRaise is its call, and it has returned when *)
(* raising[p].pc is "idle" again.  A clock counts hours.  Left out: what an *)
(* alert says, its occurrence counter, bus events, the order of the pending *)
(* rows (the dispatcher takes any of them) and the backoff it writes into  *)
(* created_at, which its SELECT does not look at.                          *)
(***************************************************************************)
EXTENDS Integers, Sequences, FiniteSets

CONSTANTS
    Raisers,      \* tasks of the process that call raise()
    Monitors,     \* those of them that collect requests
    Keys,         \* dedupe keys
    MonitorKeys,  \* those that start with "monitor:"
    None,         \* no value; as a key: an alert that is never deduplicated
    Channels,     \* the configured endpoints, in the order raise() serves them
    MinRank,      \* alert_webhook_min_severity: 0 info, 1 warning, 2 critical
    Retries,      \* failures that are retried, 2 in the code
    BatchLimit,   \* LIMIT of the dispatcher's SELECT, 10 in the code
    BumpWindow,   \* hours during which an open alert absorbs its repeats, 1
    Gap,          \* hours of silence after the n-th delivered alert: 6, 12, 24
    MaxRequests,  \* bound: signals and tool calls, each raises at most one alert
    MaxHours,     \* bound: hours that pass
    MaxFaults,    \* bound: failed statements, lost replies, crashes
    MaxEvents     \* bound: all of what happens besides, taken together

ASSUME RaisersAssumption == Monitors \subseteq Raisers /\ None \notin Keys
ASSUME KeysAssumption == MonitorKeys \subseteq Keys
ASSUME ChannelsAssumption == Channels \in Seq({"webhook", "telegram"})
ASSUME LimitsAssumption ==
    /\ {MinRank, Retries, MaxRequests, MaxHours, MaxFaults, MaxEvents} \subseteq Nat
    /\ BatchLimit \in Nat \ {0}
    /\ BumpWindow \in Nat \ {0}
    /\ Gap \in [1 .. 3 -> Nat]

VARIABLES
    alerts,      \* rows of alerts, in the order of their insertion
    deliveries,  \* rows of alert_deliveries, by alert and position in Channels
    raising,     \* the raise() each raiser is in
    dispatcher,  \* run_dispatcher and the dispatch_once it is in
    clock,       \* hours since the start
    requests,    \* how much of MaxRequests is used
    faults,      \* how much of MaxFaults is used
    events,      \* how much of MaxEvents is used
    posts,       \* history: how often each delivery reached its endpoint
    cut          \* history: alerts whose raise() a fault ended

alertVars == <<alerts, deliveries, raising, dispatcher, clock, requests, faults,
               events, posts, cut>>

Ids == 1 .. MaxRequests
Ranks == 0 .. 2
Notices == Ids \X (1 .. Len(Channels))

Alert ==
    [key : Keys \cup {None}, rank : Ranks, open : BOOLEAN, at : Nat,
     looked : Nat]  \* looked is history: the rows there were when it was looked up
Delivery ==
    [status : {"none", "PENDING", "DELIVERED", "FAILED"}, attempts : Nat, at : Nat]
Raise ==
    [pc : {"idle", "bump", "insert", "cooldown", "enqueue"},
     key : Keys \cup {None}, rank : Ranks, alert : 0 .. MaxRequests,
     looked : Nat, channel : Nat]
Dispatch ==
    [pc : {"idle", "post", "mark"}, batch : SUBSET Notices,
     row : Notices \cup {None}, ok : BOOLEAN]

NoDelivery == [status |-> "none", attempts |-> 0, at |-> 0]
NotRaising ==
    [pc |-> "idle", key |-> None, rank |-> 0, alert |-> 0, looked |-> 0,
     channel |-> 1]
Idle == [pc |-> "idle", batch |-> {}, row |-> None, ok |-> FALSE]

AlertsTypeOK ==
    /\ alerts \in Seq(Alert) /\ Len(alerts) <= MaxRequests
    /\ deliveries \in [Notices -> Delivery]
    /\ raising \in [Raisers -> Raise]
    /\ dispatcher \in Dispatch
    /\ clock \in 0 .. MaxHours
    /\ requests \in 0 .. MaxRequests
    /\ faults \in 0 .. MaxFaults
    /\ events \in 0 .. MaxEvents
    /\ posts \in [Notices -> Nat]
    /\ cut \subseteq Ids

AlertsInit ==
    /\ alerts = <<>>
    /\ deliveries = [n \in Notices |-> NoDelivery]
    /\ raising = [p \in Raisers |-> NotRaising]
    /\ dispatcher = Idle
    /\ clock = 0
    /\ requests = 0
    /\ faults = 0
    /\ events = 0
    /\ posts = [n \in Notices |-> 0]
    /\ cut = {}

\* A signal or a tool call comes in.
Request == requests < MaxRequests /\ requests' = requests + 1

\* One of the other things that may happen to the process from outside.
Event == events < MaxEvents /\ events' = events + 1

\* Something goes wrong, and raise() will not come back to the alerts of lost.
Fault(lost) ==
    /\ Event
    /\ faults < MaxFaults
    /\ faults' = faults + 1
    /\ cut' = cut \cup lost

NoFault == UNCHANGED <<faults, cut, events>>
EventOnly == Event /\ UNCHANGED <<faults, cut>>
Known(p) == {raising[p].alert} \ {0}

-----------------------------------------------------------------------------
\* raise()

\* updated_at > now() - interval '1 hour'
Fresh(i) == alerts[i].at + BumpWindow > clock

BeginRaise(p, key, rank) ==
    /\ raising[p].pc = "idle"
    /\ raising' = [raising EXCEPT ![p] =
           [NotRaising EXCEPT !.pc = IF key = None THEN "insert" ELSE "bump",
                              !.key = key, !.rank = rank]]

\* Mutant of Absorbing: only warnings are deduplicated.
AbsorbingWarnings(key) ==
    {i \in DOMAIN alerts : /\ alerts[i].key = key /\ alerts[i].rank = 1
                           /\ alerts[i].open /\ Fresh(i)}

\* The open alerts that take up a repeat of the key.
Absorbing(key) == {i \in DOMAIN alerts : alerts[i].key = key /\ alerts[i].open /\ Fresh(i)}

\* The UPDATE bumps every open fresh alert of the key; without one, on to the INSERT.
Bump(p) ==
    /\ raising[p].pc = "bump"
    /\ LET found == Absorbing(raising[p].key)
       IN  /\ alerts' = [i \in DOMAIN alerts |->
                  IF i \in found THEN [alerts[i] EXCEPT !.at = clock] ELSE alerts[i]]
           /\ raising' = [raising EXCEPT ![p] =
                  IF found # {} THEN NotRaising
                  ELSE [@ EXCEPT !.pc = "insert", !.looked = Len(alerts)]]
    /\ NoFault
    /\ UNCHANGED <<deliveries, dispatcher, clock, requests, posts>>

InsertAlert(p) ==
    /\ raising[p].pc = "insert"
    /\ Len(alerts) < MaxRequests
    /\ alerts' = Append(alerts,
           [key |-> raising[p].key, rank |-> raising[p].rank, open |-> TRUE,
            at |-> clock, looked |-> raising[p].looked])
    /\ raising' = [raising EXCEPT
           ![p].alert = Len(alerts) + 1,
           ![p].pc = IF raising[p].key \in MonitorKeys THEN "cooldown" ELSE "enqueue"]
    /\ NoFault
    /\ UNCHANGED <<deliveries, dispatcher, clock, requests, posts>>

\* Mutant of Told: deliveries count before they are delivered.
ToldOrQueued(key) ==
    {n \in Notices : /\ deliveries[n].status # "none"
                     /\ n[1] \in DOMAIN alerts
                     /\ alerts[n[1]].key = key}

\* The delivered rows of the alerts with this key.
Told(key) ==
    {n \in Notices : /\ deliveries[n].status = "DELIVERED"
                     /\ n[1] \in DOMAIN alerts
                     /\ alerts[n[1]].key = key}

\* The more alerts of the key were delivered, the longer the next one is kept back.
Suppressed(key) ==
    LET prior == Cardinality({n[1] : n \in Told(key)})
        gap == Gap[IF prior > 3 THEN 3 ELSE prior]
    IN  prior > 0 /\ \E n \in Told(key) : clock < deliveries[n].at + gap

\* The cooldown statement may fail; the alert is then delivered.
Cooldown(p) ==
    /\ raising[p].pc = "cooldown"
    /\ \/ /\ raising' = [raising EXCEPT ![p] =
                 IF Suppressed(raising[p].key) THEN NotRaising
                 ELSE [@ EXCEPT !.pc = "enqueue"]]
          /\ NoFault
       \/ /\ raising' = [raising EXCEPT ![p].pc = "enqueue"]
          /\ Fault({})
    /\ UNCHANGED <<alerts, deliveries, dispatcher, clock, requests, posts>>

\* One INSERT per configured channel, when the alert is severe enough.
Enqueue(p) ==
    /\ raising[p].pc = "enqueue"
    /\ LET c == raising[p].channel
       IN  IF raising[p].rank >= MinRank /\ c <= Len(Channels)
           THEN /\ deliveries' = [deliveries EXCEPT
                       ![<<raising[p].alert, c>>] = [NoDelivery EXCEPT !.status = "PENDING"]]
                /\ raising' = [raising EXCEPT ![p] =
                       IF c = Len(Channels) THEN NotRaising ELSE [@ EXCEPT !.channel = c + 1]]
           ELSE /\ raising' = [raising EXCEPT ![p] = NotRaising]
                /\ UNCHANGED deliveries
    /\ NoFault
    /\ UNCHANGED <<alerts, dispatcher, clock, requests, posts>>

\* A statement of raise() fails: its callers drop the error.
RaiseErr(p) ==
    /\ raising[p].pc \in {"bump", "insert", "enqueue"}
    /\ raising' = [raising EXCEPT ![p] = NotRaising]
    /\ Fault(Known(p))
    /\ UNCHANGED <<alerts, deliveries, dispatcher, clock, requests, posts>>

Raising(p) == Bump(p) \/ InsertAlert(p) \/ Cooldown(p) \/ Enqueue(p) \/ RaiseErr(p)

\* A collector finds a flash or priority signal.
Signal(m, key, rank) ==
    /\ Request
    /\ BeginRaise(m, key, rank)
    /\ NoFault
    /\ UNCHANGED <<alerts, deliveries, dispatcher, clock, posts>>

-----------------------------------------------------------------------------
\* set_status() to ack or muted

SetStatus(i) ==
    /\ alerts[i].open
    /\ alerts' = [alerts EXCEPT ![i].open = FALSE, ![i].at = clock]
    /\ EventOnly
    /\ UNCHANGED <<deliveries, raising, dispatcher, clock, requests, posts>>

-----------------------------------------------------------------------------
\* dispatch_once(), every 5 s in one worker

\* Mutant of Pending: the retried rows are not selected again.
PendingUntried ==
    {n \in Notices : deliveries[n].status = "PENDING" /\ deliveries[n].attempts = 0}

Pending == {n \in Notices : deliveries[n].status = "PENDING"}

DispatchTick ==
    /\ dispatcher.pc = "idle"
    /\ Pending # {}
    /\ \E batch \in SUBSET Pending :
           /\ \/ Cardinality(batch) = BatchLimit
              \/ Cardinality(Pending) <= BatchLimit /\ batch = Pending
           /\ dispatcher' = [Idle EXCEPT !.pc = "post", !.batch = batch]
    /\ NoFault
    /\ UNCHANGED <<alerts, deliveries, raising, clock, requests, posts>>

\* The endpoint takes it or not; when it does the answer may still be an error
\* or late.
Post(n, arrives, ok) ==
    /\ dispatcher.pc = "post"
    /\ n \in dispatcher.batch
    /\ ok => arrives
    /\ posts' = [posts EXCEPT ![n] = IF arrives THEN @ + 1 ELSE @]
    /\ dispatcher' = [dispatcher EXCEPT !.pc = "mark", !.row = n, !.ok = ok]
    /\ NoFault
    /\ UNCHANGED <<alerts, deliveries, raising, clock, requests>>

\* Mutant of Outcome: a retry does not count its attempt.
OutcomeUncounted(d, ok) ==
    [d EXCEPT !.attempts = IF ok \/ @ >= Retries THEN @ + 1 ELSE @,
              !.status = IF ok THEN "DELIVERED"
                         ELSE IF d.attempts >= Retries THEN "FAILED" ELSE @,
              !.at = IF ok THEN clock ELSE @]

\* Mutant of Outcome: the last attempt counts as delivered.
OutcomeAssumed(d, ok) ==
    [d EXCEPT !.attempts = @ + 1,
              !.status = IF ok \/ d.attempts >= Retries THEN "DELIVERED" ELSE @,
              !.at = IF ok THEN clock ELSE @]

\* What the UPDATE makes of the row: delivered, failed for good, or to be retried.
Outcome(d, ok) ==
    [d EXCEPT !.attempts = @ + 1,
              !.status = IF ok THEN "DELIVERED"
                         ELSE IF d.attempts >= Retries THEN "FAILED" ELSE @,
              !.at = IF ok THEN clock ELSE @]

Mark ==
    /\ dispatcher.pc = "mark"
    /\ deliveries' = [deliveries EXCEPT ![dispatcher.row] = Outcome(@, dispatcher.ok)]
    /\ LET left == dispatcher.batch \ {dispatcher.row}
       IN  dispatcher' = IF left = {} THEN Idle
                         ELSE [Idle EXCEPT !.pc = "post", !.batch = left]
    /\ NoFault
    /\ UNCHANGED <<alerts, raising, clock, requests, posts>>

\* The SELECT or an UPDATE fails: the tick is over.
DispatchErr ==
    /\ dispatcher.pc = "mark"
    /\ dispatcher' = Idle
    /\ Fault({})
    /\ UNCHANGED <<alerts, deliveries, raising, clock, requests, posts>>

Dispatching ==
    \/ DispatchTick
    \/ \E n \in dispatcher.batch, arrives, ok \in BOOLEAN : Post(n, arrives, ok)
    \/ Mark
    \/ DispatchErr

-----------------------------------------------------------------------------
\* Time, and the process's end.

HourPasses ==
    /\ clock < MaxHours
    /\ clock' = clock + 1
    /\ EventOnly
    /\ UNCHANGED <<alerts, deliveries, raising, dispatcher, requests, posts>>

\* hub-core stops; what it had in memory is gone.
AlertsRestart ==
    /\ raising' = [p \in Raisers |-> NotRaising]
    /\ dispatcher' = Idle
    /\ Fault(UNION {Known(p) : p \in Raisers})
    /\ UNCHANGED <<alerts, deliveries, clock, requests, posts>>

-----------------------------------------------------------------------------
\* What the engine promises.

\* alert_deliveries, seen as notices that are owed, told or given up.
Fate(status) ==
    CASE status = "none" -> "none"
      [] status = "PENDING" -> "owed"
      [] status = "DELIVERED" -> "told"
      [] status = "FAILED" -> "given up"

Delivering ==
    INSTANCE AlertDelivery
        WITH fate <- [n \in Notices |-> Fate(deliveries[n].status)],
             heard <- {n \in Notices : posts[n] > 0}

\* raise(), the dispatcher, its retries, its lost replies and its restarts
\* implement AlertDelivery: what is told was heard, and what is settled is
\* neither reopened nor posted again.
DeliveryRefines == Delivering!Spec

\* A delivery that was queued is DELIVERED or FAILED in the end, whatever the
\* endpoint does: the retries are bounded and no row is left behind.
NoticesSettle == Delivering!Settles

\* An endpoint receives a notice more often than the row counts attempts only
\* because an answer was being marked, or a fault took the mark.
PostsAccounted ==
    \A n \in Notices :
        LET inFlight == IF dispatcher.pc = "mark" /\ dispatcher.row = n THEN 1 ELSE 0
        IN  posts[n] <= deliveries[n].attempts + inFlight + faults

\* An alert severe enough that some channel never hears of is still being
\* raised, lost its raise() to a fault, or is kept back by the cooldown because
\* another alert of the same key was delivered.
SilenceExplained ==
    \A i \in DOMAIN alerts, c \in DOMAIN Channels :
        deliveries[<<i, c>>].status = "none" /\ alerts[i].rank >= MinRank =>
            \/ \E p \in Raisers : raising[p].alert = i
            \/ i \in cut
            \/ /\ alerts[i].key \in MonitorKeys
               /\ \E j \in DOMAIN alerts, d \in DOMAIN Channels :
                      /\ j # i
                      /\ alerts[j].key = alerts[i].key
                      /\ deliveries[<<j, d>>].status = "DELIVERED"

\* Two open alerts of one key can both be young enough to absorb the next
\* repeat only if the second raiser had looked before the first one inserted.
TwinsRaced ==
    \A i, j \in DOMAIN alerts :
        /\ i < j
        /\ alerts[i].key = alerts[j].key /\ alerts[i].key # None
        /\ alerts[i].open /\ alerts[j].open
        /\ Fresh(i) /\ Fresh(j)
        => alerts[j].looked < i
=============================================================================
