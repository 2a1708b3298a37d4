----------------------------- MODULE Governance -----------------------------
(***************************************************************************)
(* The budget governor and the alert engine together: tool calls of one    *)
(* agent and signals of the collectors raise alerts, the dispatcher posts  *)
(* them, somebody acknowledges them, and hub-core may stop at any point.   *)
(***************************************************************************)
EXTENDS CostGovernor

vars == <<alertVars, costVars>>

ASSUME AlertKeysAssumption == (Levels \ {"GREEN"}) \cup {"l3deny"} \subseteq Keys

TypeOK == AlertsTypeOK /\ CostTypeOK

Init == AlertsInit /\ CostInit

\* The level whose alert p has not inserted or bumped yet.
Untold(p) == IF raising[p].pc \in {"bump", "insert"} THEN {raising[p].key} \cap Levels ELSE {}

\* A statement of p's raise(); a fault may take an alert that was due.
RaiseStep(p) ==
    /\ Raising(p)
    /\ missed' = IF faults' = faults THEN missed ELSE missed \cup Untold(p)
    /\ UNCHANGED <<ledger, cached, seen, callVars, spends, days>>

CollectSignal ==
    /\ \E m \in Monitors, key \in MonitorKeys, rank \in {1, 2} : Signal(m, key, rank)
    /\ UNCHANGED costVars

Acknowledge == (\E i \in DOMAIN alerts : SetStatus(i)) /\ UNCHANGED costVars

DispatcherStep == Dispatching /\ UNCHANGED costVars

TimePasses == HourPasses /\ UNCHANGED costVars

\* hub-core stops and is started again; PostgreSQL and Redis keep what they have.
Restart ==
    /\ AlertsRestart
    /\ missed' = missed \cup UNION {Untold(p) : p \in Raisers}
    /\ call' = [p \in Callers |-> NotCalling]
    /\ UNCHANGED <<ledger, cached, seen, tasks, spends, days>>

Next ==
    \/ \E p \in Callers, tool \in Tools, admin \in BOOLEAN : Invoke(p, tool, admin)
    \/ \E p \in Callers : Calling(p)
    \/ \E p \in Raisers : RaiseStep(p)
    \/ \E amount \in Amounts : Spend(amount)
    \/ CacheExpires
    \/ Midnight
    \/ CollectSignal
    \/ Acknowledge
    \/ DispatcherStep
    \/ TimePasses
    \/ Restart

Spec == Init /\ [][Next]_vars

\* The dispatcher is a spawned task that ticks every 5 seconds.
Fairness == WF_vars(DispatcherStep)

FairSpec == Spec /\ Fairness

-----------------------------------------------------------------------------
\* Properties of the two together.

\* A level other than GREEN that Redis remembers has its alert, or a call is on
\* its way to raise it, or a fault took that call: later calls find the level
\* already seen and stay silent.
TransitionTold ==
    seen # "GREEN" =>
        \/ \E i \in DOMAIN alerts : alerts[i].key = seen
        \/ \E p \in Callers : seen \in Untold(p)
        \/ seen \in missed

\* A call is refused only when the agent or everybody together really spent 90%
\* of a budget, or, until the cache expires, had done so before midnight.
RefusedRightly ==
    [][\A p \in Callers :
           Gate(p) /\ call'[p].pc = "idle" => Reaches(ledger, 90) \/ days > 0]_vars

\* "KILL >=100% (everything read-only + running tasks terminated)", says the
\* design of hub-core 2b: when a call has announced KILL and swept, no task of
\* the agent is running.
KillTerminates ==
    [][\A p \in Callers :
           SweepTasks(p) => \A t \in DOMAIN tasks : tasks'[t] # "running"]_vars
=============================================================================
