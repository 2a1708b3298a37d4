---------------------------- MODULE CostGovernor ----------------------------
(***************************************************************************)
(* The budget governor of cost.rs and the gate of policy.rs for the calls  *)
(* of one agent: preflight, the tool, and the metering after it.  Raising  *)
(* an alert is a call into Alerts; the two meet in Governance.             *)
(*                                                                         *)
(* A budget is one kind of cost with its daily limit; the global ceilings  *)
(* are further kinds.  Redis keeps the usage of the last 30 seconds and the *)
(* state that was last seen.  Left out: audit rows, bus events, what a tool *)
(* does beyond its task and its costs.                                     *)
(***************************************************************************)
EXTENDS Alerts

CONSTANTS
    Callers,      \* tool calls of the agent that run at the same time
    Kinds,        \* kinds of cost with a budget
    Limit,        \* daily limit of each kind
    Tools,        \* names of tools
    RedAllowed,   \* RED_ALLOWED
    KillAllowed,  \* KILL_ALLOWED
    AdminTools,   \* tools of risk level 3
    CrawlTools,   \* tools that create a task and crawl
    TokenTools,   \* tools that embed their query
    Amounts,      \* tokens one embedding may cost
    MaxSpends,    \* bound: costs recorded outside of tool calls
    MaxDays       \* bound: midnights (UTC)

ASSUME BudgetAssumption ==
    /\ {"tool_call", "crawl_page", "embedding_tokens"} \subseteq Kinds
    /\ Limit \in [Kinds -> Nat \ {0}]
    /\ Amounts \subseteq Nat \ {0}
    /\ {MaxSpends, MaxDays} \subseteq Nat
    /\ Callers \subseteq Raisers \ Monitors
ASSUME ToolsAssumption ==
    /\ RedAllowed \cup KillAllowed \cup AdminTools \cup CrawlTools \cup TokenTools
           \subseteq Tools
    /\ CrawlTools \cap TokenTools = {}
    /\ Tools \subseteq STRING /\ None \notin STRING

VARIABLES
    ledger,  \* cost_records of today, summed by kind
    cached,  \* hub:budget_usage in Redis, None when it expired
    seen,    \* hub:budget_state in Redis, GREEN when it is absent
    tasks,   \* status of the task each call created
    call,    \* what each caller is doing
    spends,  \* how much of MaxSpends is used
    days,    \* how much of MaxDays is used
    missed   \* history: levels a fault kept from being told

costVars == <<ledger, cached, seen, tasks, call, spends, days, missed>>
callVars == <<tasks, call>>

Levels == {"GREEN", "YELLOW", "RED", "KILL"}
Usage == [Kinds -> Nat]
Call ==
    [pc : {"idle", "denying", "usage", "sum", "fill", "seen", "set", "alerting",
           "sweep", "gate", "open", "work", "page", "finish", "meter"},
     tool : Tools \cup {None}, usage : Usage, level : Levels, task : 0 .. MaxRequests]

Nothing == [k \in Kinds |-> 0]
NotCalling ==
    [pc |-> "idle", tool |-> None, usage |-> Nothing, level |-> "GREEN", task |-> 0]

CostTypeOK ==
    /\ ledger \in Usage
    /\ cached \in Usage \cup {None}
    /\ seen \in Levels
    /\ tasks \in [1 .. MaxRequests -> {"none", "running", "completed", "terminated"}]
    /\ call \in [Callers -> Call]
    /\ spends \in 0 .. MaxSpends
    /\ days \in 0 .. MaxDays
    /\ missed \subseteq Levels

CostInit ==
    /\ ledger = Nothing
    /\ cached = None
    /\ seen = "GREEN"
    /\ tasks = [t \in 1 .. MaxRequests |-> "none"]
    /\ call = [p \in Callers |-> NotCalling]
    /\ spends = 0
    /\ days = 0
    /\ missed = {}

\* State::from_ratio of the worst ratio: the level at which some kind stands.
Reaches(usage, percent) == \E k \in Kinds : usage[k] * 100 >= percent * Limit[k]

LevelOf(usage) ==
    CASE Reaches(usage, 100) -> "KILL"
      [] Reaches(usage, 90) /\ ~Reaches(usage, 100) -> "RED"
      [] Reaches(usage, 70) /\ ~Reaches(usage, 90) -> "YELLOW"
      [] ~Reaches(usage, 70) -> "GREEN"

Severity(level) == IF level = "YELLOW" THEN 1 ELSE 2

At(p, pc) == call[p].pc = pc
Goto(p, pc) == call' = [call EXCEPT ![p].pc = pc]
Answer(p) == call' = [call EXCEPT ![p] = NotCalling]
Record(k, amount) == ledger' = [ledger EXCEPT ![k] = @ + amount]

\* Nothing happens to the alerts; the step is the governor's own, or an event,
\* or a statement that fails.
AlertsHold == UNCHANGED <<alerts, deliveries, dispatcher, clock, posts>>
AlertsRest == AlertsHold /\ UNCHANGED <<raising, requests>>
Quiet == NoFault /\ AlertsRest
Outside == EventOnly /\ AlertsRest
Trouble == Fault({}) /\ AlertsRest

\* record_cost, whose error its callers drop.
Meter(k, amount) ==
    \/ Record(k, amount) /\ Quiet
    \/ UNCHANGED ledger /\ Trouble

-----------------------------------------------------------------------------
\* preflight()

\* A level 3 tool without the admin token is refused with an alert.
Invoke(p, tool, admin) ==
    /\ At(p, "idle") /\ Request
    /\ LET denied == tool \in AdminTools /\ ~admin
       IN  /\ call' = [call EXCEPT ![p] =
                  [NotCalling EXCEPT !.pc = IF denied THEN "denying" ELSE "usage",
                                     !.tool = tool, !.task = requests']]
           /\ IF denied THEN BeginRaise(p, "l3deny", 1) ELSE UNCHANGED raising
    /\ NoFault /\ AlertsHold
    /\ UNCHANGED <<ledger, cached, seen, tasks, spends, days, missed>>

Denied(p) ==
    /\ At(p, "denying") /\ raising[p].pc = "idle"
    /\ Answer(p)
    /\ Quiet
    /\ UNCHANGED <<ledger, cached, seen, tasks, spends, days, missed>>

\* usage_today: the cached sums when Redis has them and answers.
GetCached(p) ==
    /\ At(p, "usage")
    /\ \/ /\ cached # None
          /\ call' = [call EXCEPT ![p].pc = "seen", ![p].usage = cached,
                                  ![p].level = LevelOf(cached)]
          /\ Quiet
       \/ cached = None /\ Goto(p, "sum") /\ Quiet
       \/ cached # None /\ Goto(p, "sum") /\ Trouble
    /\ UNCHANGED <<ledger, cached, seen, tasks, spends, days, missed>>

\* Mutant of SumLedger: a failed statement counts as every budget spent.
SumLedgerClosed(p) ==
    /\ At(p, "sum")
    /\ \/ /\ call' = [call EXCEPT ![p].pc = "fill", ![p].usage = ledger,
                                  ![p].level = LevelOf(ledger)]
          /\ Quiet
       \/ /\ call' = [call EXCEPT ![p].pc = "seen", ![p].usage = Limit,
                                  ![p].level = "KILL"]
          /\ Trouble
    /\ UNCHANGED <<ledger, cached, seen, tasks, spends, days, missed>>

\* Otherwise the sums of today; a failed statement counts as no usage at all.
SumLedger(p) ==
    /\ At(p, "sum")
    /\ \/ /\ call' = [call EXCEPT ![p].pc = "fill", ![p].usage = ledger,
                                  ![p].level = LevelOf(ledger)]
          /\ Quiet
       \/ Goto(p, "seen") /\ Trouble
    /\ UNCHANGED <<ledger, cached, seen, tasks, spends, days, missed>>

FillCache(p) ==
    /\ At(p, "fill")
    /\ \/ cached' = call[p].usage /\ Quiet
       \/ cached' = cached /\ Trouble
    /\ Goto(p, "seen")
    /\ UNCHANGED <<ledger, seen, tasks, spends, days, missed>>

\* Without an answer from Redis the agent was GREEN before.
GetSeen(p) ==
    /\ At(p, "seen")
    /\ \/ Goto(p, IF seen = call[p].level THEN "gate" ELSE "set") /\ Quiet
       \/ Goto(p, IF call[p].level = "GREEN" THEN "gate" ELSE "set") /\ Trouble
    /\ UNCHANGED <<ledger, cached, seen, tasks, spends, days, missed>>

\* Mutant of SetSeen: a warning is as quiet as recovery.
SetSeenCritical(p) ==
    LET level == call[p].level
    IN  /\ At(p, "set")
        /\ \/ seen' = level /\ NoFault
           \/ seen' = seen /\ Fault({})
        /\ IF level \in {"GREEN", "YELLOW"}
           THEN Goto(p, "gate") /\ UNCHANGED raising
           ELSE Goto(p, "alerting") /\ BeginRaise(p, level, Severity(level))
        /\ AlertsHold
        /\ UNCHANGED <<requests, ledger, cached, tasks, spends, days, missed>>

\* The new state is stored first; on_transition comes after it, and recovery is
\* quiet.
SetSeen(p) ==
    LET level == call[p].level
    IN  /\ At(p, "set")
        /\ \/ seen' = level /\ NoFault
           \/ seen' = seen /\ Fault({})
        /\ IF level = "GREEN"
           THEN Goto(p, "gate") /\ UNCHANGED raising
           ELSE Goto(p, "alerting") /\ BeginRaise(p, level, Severity(level))
        /\ AlertsHold
        /\ UNCHANGED <<requests, ledger, cached, tasks, spends, days, missed>>

Alerted(p) ==
    /\ At(p, "alerting") /\ raising[p].pc = "idle"
    /\ Goto(p, IF call[p].level = "KILL" THEN "sweep" ELSE "gate")
    /\ Quiet
    /\ UNCHANGED <<ledger, cached, seen, tasks, spends, days, missed>>

\* UPDATE tasks SET status='terminated', finished_at=now() ...  The table of
\* migration 0001 has no column finished_at and no later migration adds one, so
\* PostgreSQL refuses the statement and the error is dropped: no task changes.
SweepTasks(p) ==
    /\ At(p, "sweep")
    /\ Goto(p, "gate")
    /\ Quiet
    /\ UNCHANGED <<ledger, cached, seen, tasks, spends, days, missed>>

Refused(p) ==
    \/ call[p].level = "KILL" /\ call[p].tool \notin KillAllowed
    \/ call[p].level = "RED" /\ call[p].tool \notin RedAllowed

Gate(p) ==
    /\ At(p, "gate")
    /\ IF Refused(p) THEN Answer(p)
       ELSE Goto(p, CASE call[p].tool \in CrawlTools -> "open"
                      [] call[p].tool \in TokenTools -> "work"
                      [] OTHER -> "meter")
    /\ Quiet
    /\ UNCHANGED <<ledger, cached, seen, tasks, spends, days, missed>>

-----------------------------------------------------------------------------
\* The tool, and what it costs.

\* A crawl creates its task, running; without a task there is no crawl.
OpenTask(p) ==
    /\ At(p, "open")
    /\ \/ /\ tasks' = [tasks EXCEPT ![call[p].task] = "running"]
          /\ Goto(p, "work") /\ Quiet
       \/ /\ tasks' = tasks
          /\ Goto(p, "meter") /\ Trouble
    /\ UNCHANGED <<ledger, cached, seen, spends, days, missed>>

\* A crawl that fails leaves its task as it is; one that finds nothing new
\* costs no page.  A query is embedded for its tokens, or goes on without.
Crawl(p) ==
    /\ At(p, "work") /\ call[p].tool \in CrawlTools
    /\ \E next \in {"page", "finish", "meter"} : Goto(p, next)
    /\ Quiet
    /\ UNCHANGED <<ledger, cached, seen, tasks, spends, days, missed>>

EmbedQuery(p, amount) ==
    /\ At(p, "work") /\ call[p].tool \in TokenTools
    /\ Meter("embedding_tokens", amount)
    /\ Goto(p, "meter")
    /\ UNCHANGED <<cached, seen, tasks, spends, days, missed>>

\* Mutant of MeterPage: a page found before is refunded.
MeterPageRefund(p) ==
    /\ At(p, "page")
    /\ ledger' = [ledger EXCEPT !["crawl_page"] = @ - 1]
    /\ Goto(p, "finish")
    /\ Quiet
    /\ UNCHANGED <<cached, seen, tasks, spends, days, missed>>

MeterPage(p) ==
    /\ At(p, "page")
    /\ Meter("crawl_page", 1)
    /\ Goto(p, "finish")
    /\ UNCHANGED <<cached, seen, tasks, spends, days, missed>>

\* finish_task writes the status whatever it was.
FinishTask(p) ==
    /\ At(p, "finish")
    /\ \/ tasks' = [tasks EXCEPT ![call[p].task] = "completed"] /\ Quiet
       \/ tasks' = tasks /\ Trouble
    /\ Goto(p, "meter")
    /\ UNCHANGED <<ledger, cached, seen, spends, days, missed>>

MeterCall(p) ==
    /\ At(p, "meter")
    /\ Meter("tool_call", 1)
    /\ Answer(p)
    /\ UNCHANGED <<cached, seen, tasks, spends, days, missed>>

Calling(p) ==
    \/ Denied(p) \/ GetCached(p) \/ SumLedger(p) \/ FillCache(p) \/ GetSeen(p)
    \/ SetSeen(p) \/ Alerted(p) \/ SweepTasks(p) \/ Gate(p) \/ OpenTask(p)
    \/ Crawl(p) \/ MeterPage(p) \/ FinishTask(p) \/ MeterCall(p)
    \/ \E amount \in Amounts \cup {0} : EmbedQuery(p, amount)

-----------------------------------------------------------------------------
\* Around the calls.

\* The embedding worker records what it uses without preflight.
Spend(amount) ==
    /\ spends < MaxSpends
    /\ spends' = spends + 1
    /\ Record("embedding_tokens", amount)
    /\ Outside
    /\ UNCHANGED <<cached, seen, tasks, call, days, missed>>

\* The 30 seconds of the cached usage are over.
CacheExpires ==
    /\ cached # None
    /\ cached' = None
    /\ Quiet
    /\ UNCHANGED <<ledger, seen, tasks, call, spends, days, missed>>

\* Midnight: the sums start over, what Redis holds stays.
Midnight ==
    /\ days < MaxDays
    /\ days' = days + 1
    /\ ledger' = Nothing
    /\ Outside
    /\ UNCHANGED <<cached, seen, tasks, call, spends, missed>>
=============================================================================
