--------------------------- MODULE LayerLifecycle ---------------------------
(***************************************************************************)
(* One data layer of the globe under LayerLifecycle (lifecycle.js):        *)
(* setEnabled(), the queue that serialises its turns, _doToggle with its   *)
(* cancellations and compensations, the refresh timer and destroyLayer().  *)
(*                                                                         *)
(* Layers share nothing but the observers, so one is enough.  A step runs  *)
(* from one await to the next.  The module of the layer is outside: each   *)
(* call of it is awaited and then settles, and a settled call has taken    *)
(* effect or, when it was refused, perhaps.  Left out: observers,          *)
(* visibility guards, caller signals, layer parameters and the relative    *)
(* toggle, none of which the console passes in; refreshEpoch, of which only *)
(* matters whether the update in flight is the current one.                *)
(***************************************************************************)
EXTENDS Integers, Sequences

CONSTANTS
    MaxRequests,  \* bound: calls of setEnabled
    MaxFaults     \* bound: calls of the module that are refused

ASSUME LayerAssumption == MaxRequests \in Nat \ {0} /\ MaxFaults \in Nat

VARIABLES
    layer,     \* the entry in LayerLifecycle.layers
    intents,   \* visibilityIntentRecords: what each epoch asked for, its answer
    chain,     \* toggleChain: epochs whose turn has not started
    turn,      \* the turn that runs
    teardown,  \* destroyLayer: "no", or the await it is at, or how it ended
    timers,    \* intervals of the layer that are running
    updating,  \* an update of the current refreshEpoch is in flight
    orphans,   \* module.disable() calls in flight nobody awaits
    on,        \* the module is drawing or fetching
    faults     \* how much of MaxFaults is used

layerVars == <<layer, intents, chain, turn, teardown, timers, updating, orphans,
               on, faults>>

Epochs == 0 .. MaxRequests + 1
Phases == {"enabled", "disabled", "enabling", "disabling"}
Entry ==
    [present : BOOLEAN, destroying : BOOLEAN, enabled : BOOLEAN,
     uncertain : BOOLEAN, initialized : BOOLEAN, state : Phases, timer : BOOLEAN,
     refreshing : BOOLEAN, epoch : Epochs, wanted : BOOLEAN, adoption : Epochs,
     queued : Epochs]
Intent == [want : BOOLEAN, answer : {"pending", "granted", "declined", "none"}]
Turn ==
    [pc : {"idle", "adopt", "guard", "disable", "compEnable", "compDisable", "init",
           "enable", "update", "cancelDisable", "failDisable"},
     epoch : Epochs, want : BOOLEAN, aborted : BOOLEAN,
     listening : BOOLEAN,  \* cancelEnable is attached to the turn's signal
     stray : BOOLEAN]      \* the disable() of cancelEnable is in flight

NoTurn ==
    [pc |-> "idle", epoch |-> 0, want |-> FALSE, aborted |-> FALSE,
     listening |-> FALSE, stray |-> FALSE]
Registered ==
    [present |-> TRUE, destroying |-> FALSE, enabled |-> FALSE, uncertain |-> FALSE,
     initialized |-> FALSE, state |-> "disabled", timer |-> FALSE,
     refreshing |-> FALSE, epoch |-> 0, wanted |-> FALSE, adoption |-> 0, queued |-> 0]

LayerTypeOK ==
    /\ layer \in Entry
    /\ intents \in Seq(Intent) /\ Len(intents) = layer.epoch
    /\ chain \in Seq(Epochs \ {0}) /\ Len(chain) <= MaxRequests
    /\ turn \in Turn
    /\ teardown \in {"no", "drain", "disable", "destroy", "done", "failed"}
    /\ timers \in Nat
    /\ updating \in BOOLEAN
    /\ orphans \in Nat
    /\ on \in BOOLEAN
    /\ faults \in 0 .. MaxFaults

LayerInit ==
    /\ layer = [Registered EXCEPT !.present = FALSE]
    /\ intents = <<>>
    /\ chain = <<>>
    /\ turn = NoTurn
    /\ teardown = "no"
    /\ timers = 0
    /\ updating = FALSE
    /\ orphans = 0
    /\ on = FALSE
    /\ faults = 0

-----------------------------------------------------------------------------
\* Settling calls of the module.

\* A call leaves the module on, or off.
Works(leaves) == on' = leaves /\ UNCHANGED faults

\* A call is refused on its own account; it may have taken effect all the same.
Refuses(leaves) ==
    /\ faults < MaxFaults
    /\ faults' = faults + 1
    /\ on' \in {on, leaves}

\* A call with the turn's signal settles after the signal was aborted, either way.
Aborts(leaves) == turn.aborted /\ on' \in {on, leaves} /\ UNCHANGED faults

\* Calls without effect on the module: init and update.
Idles == UNCHANGED <<on, faults>>

-----------------------------------------------------------------------------
\* Writing the entry.

\* Mutant of Write: arming leaves the old interval running.
WriteTwice(l, arms) ==
    /\ layer' = IF arms THEN [l EXCEPT !.timer = TRUE] ELSE l
    /\ timers' = IF arms THEN timers + 1
                 ELSE timers - (IF layer.timer /\ ~l.timer THEN 1 ELSE 0)

\* Mutant of Write: an interval is cleared that was never set.
WriteBlindly(l, arms) ==
    /\ layer' = IF arms THEN [l EXCEPT !.timer = TRUE] ELSE l
    /\ timers' = timers - (IF ~l.timer THEN 1 ELSE 0) + (IF arms THEN 1 ELSE 0)

\* The intervals that run after the entry became l; arming clears the old one.
Write(l, arms) ==
    /\ layer' = IF arms THEN [l EXCEPT !.timer = TRUE] ELSE l
    /\ timers' = timers - (IF layer.timer /\ ~l.timer THEN 1 ELSE 0) + (IF arms THEN 1 ELSE 0)

Stopped(l) == [l EXCEPT !.timer = FALSE]

\* _settleLifecycle
Presented(l) == [l EXCEPT !.state = IF l.enabled THEN "enabled" ELSE "disabled"]

\* While a newer request waits, the layer shows what that one wants and leaves
\* the rest to it.
Transit(l) == [l EXCEPT !.state = IF l.wanted THEN "enabling" ELSE "disabling"]

\* settleLifecycle of _doToggle
Settled(l) ==
    IF turn.epoch = l.epoch THEN [Presented(l) EXCEPT !.adoption = 0]
    ELSE [Transit(l) EXCEPT !.adoption = l.epoch]

Confirmed(l, enabled) == [l EXCEPT !.enabled = enabled, !.uncertain = FALSE]
Doubtful(l) == [l EXCEPT !.enabled = TRUE, !.uncertain = TRUE]

\* Mutant of EndTurn: a superseded turn does not resolve its promise.
EndTurnOwn(e, l, answer, arms) ==
    /\ Write([l EXCEPT !.queued = IF @ = e THEN 0 ELSE @], arms)
    /\ intents' = [intents EXCEPT ![e].answer = IF e = layer.epoch THEN answer ELSE @]
    /\ turn' = NoTurn
    /\ orphans' = orphans + (IF turn.stray THEN 1 ELSE 0)

\* The turn of epoch e is over: its promise resolves, its queued intent goes.
EndTurn(e, l, answer, arms) ==
    /\ Write([l EXCEPT !.queued = IF @ = e THEN 0 ELSE @], arms)
    /\ intents' = [intents EXCEPT ![e].answer = answer]
    /\ turn' = NoTurn
    /\ orphans' = orphans + (IF turn.stray THEN 1 ELSE 0)

Goto(pc) ==
    /\ turn' = [turn EXCEPT !.pc = pc]
    /\ UNCHANGED <<intents, orphans>>

TurnOnly == UNCHANGED <<chain, teardown, updating>>

-----------------------------------------------------------------------------
\* setEnabled()

\* The newest intent takes over from the turn that runs: its signal is aborted,
\* and a cancelEnable that listens stops the timer and calls disable().
Supersede(want, l) ==
    LET fires == turn.listening /\ ~turn.aborted
        renewed == [l EXCEPT !.epoch = @ + 1, !.wanted = want, !.queued = l.epoch + 1]
    IN  /\ Write(IF fires THEN Stopped(renewed) ELSE renewed, FALSE)
        /\ turn' = IF turn.pc \in {"idle", "adopt"} THEN turn
                   ELSE [turn EXCEPT !.aborted = TRUE, !.stray = @ \/ fires]

Request(want) ==
    /\ layer.present /\ ~layer.destroying
    /\ Len(intents) < MaxRequests
    /\ Supersede(want, layer)
    /\ intents' = Append(intents, [want |-> want, answer |-> "pending"])
    /\ chain' = Append(chain, layer.epoch + 1)
    /\ UNCHANGED <<teardown, updating, orphans, on, faults>>

\* Mutant of Effective: the newest intent counts only once its turn has started.
EffectiveSettled ==
    layer.state = "enabling" \/ (layer.state # "disabling" /\ layer.enabled)

\* _effectiveEnabled
Effective ==
    IF layer.queued # 0 THEN intents[layer.queued].want
    ELSE layer.state = "enabling" \/ (layer.state # "disabling" /\ layer.enabled)

-----------------------------------------------------------------------------
\* The turn of one intent.

\* The four ways a turn starts: a newer intent exists; an aborted predecessor
\* left the layer as this one wants it; there is nothing to do; work.
Superseded(e) == e # layer.epoch
Matches(e) == layer.enabled = intents[e].want /\ ~layer.uncertain

StartTurn ==
    /\ turn.pc = "idle" /\ chain # <<>>
    /\ chain' = Tail(chain)
    /\ LET e == Head(chain)
           started == [NoTurn EXCEPT !.epoch = e, !.want = intents[e].want]
       IN  \/ Superseded(e) /\ EndTurn(e, layer, "declined", FALSE)
           \/ /\ ~Superseded(e) /\ Matches(e) /\ layer.adoption = e
              /\ turn' = [started EXCEPT !.pc = "adopt"]
              /\ UNCHANGED <<layer, timers, intents, orphans>>
           \/ /\ ~Superseded(e) /\ Matches(e) /\ layer.adoption # e
              /\ EndTurn(e, IF layer.state \in {"enabling", "disabling"}
                            THEN Presented(layer) ELSE layer, "granted", FALSE)
           \/ /\ ~Superseded(e) /\ ~Matches(e)
              /\ turn' = [started EXCEPT !.pc = "guard"]
              /\ Write([layer EXCEPT !.adoption = 0], FALSE)
              /\ UNCHANGED <<intents, orphans>>
    /\ UNCHANGED <<teardown, updating, on, faults>>

\* No guard is installed, but asking for one is an await.
Adopt ==
    /\ turn.pc = "adopt"
    /\ IF Superseded(turn.epoch)
       THEN EndTurn(turn.epoch,
                [Transit(layer) EXCEPT !.adoption = IF @ = turn.epoch THEN layer.epoch ELSE @],
                "declined", FALSE)
       ELSE EndTurn(turn.epoch, Settled(layer), "granted", FALSE)
    /\ Idles /\ TurnOnly

\* Mutant of Guard: a disable does not invalidate the refresh under way.
GuardRefreshing ==
    /\ turn.pc = "guard"
    /\ \/ /\ turn.aborted
          /\ EndTurn(turn.epoch, layer, "declined", FALSE)
       \/ /\ ~turn.aborted /\ ~turn.want
          /\ Write([layer EXCEPT !.state = "disabling"], FALSE)
          /\ Goto("disable")
       \/ /\ ~turn.aborted /\ turn.want
          /\ Write([layer EXCEPT !.state = "enabling", !.uncertain = @ /\ ~layer.initialized],
                   FALSE)
          /\ turn' = [turn EXCEPT !.pc = IF layer.initialized THEN "enable" ELSE "init",
                                  !.listening = TRUE]
          /\ UNCHANGED <<intents, orphans>>
    /\ Idles
    /\ TurnOnly

\* A turn aborted here leaves the presentation to its successor.
Guard ==
    /\ turn.pc = "guard"
    /\ \/ /\ turn.aborted
          /\ EndTurn(turn.epoch, layer, "declined", FALSE)
          /\ UNCHANGED updating
       \/ /\ ~turn.aborted /\ ~turn.want
          /\ Write([layer EXCEPT !.state = "disabling", !.refreshing = FALSE], FALSE)
          /\ updating' = FALSE
          /\ Goto("disable")
       \/ /\ ~turn.aborted /\ turn.want
          /\ Write([layer EXCEPT !.state = "enabling", !.uncertain = @ /\ ~layer.initialized],
                   FALSE)
          /\ turn' = [turn EXCEPT !.pc = IF layer.initialized THEN "enable" ELSE "init",
                                  !.listening = TRUE]
          /\ UNCHANGED <<intents, orphans, updating>>
    /\ Idles
    /\ UNCHANGED <<chain, teardown>>

\* Mutant of Disable: the timer is cleared before it is known whether the layer
\* goes off.
DisableEager ==
    /\ turn.pc = "disable"
    /\ \/ Aborts(FALSE) /\ Goto("compEnable") /\ Write(Stopped(layer), FALSE)
       \/ /\ ~turn.aborted /\ Works(FALSE)
          /\ EndTurn(turn.epoch, Settled(Stopped(Confirmed(layer, FALSE))), "granted", FALSE)
    /\ TurnOnly

\* disable() settles.  A cancelled one is compensated by enable(), whether it
\* was aborted or gave up on its own; a refused one leaves the layer on.
Disable ==
    /\ turn.pc = "disable"
    /\ \/ Aborts(FALSE) /\ Goto("compEnable") /\ UNCHANGED <<layer, timers>>
       \/ ~turn.aborted /\ Refuses(FALSE) /\ Goto("compEnable") /\ UNCHANGED <<layer, timers>>
       \/ /\ ~turn.aborted /\ Refuses(FALSE)
          /\ EndTurn(turn.epoch, Settled(Doubtful(layer)), "declined", FALSE)
       \/ /\ ~turn.aborted /\ Works(FALSE)
          /\ EndTurn(turn.epoch, Settled(Stopped(Confirmed(layer, FALSE))), "granted", FALSE)
    /\ TurnOnly

CompEnable ==
    /\ turn.pc = "compEnable"
    /\ \/ /\ Works(TRUE)
          /\ EndTurn(turn.epoch, Settled(Confirmed(layer, TRUE)), "declined", FALSE)
       \/ Refuses(TRUE) /\ Goto("compDisable") /\ UNCHANGED <<layer, timers>>
    /\ TurnOnly

CompDisable ==
    /\ turn.pc = "compDisable"
    /\ \/ /\ Works(FALSE)
          /\ EndTurn(turn.epoch, Stopped(Settled(Confirmed(layer, FALSE))), "declined", FALSE)
       \/ /\ Refuses(FALSE)
          /\ EndTurn(turn.epoch, Settled(Doubtful(layer)), "declined", FALSE)
    /\ TurnOnly

\* finishCancelledEnable and finishFailedEnable up to their disable(); the
\* latter keeps cancelEnable attached.
Cancelled(l) ==
    /\ Write(Stopped(l), FALSE)
    /\ turn' = [turn EXCEPT !.pc = "cancelDisable", !.listening = FALSE]
    /\ UNCHANGED <<intents, orphans>>

Failed == Write(Stopped(layer), FALSE) /\ Goto("failDisable")

\* A refusal is an AbortError, which cancels, or another error, which fails.
CancelledOrFailed == ~turn.aborted /\ (Cancelled(layer) \/ Failed)

Initialize ==
    /\ turn.pc = "init"
    /\ \/ turn.aborted /\ Idles /\ Cancelled(layer)
       \/ turn.aborted /\ Idles /\ Cancelled([layer EXCEPT !.initialized = TRUE])
       \/ Refuses(on) /\ CancelledOrFailed
       \/ /\ ~turn.aborted /\ Idles /\ Goto("enable")
          /\ Write([layer EXCEPT !.initialized = TRUE, !.uncertain = FALSE], FALSE)
    /\ TurnOnly

Enable ==
    /\ turn.pc = "enable"
    /\ \/ Aborts(TRUE) /\ Cancelled(layer)
       \/ Refuses(TRUE) /\ CancelledOrFailed
       \/ ~turn.aborted /\ Works(TRUE) /\ Goto("update") /\ UNCHANGED <<layer, timers>>
    /\ TurnOnly

\* After the first update the layer is on, and its refresh timer is armed.
Update ==
    /\ turn.pc = "update"
    /\ \/ turn.aborted /\ Idles /\ Cancelled(layer)
       \/ Refuses(on) /\ CancelledOrFailed
       \/ /\ ~turn.aborted /\ Idles
          /\ EndTurn(turn.epoch, Stopped(Settled(Confirmed(layer, TRUE))), "granted", TRUE)
    /\ TurnOnly

\* Mutant of CancelDisable: a cleanup that was refused counts as confirmed.
CancelDisableAssumed ==
    /\ turn.pc = "cancelDisable" /\ ~turn.stray
    /\ Works(FALSE) \/ Refuses(FALSE)
    /\ EndTurn(turn.epoch, Settled(Confirmed(layer, FALSE)), "declined", FALSE)
    /\ TurnOnly

\* The second disable() of a cancelled enable waits for the first one.
CancelDisable ==
    /\ turn.pc = "cancelDisable" /\ ~turn.stray
    /\ \/ /\ Works(FALSE)
          /\ EndTurn(turn.epoch, Settled(Confirmed(layer, FALSE)), "declined", FALSE)
       \/ /\ Refuses(FALSE)
          /\ EndTurn(turn.epoch, Settled(Doubtful(layer)), "declined", FALSE)
    /\ TurnOnly

\* The cleanup of a failed enable does not wait for a disable() of cancelEnable.
FailDisable ==
    /\ turn.pc = "failDisable"
    /\ \/ /\ Works(FALSE)
          /\ EndTurn(turn.epoch, Settled(Confirmed(layer, FALSE)), "declined", FALSE)
       \/ /\ Refuses(FALSE)
          /\ EndTurn(turn.epoch, Settled(Doubtful(layer)), "declined", FALSE)
    /\ TurnOnly

TurnStep ==
    \/ StartTurn \/ Adopt \/ Guard \/ Disable \/ CompEnable \/ CompDisable
    \/ Initialize \/ Enable \/ Update \/ CancelDisable \/ FailDisable

\* The disable() of a cancelEnable settles, awaited or not.
StraySettles ==
    /\ Works(FALSE) \/ Refuses(FALSE)
    /\ \/ turn.stray /\ turn' = [turn EXCEPT !.stray = FALSE] /\ UNCHANGED orphans
       \/ orphans > 0 /\ orphans' = orphans - 1 /\ UNCHANGED turn
    /\ UNCHANGED <<layer, intents, chain, teardown, timers, updating>>

-----------------------------------------------------------------------------
\* _runPeriodicUpdate()

\* One of the intervals fires.
Tick ==
    /\ timers > 0
    /\ layer.enabled /\ layer.state = "enabled"
    /\ ~layer.destroying /\ ~layer.refreshing
    /\ layer' = [layer EXCEPT !.refreshing = TRUE]
    /\ updating' = TRUE
    /\ UNCHANGED <<intents, chain, turn, teardown, timers, orphans, on, faults>>

\* The update settles; in a layer that is off meanwhile it changes nothing.
RefreshSettles ==
    /\ updating
    /\ updating' = FALSE
    /\ layer' = [layer EXCEPT !.refreshing =
           @ /\ ~(layer.present /\ ~layer.destroying /\ layer.enabled)]
    /\ UNCHANGED <<intents, chain, turn, teardown, timers, orphans, on, faults>>

-----------------------------------------------------------------------------
\* destroyLayer()

\* Teardown is the newest intent, and no further one is accepted.
BeginDestroy ==
    /\ layer.present /\ teardown = "no"
    /\ Supersede(FALSE, [layer EXCEPT !.destroying = TRUE, !.refreshing = FALSE])
    /\ intents' = Append(intents, [want |-> FALSE, answer |-> "none"])
    /\ updating' = FALSE
    /\ teardown' = "drain"
    /\ UNCHANGED <<chain, orphans, on, faults>>

\* Mutant of Drained: the teardown does not wait for the turn that runs.
DrainedEarly ==
    /\ teardown = "drain"
    /\ teardown' = IF layer.enabled THEN "disable" ELSE "destroy"
    /\ Write([layer EXCEPT !.queued = 0], FALSE)
    /\ Idles
    /\ UNCHANGED <<intents, chain, turn, updating, orphans>>

\* The turns that were queued are over.
Drained ==
    /\ teardown = "drain"
    /\ turn.pc = "idle" /\ chain = <<>>
    /\ teardown' = IF layer.enabled THEN "disable" ELSE "destroy"
    /\ Write([layer EXCEPT !.queued = 0], FALSE)
    /\ Idles
    /\ UNCHANGED <<intents, chain, turn, updating, orphans>>

\* A module that refuses gets the layer back.
GiveBack ==
    /\ Refuses(FALSE)
    /\ teardown' = "failed"
    /\ Write(Presented([layer EXCEPT !.destroying = FALSE, !.wanted = layer.enabled]), FALSE)

TeardownDisable ==
    /\ teardown = "disable"
    /\ \/ /\ Works(FALSE)
          /\ teardown' = "destroy"
          /\ Write(Stopped([layer EXCEPT !.enabled = FALSE]), FALSE)
       \/ GiveBack
    /\ UNCHANGED <<intents, chain, turn, updating, orphans>>

TeardownDestroy ==
    /\ teardown = "destroy"
    /\ \/ /\ Idles
          /\ teardown' = "done"
          /\ Write([layer EXCEPT !.present = FALSE], FALSE)
       \/ GiveBack
    /\ UNCHANGED <<intents, chain, turn, updating, orphans>>

TeardownStep == Drained \/ TeardownDisable \/ TeardownDestroy

-----------------------------------------------------------------------------
\* What the manager promises.

Quiet == turn.pc = "idle" /\ chain = <<>> /\ teardown \in {"no", "done"}

Intents ==
    INSTANCE VisibilityIntents
        WITH Requests <- 1 .. MaxRequests,
             asked <- [e \in DOMAIN intents |-> intents[e].want],
             answers <- [e \in DOMAIN intents |-> intents[e].answer],
             closed <- layer.destroying \/ teardown = "done",
             effective <- Effective,
             visible <- layer.enabled

\* The queue, the aborts, the compensations and the adoptions implement
\* VisibilityIntents: no superseded request is granted, none is answered twice,
\* and the newest one shows from the moment it is made.
IntentsRefine == Intents!Spec

\* Every setEnabled() promise resolves, as long as the module's calls settle.
RequestsAnswered == Intents!Answered

\* The timers that run are the one the entry knows of, and only while the layer
\* is on: no superseded enable leaves one behind, none polls twice (M1).
TimersAccounted == timers = (IF layer.timer THEN 1 ELSE 0) /\ (layer.timer => layer.enabled)

\* A layer that is OFF between turns is off: neither a cancelled or failed
\* enable nor a disable that settles late leaves its module running.
OffIsOff == turn.pc = "idle" /\ ~layer.enabled => ~on

\* A layer whose module never refused a call and that is ON between turns draws
\* and refreshes itself.
OnIsAlive == Quiet /\ layer.enabled /\ faults = 0 => on /\ layer.timer /\ ~layer.uncertain

\* A layer whose module never refused a call and that says it is refreshing has
\* an update in flight: an update that settles late, into a layer that was
\* turned off and on again, neither ends nor blocks the refresh of the new one.
RefreshingIsReal == layer.refreshing /\ faults = 0 => updating
=============================================================================
