----------------------------- MODULE GlobeSafety -----------------------------
(***************************************************************************)
(* Proofs about GlobeSession, second part: as long as the module of the    *)
(* layer refuses nothing, a layer that is ON draws and refreshes itself,   *)
(* and a layer that says it is refreshing has an update in flight; and the *)
(* layer implements VisibilityIntents.                                     *)
(***************************************************************************)
EXTENDS GlobeProofs

\* Where a turn that turns the layer on has called the module.
Working == {"init", "enable", "update", "cancelDisable"}

\* The layer whose module never refused a call, turn by turn.
CalmLayer ==
    /\ ~layer.uncertain
    /\ orphans = 0
    /\ layer.refreshing => layer.present /\ ~layer.destroying /\ layer.enabled /\ updating

CalmTurn ==
    /\ turn.pc \notin {"compDisable", "failDisable"}
    /\ turn.listening => turn.pc \in {"init", "enable", "update"}
    /\ turn.stray => turn.aborted /\ turn.pc \in Working
    /\ turn.pc \in {"idle", "adopt"} /\ layer.enabled => on /\ layer.timer
    /\ turn.pc = "guard" =>
           layer.enabled # turn.want /\ (layer.enabled => on /\ layer.timer)
    /\ turn.pc \in {"disable", "compEnable"} =>
           layer.enabled /\ layer.timer /\ ~layer.refreshing /\ layer.state = "disabling"
    /\ turn.pc \in Working => ~layer.enabled /\ ~layer.refreshing
    /\ turn.pc = "update" /\ ~turn.aborted => on

\* A layer that is gone has nothing to do.
PresentShape == turn.pc # "idle" \/ chain # <<>> \/ layer.enabled => layer.present

CalmShape == faults = 0 => CalmLayer /\ CalmTurn

\* Two entries with the same presentation of the refresh and of certainty.
Alike(l, m) == m.refreshing = l.refreshing /\ m.uncertain = l.uncertain

LEMMA WritersAlike ==
    ASSUME NEW l \in Entry
    PROVE  /\ Alike(l, Stopped(l)) /\ Alike(l, Presented(l)) /\ Alike(l, Transit(l))
           /\ Alike(l, Settled(l))
           /\ \A enabled \in BOOLEAN :
                  /\ Confirmed(l, enabled).refreshing = l.refreshing
                  /\ Confirmed(l, enabled).uncertain = FALSE
  <1>1. Alike(l, Stopped(l))
    BY DEF Alike, Stopped, Entry
  <1>2. Alike(l, Presented(l)) /\ Presented(l) \in Entry
    BY PresentedEntry DEF Alike, Presented, Entry, Kin
  <1>3. Alike(l, Transit(l)) /\ Transit(l) \in Entry
    BY TransitEntry DEF Alike, Transit, Entry, Kin
  <1>4. \A m \in Entry : \A e \in Epochs : Alike(m, [m EXCEPT !.adoption = e])
    BY DEF Alike, Entry
  <1>5. Alike(l, Settled(l))
    <2>0. 0 \in Epochs /\ l.epoch \in Epochs
      BY LayerAssumption DEF Epochs, Entry
    <2>1. CASE turn.epoch = l.epoch
      <3>1. Settled(l) = [Presented(l) EXCEPT !.adoption = 0]
        BY <2>1 DEF Settled
      <3> QED BY <1>2, <1>4, <2>0, <3>1 DEF Alike
    <2>2. CASE turn.epoch # l.epoch
      <3>1. Settled(l) = [Transit(l) EXCEPT !.adoption = l.epoch]
        BY <2>2 DEF Settled
      <3> QED BY <1>3, <1>4, <2>0, <3>1 DEF Alike
    <2> QED BY <2>1, <2>2
  <1>6. ASSUME NEW enabled \in BOOLEAN
        PROVE  /\ Confirmed(l, enabled).refreshing = l.refreshing
               /\ Confirmed(l, enabled).uncertain = FALSE
    BY DEF Confirmed, Entry
  <1> QED BY <1>1, <1>2, <1>3, <1>5, <1>6

LEMMA WriteAlike ==
    ASSUME NEW l \in Entry, NEW arms \in BOOLEAN, Write(l, arms)
    PROVE  /\ Alike(l, layer') /\ Kin(l, layer') /\ layer'.enabled = l.enabled
           /\ layer'.timer = (l.timer \/ arms) /\ layer'.state = l.state
  <1>1. l.timer \in BOOLEAN
    BY DEF Entry
  <1>2. CASE arms
    <2>1. layer' = [l EXCEPT !.timer = TRUE]
      BY <1>2 DEF Write
    <2> QED BY <1>2, <2>1 DEF Alike, Kin, Entry
  <1>3. CASE ~arms
    <2>1. layer' = l
      BY <1>3 DEF Write
    <2> QED BY <1>1, <1>3, <2>1 DEF Alike, Kin
  <1> QED BY <1>2, <1>3

\* A turn that ends calmly.
LEMMA EndsCalm ==
    ASSUME LayerShape, CalmLayer, NEW e, NEW l, NEW answer, NEW arms \in BOOLEAN,
           Kin(layer, l), EndTurn(e, l, answer, arms), ~turn.stray, UNCHANGED updating,
           ~l.uncertain, l.enabled => on' /\ (l.timer \/ arms),
           l.refreshing => layer.refreshing /\ l.enabled
    PROVE  CalmLayer' /\ CalmTurn'
  <1> DEFINE queued == IF l.queued = e THEN 0 ELSE l.queued
             m == [l EXCEPT !.queued = queued]
  <1>0. l \in Entry /\ layer \in Entry
    BY DEF Kin, LayerShape, LayerTypeOK
  <1>1. queued \in Epochs
    BY <1>0, LayerAssumption DEF Entry, Epochs
  <1>2. Write(m, arms)
    BY DEF EndTurn
  <1> HIDE DEF queued
  <1>3. /\ m \in Entry /\ Kin(layer, m) /\ m.timer = l.timer /\ m.enabled = l.enabled
        /\ Alike(l, m)
    BY <1>0, <1>1 DEF Kin, Entry, Alike
  <1> HIDE DEF m
  <1>4. /\ layer'.uncertain = l.uncertain /\ layer'.refreshing = l.refreshing
        /\ layer'.enabled = l.enabled /\ layer'.timer = (l.timer \/ arms)
        /\ layer'.present = layer.present /\ layer'.destroying = layer.destroying
    BY <1>2, <1>3, WriteAlike DEF Alike, Kin
  <1>5. turn' = NoTurn /\ orphans' = orphans
    BY DEF EndTurn, CalmLayer
  <1>6. CalmLayer'
    BY <1>4, <1>5 DEF CalmLayer
  <1>7. CalmTurn'
    BY <1>4, <1>5 DEF CalmTurn, NoTurn, Working
  <1> QED BY <1>6, <1>7

\* No call was refused.
LEMMA NoRefusal ==
    ASSUME LayerShape, faults' = 0
    PROVE  \A leaves : ~Refuses(leaves)
  BY DEF LayerShape, LayerTypeOK, Refuses

\* The premise of each step.
CalmHere ==
    /\ LayerShape /\ TurnHere /\ PresentShape /\ CalmLayer /\ CalmTurn /\ faults' = 0

LEMMA HereFacts ==
    ASSUME CalmHere
    PROVE  /\ layer \in Entry /\ turn \in Turn /\ on \in BOOLEAN /\ updating \in BOOLEAN
           /\ Kin(layer, layer) /\ ~layer.uncertain
           /\ (layer.refreshing => layer.enabled)
           /\ \A leaves : ~Refuses(leaves)
  BY NoRefusal DEF CalmHere, TurnHere, Kin, CalmLayer

LEMMA StartTurnCalm == ASSUME CalmHere, StartTurn PROVE CalmLayer' /\ CalmTurn'
  <1> DEFINE e == Head(chain)
             started == [NoTurn EXCEPT !.epoch = e, !.want = intents[e].want]
  <1>0. /\ LayerShape /\ CalmLayer /\ CalmTurn /\ turn.pc = "idle" /\ ~turn.stray
        /\ UNCHANGED <<teardown, updating, on, faults>>
        /\ layer.enabled => on /\ layer.timer
    BY DEF CalmHere, StartTurn, CalmTurn, Working
  <1>1. CASE EndTurn(e, layer, "declined", FALSE)
    BY <1>0, <1>1, HereFacts, EndsCalm
  <1>2. CASE EndTurn(e, IF layer.state \in {"enabling", "disabling"}
                        THEN Presented(layer) ELSE layer, "granted", FALSE)
    <2>1. CASE EndTurn(e, Presented(layer), "granted", FALSE)
      <3>1. /\ Kin(layer, Presented(layer)) /\ Alike(layer, Presented(layer))
            /\ Presented(layer).timer = layer.timer /\ Presented(layer).enabled = layer.enabled
        BY HereFacts, PresentedEntry, WritersAlike
      <3> QED BY <1>0, <2>1, <3>1, HereFacts, EndsCalm DEF Alike
    <2>2. CASE EndTurn(e, layer, "granted", FALSE)
      BY <1>0, <2>2, HereFacts, EndsCalm
    <2> QED BY <1>2, <2>1, <2>2
  <1>3. CASE /\ turn' = [started EXCEPT !.pc = "adopt"]
             /\ UNCHANGED <<layer, timers, intents, orphans>>
    <2>1. /\ turn'.pc = "adopt" /\ turn'.listening = FALSE /\ turn'.stray = FALSE
      BY <1>3 DEF NoTurn
    <2>2. CalmLayer'
      BY <1>0, <1>3 DEF CalmLayer
    <2>3. CalmTurn'
      BY <1>0, <1>3, <2>1 DEF CalmTurn, Working
    <2> QED BY <2>2, <2>3
  <1>4. CASE /\ ~Matches(e)
             /\ turn' = [started EXCEPT !.pc = "guard"]
             /\ Write([layer EXCEPT !.adoption = 0], FALSE)
             /\ UNCHANGED <<intents, orphans>>
    <2> DEFINE l == [layer EXCEPT !.adoption = 0]
    <2>1. /\ turn'.pc = "guard" /\ turn'.listening = FALSE /\ turn'.stray = FALSE
          /\ turn'.want = intents[e].want
      BY <1>4 DEF NoTurn
    <2>2. /\ Kin(layer, l) /\ l.timer = layer.timer /\ l.enabled = layer.enabled
          /\ Alike(layer, l)
      BY HereFacts, AdoptionEntry, BoundsOfTheLayer DEF Epochs, Alike, Entry
    <2>3. Write(l, FALSE)
      BY <1>4
    <2> HIDE DEF l
    <2>4. /\ layer'.enabled = layer.enabled /\ layer'.timer = layer.timer
          /\ Kin(layer, layer') /\ Alike(layer, layer')
      <3>1. l \in Entry /\ l.timer \in BOOLEAN
        BY <2>2 DEF Kin, Entry
      <3> QED BY <2>2, <2>3, <3>1, WriteAlike DEF Kin, Alike
    <2>5. layer.enabled # intents[e].want
      BY <1>4, HereFacts DEF Matches
    <2>6. CalmLayer'
      BY <1>0, <1>4, <2>4 DEF CalmLayer, Kin, Alike
    <2>7. CalmTurn'
      BY <1>0, <1>4, <2>1, <2>4, <2>5 DEF CalmTurn, Working
    <2> QED BY <2>6, <2>7
  <1> QED BY <1>1, <1>2, <1>3, <1>4 DEF StartTurn

LEMMA AdoptCalm == ASSUME CalmHere, Adopt PROVE CalmLayer' /\ CalmTurn'
  <1>0. /\ LayerShape /\ CalmLayer /\ CalmTurn /\ turn.pc = "adopt" /\ ~turn.stray
        /\ UNCHANGED <<updating, on>>
        /\ layer.enabled => on /\ layer.timer
    BY DEF CalmHere, Adopt, CalmTurn, Working, Idles, TurnOnly
  <1>1. CASE EndTurn(turn.epoch, Settled(layer), "granted", FALSE)
    <2>1. /\ Kin(layer, Settled(layer)) /\ Alike(layer, Settled(layer))
          /\ Settled(layer).timer = layer.timer /\ Settled(layer).enabled = layer.enabled
      BY HereFacts, SettledEntry, WritersAlike
    <2> QED BY <1>0, <1>1, <2>1, HereFacts, EndsCalm DEF Alike
  <1>2. CASE EndTurn(turn.epoch,
                [Transit(layer) EXCEPT !.adoption = IF @ = turn.epoch THEN layer.epoch ELSE @],
                "declined", FALSE)
    <2> DEFINE t == Transit(layer)
               adoption == IF t.adoption = turn.epoch THEN layer.epoch ELSE t.adoption
               l == [t EXCEPT !.adoption = adoption]
    <2>1. EndTurn(turn.epoch, l, "declined", FALSE)
      BY <1>2
    <2>2. /\ Kin(layer, t) /\ t.timer = layer.timer /\ t.enabled = layer.enabled
          /\ Alike(layer, t)
      BY HereFacts, TransitEntry, WritersAlike
    <2> HIDE DEF t
    <2>3. adoption \in Epochs
      BY <2>2, HereFacts DEF Kin, Entry
    <2> HIDE DEF adoption
    <2>4. Kin(t, l) /\ l.timer = layer.timer /\ l.enabled = layer.enabled
      BY <2>2, <2>3, AdoptionEntry DEF Kin
    <2>5. Alike(layer, l)
      BY <2>2 DEF Alike, Kin, Entry
    <2> HIDE DEF l
    <2>6. Kin(layer, l)
      BY <2>2, <2>4 DEF Kin
    <2> QED BY <1>0, <2>1, <2>4, <2>5, <2>6, HereFacts, EndsCalm DEF Alike
  <1> QED BY <1>1, <1>2 DEF Adopt

LEMMA GuardCalm == ASSUME CalmHere, Guard PROVE CalmLayer' /\ CalmTurn'
  <1>0. /\ LayerShape /\ CalmLayer /\ CalmTurn /\ turn.pc = "guard" /\ ~turn.stray
        /\ UNCHANGED on
        /\ layer.enabled => on /\ layer.timer
        /\ layer.enabled # turn.want
    BY DEF CalmHere, Guard, CalmTurn, Working, Idles
  <1>1. CASE EndTurn(turn.epoch, layer, "declined", FALSE) /\ UNCHANGED updating
    BY <1>0, <1>1, HereFacts, EndsCalm
  <1>2. CASE /\ ~turn.want
             /\ Write([layer EXCEPT !.state = "disabling", !.refreshing = FALSE], FALSE)
             /\ updating' = FALSE
             /\ Goto("disable")
    <2> DEFINE l == [layer EXCEPT !.state = "disabling", !.refreshing = FALSE]
    <2>1. /\ turn'.pc = "disable" /\ turn'.listening = turn.listening
          /\ turn'.stray = turn.stray /\ UNCHANGED orphans
      BY <1>2, HereFacts DEF Goto, Turn
    <2>2. /\ l \in Entry /\ l.timer = layer.timer /\ l.enabled = layer.enabled
          /\ l.refreshing = FALSE /\ l.uncertain = layer.uncertain /\ l.state = "disabling"
      BY HereFacts DEF Entry, Phases
    <2>3. Write(l, FALSE)
      BY <1>2
    <2> HIDE DEF l
    <2>4. /\ layer'.timer = layer.timer /\ layer'.enabled = layer.enabled
          /\ ~layer'.refreshing /\ layer'.uncertain = layer.uncertain
          /\ layer'.state = "disabling"
      <3>1. l.timer \in BOOLEAN
        BY <2>2 DEF Entry
      <3> QED BY <2>2, <2>3, <3>1, WriteAlike DEF Alike
    <2>5. layer.enabled /\ layer.timer
      BY <1>0, <1>2, HereFacts DEF Entry, Turn
    <2>6. CalmLayer'
      BY <1>0, <2>1, <2>4 DEF CalmLayer
    <2>7. CalmTurn'
      BY <1>0, <2>1, <2>4, <2>5 DEF CalmTurn, Working
    <2> QED BY <2>6, <2>7
  <1>3. CASE /\ turn.want
             /\ Write([layer EXCEPT !.state = "enabling", !.uncertain = @ /\ ~layer.initialized],
                      FALSE)
             /\ turn' = [turn EXCEPT !.pc = IF layer.initialized THEN "enable" ELSE "init",
                                     !.listening = TRUE]
             /\ UNCHANGED <<intents, orphans, updating>>
    <2> DEFINE uncertain == layer.uncertain /\ ~layer.initialized
               pc == IF layer.initialized THEN "enable" ELSE "init"
               l == [layer EXCEPT !.state = "enabling", !.uncertain = uncertain]
    <2>1. uncertain = FALSE /\ pc \in {"enable", "init"}
      BY HereFacts
    <2>2. Write(l, FALSE) /\ turn' = [turn EXCEPT !.pc = pc, !.listening = TRUE]
      BY <1>3
    <2> HIDE DEF uncertain, pc
    <2>3. turn'.pc = pc /\ turn'.stray = turn.stray
      BY <2>2, HereFacts DEF Turn
    <2>4. /\ l \in Entry /\ l.enabled = layer.enabled
          /\ l.refreshing = layer.refreshing /\ l.uncertain = FALSE
      BY <2>1, HereFacts DEF Entry, Phases
    <2> HIDE DEF l
    <2>5. /\ layer'.enabled = layer.enabled
          /\ layer'.refreshing = layer.refreshing /\ layer'.uncertain = FALSE
      BY <2>2, <2>4, WriteAlike DEF Alike
    <2>6. ~layer.enabled /\ ~layer.refreshing
      BY <1>0, <1>3, HereFacts DEF Entry, Turn
    <2>7. CalmLayer'
      BY <1>0, <1>3, <2>5, <2>6 DEF CalmLayer
    <2>8. CalmTurn'
      BY <1>0, <2>1, <2>3, <2>5, <2>6 DEF CalmTurn, Working
    <2> QED BY <2>7, <2>8
  <1> QED BY <1>1, <1>2, <1>3 DEF Guard

\* A turn goes on to a call, and leaves the entry.
LEMMA CallsCalm ==
    ASSUME CalmHere, NEW pc, Goto(pc), UNCHANGED <<layer, timers>>, TurnOnly,
           \/ pc = "compEnable" /\ turn.pc = "disable"
           \/ pc = "update" /\ turn.pc = "enable" /\ on'
    PROVE  CalmLayer' /\ CalmTurn'
  <1>1. /\ turn'.pc = pc /\ turn'.listening = turn.listening /\ turn'.stray = turn.stray
        /\ turn'.aborted = turn.aborted
        /\ UNCHANGED <<orphans, updating, layer>>
    BY HereFacts DEF Goto, Turn, TurnOnly
  <1>2. CalmLayer'
    BY <1>1 DEF CalmHere, CalmLayer
  <1>3. CalmTurn'
    BY <1>1 DEF CalmHere, CalmTurn, Working
  <1> QED BY <1>2, <1>3

LEMMA DisableCalm ==
    ASSUME CalmHere, Disable \/ CompEnable \/ CompDisable PROVE CalmLayer' /\ CalmTurn'
  <1>0. /\ LayerShape /\ CalmLayer /\ CalmTurn /\ ~turn.stray
        /\ turn.pc \in {"disable", "compEnable"}
        /\ layer.enabled /\ layer.timer /\ ~layer.refreshing
        /\ UNCHANGED updating
    BY DEF CalmHere, Disable, CompEnable, CompDisable, CalmTurn, Working, TurnOnly
  <1>1. CASE turn.pc = "disable" /\ Goto("compEnable") /\ UNCHANGED <<layer, timers>> /\ TurnOnly
    BY <1>1, CallsCalm
  <1>2. CASE /\ Works(FALSE)
             /\ EndTurn(turn.epoch, Settled(Stopped(Confirmed(layer, FALSE))), "granted", FALSE)
    <2> DEFINE c == Confirmed(layer, FALSE)
               s == Stopped(c)
               l == Settled(s)
    <2>1. /\ Kin(layer, c) /\ c.enabled = FALSE /\ c.uncertain = FALSE
          /\ c.refreshing = layer.refreshing
      BY HereFacts, ConfirmedEntry, WritersAlike
    <2>2. Kin(c, s) /\ Alike(c, s) /\ s.enabled = c.enabled
      BY <2>1, StoppedEntry, WritersAlike DEF Kin
    <2>3. Kin(s, l) /\ Alike(s, l) /\ l.enabled = s.enabled
      BY <2>2, SettledEntry, WritersAlike DEF Kin
    <2>4. EndTurn(turn.epoch, l, "granted", FALSE)
      BY <1>2
    <2> HIDE DEF c, s, l
    <2>5. Kin(layer, l) /\ l.enabled = FALSE /\ l.uncertain = FALSE /\ ~l.refreshing
      BY <1>0, <2>1, <2>2, <2>3 DEF Kin, Alike
    <2> QED BY <1>0, <2>4, <2>5, EndsCalm
  <1>3. CASE /\ Works(TRUE)
             /\ EndTurn(turn.epoch, Settled(Confirmed(layer, TRUE)), "declined", FALSE)
    <2> DEFINE c == Confirmed(layer, TRUE)
               l == Settled(c)
    <2>1. /\ Kin(layer, c) /\ c.uncertain = FALSE /\ c.timer = layer.timer
          /\ c.refreshing = layer.refreshing
      BY HereFacts, ConfirmedEntry, WritersAlike
    <2>2. Kin(c, l) /\ Alike(c, l) /\ l.timer = c.timer
      BY <2>1, SettledEntry, WritersAlike DEF Kin
    <2>3. EndTurn(turn.epoch, l, "declined", FALSE) /\ on'
      BY <1>3 DEF Works
    <2> HIDE DEF c, l
    <2>4. Kin(layer, l) /\ l.timer /\ l.uncertain = FALSE /\ ~l.refreshing
      BY <1>0, <2>1, <2>2 DEF Kin, Alike
    <2> QED BY <1>0, <2>3, <2>4, EndsCalm
  <1> QED BY <1>0, <1>1, <1>2, <1>3, HereFacts DEF Disable, CompEnable, CompDisable

\* A turn that turns the layer on is cancelled.
LEMMA CancelledCalm ==
    ASSUME CalmHere, turn.pc \in {"init", "enable", "update"}, turn.aborted, TurnOnly,
           NEW l \in Entry, Kin(layer, l), Alike(layer, l), l.enabled = layer.enabled,
           Cancelled(l)
    PROVE  CalmLayer' /\ CalmTurn'
  <1>0. CalmLayer /\ CalmTurn /\ ~layer.enabled /\ ~layer.refreshing
    BY DEF CalmHere, CalmTurn, Working
  <1>1. /\ turn'.pc = "cancelDisable" /\ turn'.listening = FALSE /\ turn'.stray = turn.stray
        /\ turn'.aborted = turn.aborted /\ UNCHANGED <<orphans, updating>>
    BY HereFacts DEF Cancelled, TurnOnly, Turn
  <1>2. Kin(l, Stopped(l)) /\ Alike(l, Stopped(l)) /\ Stopped(l).enabled = l.enabled
    BY StoppedEntry, WritersAlike
  <1>3. /\ layer'.enabled = layer.enabled /\ layer'.refreshing = layer.refreshing
        /\ layer'.uncertain = layer.uncertain
    <2>1. Write(Stopped(l), FALSE) /\ Stopped(l) \in Entry
      BY <1>2 DEF Cancelled, Kin
    <2> QED BY <1>2, <2>1, WriteAlike DEF Alike
  <1>4. CalmLayer'
    BY <1>0, <1>1, <1>3 DEF CalmLayer
  <1>5. CalmTurn'
    BY <1>0, <1>1, <1>3 DEF CalmTurn, Working
  <1> QED BY <1>4, <1>5

LEMMA EnablingCalm ==
    ASSUME CalmHere, Initialize \/ Enable \/ Update PROVE CalmLayer' /\ CalmTurn'
  <1>0. /\ LayerShape /\ CalmLayer /\ CalmTurn
        /\ turn.pc \in {"init", "enable", "update"} /\ TurnOnly /\ UNCHANGED updating
        /\ ~layer.enabled /\ ~layer.refreshing
    BY DEF CalmHere, Initialize, Enable, Update, CalmTurn, Working, TurnOnly
  <1>1. CASE turn.aborted /\ Cancelled(layer)
    BY <1>0, <1>1, HereFacts, CancelledCalm DEF Alike
  <1>2. CASE turn.aborted /\ Cancelled([layer EXCEPT !.initialized = TRUE])
    <2> DEFINE l == [layer EXCEPT !.initialized = TRUE]
    <2>1. l \in Entry /\ Kin(layer, l) /\ Alike(layer, l) /\ l.enabled = layer.enabled
      BY HereFacts DEF Entry, Kin, Alike
    <2>2. Cancelled(l)
      BY <1>2
    <2> HIDE DEF l
    <2> QED BY <1>0, <1>2, <2>1, <2>2, CancelledCalm
  <1>3. CASE /\ turn.pc = "init" /\ ~turn.aborted /\ Goto("enable")
             /\ Write([layer EXCEPT !.initialized = TRUE, !.uncertain = FALSE], FALSE)
    <2> DEFINE l == [layer EXCEPT !.initialized = TRUE, !.uncertain = FALSE]
    <2>1. /\ l \in Entry /\ l.refreshing = layer.refreshing /\ l.uncertain = FALSE
          /\ l.enabled = layer.enabled
      BY HereFacts DEF Entry
    <2>2. Write(l, FALSE)
      BY <1>3
    <2> HIDE DEF l
    <2>3. /\ layer'.enabled = layer.enabled /\ layer'.refreshing = layer.refreshing
          /\ ~layer'.uncertain
      BY <2>1, <2>2, WriteAlike DEF Alike
    <2>4. /\ turn'.pc = "enable" /\ turn'.stray = turn.stray /\ UNCHANGED orphans
      BY <1>3, HereFacts DEF Goto, Turn
    <2>5. CalmLayer'
      BY <1>0, <2>3, <2>4 DEF CalmLayer
    <2>6. CalmTurn'
      BY <1>0, <1>3, <2>3, <2>4 DEF CalmTurn, Working
    <2> QED BY <2>5, <2>6
  <1>4. CASE turn.pc = "enable" /\ Works(TRUE) /\ Goto("update") /\ UNCHANGED <<layer, timers>>
    BY <1>0, <1>4, CallsCalm DEF Works
  <1>5. CASE /\ ~turn.aborted /\ turn.pc = "update" /\ Idles
             /\ EndTurn(turn.epoch, Stopped(Settled(Confirmed(layer, TRUE))), "granted", TRUE)
    <2> DEFINE c == Confirmed(layer, TRUE)
               s == Settled(c)
               l == Stopped(s)
    <2>1. Kin(layer, c) /\ c.uncertain = FALSE /\ c.refreshing = layer.refreshing
      BY HereFacts, ConfirmedEntry, WritersAlike
    <2>2. Kin(c, s) /\ Alike(c, s)
      BY <2>1, SettledEntry, WritersAlike DEF Kin
    <2>3. Kin(s, l) /\ Alike(s, l)
      BY <2>2, StoppedEntry, WritersAlike DEF Kin
    <2>4. EndTurn(turn.epoch, l, "granted", TRUE)
      BY <1>5
    <2> HIDE DEF c, s, l
    <2>5. Kin(layer, l) /\ l.uncertain = FALSE /\ ~l.refreshing
      BY <1>0, <2>1, <2>2, <2>3 DEF Kin, Alike
    <2>6. on' /\ ~turn.stray
      BY <1>0, <1>5, HereFacts DEF CalmTurn, Idles
    <2> QED BY <1>0, <2>4, <2>5, <2>6, EndsCalm
  <1> QED BY <1>0, <1>1, <1>2, <1>3, <1>4, <1>5, HereFacts
          DEF Initialize, Enable, Update, CancelledOrFailed, Aborts

LEMMA CleanupCalm == ASSUME CalmHere, CancelDisable \/ FailDisable PROVE CalmLayer' /\ CalmTurn'
  <1>0. /\ LayerShape /\ CalmLayer /\ CalmTurn /\ turn.pc = "cancelDisable" /\ ~turn.stray
        /\ UNCHANGED updating /\ ~layer.refreshing
        /\ EndTurn(turn.epoch, Settled(Confirmed(layer, FALSE)), "declined", FALSE)
    BY HereFacts DEF CalmHere, CancelDisable, FailDisable, CalmTurn, Working, TurnOnly
  <1> DEFINE c == Confirmed(layer, FALSE)
             l == Settled(c)
  <1>1. /\ Kin(layer, c) /\ c.enabled = FALSE /\ c.uncertain = FALSE
        /\ c.refreshing = layer.refreshing
    BY HereFacts, ConfirmedEntry, WritersAlike
  <1>2. Kin(c, l) /\ Alike(c, l) /\ l.enabled = c.enabled
    BY <1>1, SettledEntry, WritersAlike DEF Kin
  <1>3. EndTurn(turn.epoch, l, "declined", FALSE)
    BY <1>0
  <1> HIDE DEF c, l
  <1>4. Kin(layer, l) /\ l.enabled = FALSE /\ l.uncertain = FALSE /\ ~l.refreshing
    BY <1>0, <1>1, <1>2 DEF Kin, Alike
  <1> QED BY <1>0, <1>3, <1>4, EndsCalm

LEMMA TurnStepCalm == ASSUME CalmHere, TurnStep PROVE CalmLayer' /\ CalmTurn'
  BY StartTurnCalm, AdoptCalm, GuardCalm, DisableCalm, EnablingCalm, CleanupCalm DEF TurnStep

-----------------------------------------------------------------------------
\* The other steps.

LEMMA StrayCalm == ASSUME CalmHere, StraySettles PROVE CalmLayer' /\ CalmTurn'
  <1>0. CalmLayer /\ CalmTurn
    BY DEF CalmHere
  <1>1. /\ turn.stray /\ turn' = [turn EXCEPT !.stray = FALSE]
        /\ UNCHANGED <<orphans, layer, updating>>
    BY <1>0 DEF StraySettles, CalmLayer
  <1>2. /\ turn'.pc = turn.pc /\ turn'.listening = turn.listening /\ turn'.stray = FALSE
        /\ turn'.aborted = turn.aborted
    BY <1>1, HereFacts DEF Turn
  <1>3. CalmLayer'
    BY <1>0, <1>1 DEF CalmLayer
  <1>4. CalmTurn'
    BY <1>0, <1>1, <1>2 DEF CalmTurn, Working
  <1> QED BY <1>3, <1>4

LEMMA RefreshCalm == ASSUME CalmHere, Tick \/ RefreshSettles PROVE CalmLayer' /\ CalmTurn'
  <1>0. CalmLayer /\ CalmTurn
    BY DEF CalmHere
  <1>1. CASE Tick
    <2>1. /\ layer.enabled /\ layer.state = "enabled" /\ ~layer.destroying /\ timers > 0
          /\ layer' = [layer EXCEPT !.refreshing = TRUE] /\ updating' = TRUE
          /\ UNCHANGED <<turn, orphans, on>>
      BY <1>1 DEF Tick
    <2>2. /\ layer'.enabled = layer.enabled /\ layer'.timer = layer.timer
          /\ layer'.destroying = layer.destroying /\ layer'.present = layer.present
          /\ layer'.uncertain = layer.uncertain /\ layer'.state = layer.state
      BY <2>1, HereFacts DEF Entry
    <2>3. layer.present
      BY <2>1 DEF CalmHere, PresentShape
    <2>4. CalmLayer'
      BY <1>0, <2>1, <2>2, <2>3 DEF CalmLayer
    <2>5. CalmTurn'
      BY <1>0, <2>1, <2>2 DEF CalmTurn, Working
    <2> QED BY <2>4, <2>5
  <1>2. CASE RefreshSettles
    <2> DEFINE refreshing == layer.refreshing /\ ~(layer.present /\ ~layer.destroying /\ layer.enabled)
    <2>1. refreshing = FALSE
      BY <1>0, HereFacts DEF CalmLayer, Entry
    <2>2. /\ layer' = [layer EXCEPT !.refreshing = refreshing]
          /\ UNCHANGED <<turn, orphans, on>>
      BY <1>2 DEF RefreshSettles
    <2> HIDE DEF refreshing
    <2>3. /\ layer'.enabled = layer.enabled /\ layer'.timer = layer.timer
          /\ layer'.refreshing = FALSE
          /\ layer'.uncertain = layer.uncertain /\ layer'.state = layer.state
      BY <2>1, <2>2, HereFacts DEF Entry
    <2>4. CalmLayer'
      BY <1>0, <2>2, <2>3 DEF CalmLayer
    <2>5. CalmTurn'
      BY <1>0, <2>2, <2>3 DEF CalmTurn, Working
    <2> QED BY <2>4, <2>5
  <1> QED BY <1>1, <1>2

\* A newer intent aborts the turn, and starts a stray disable() where it listens.
LEMMA SupersedeCalm ==
    ASSUME CalmHere, NEW want \in BOOLEAN, NEW l \in Entry, Supersede(want, l),
           Len(intents) <= MaxRequests, l.epoch = layer.epoch,
           l.enabled = layer.enabled, l.timer = layer.timer, l.uncertain = layer.uncertain,
           l.state = layer.state, UNCHANGED <<on, orphans>>,
           \/ Alike(layer, l) /\ Kin(layer, l) /\ UNCHANGED updating
           \/ l.refreshing = FALSE
    PROVE  CalmLayer' /\ CalmTurn'
  <1> DEFINE fires == turn.listening /\ ~turn.aborted
             next == l.epoch + 1
             renewed == [l EXCEPT !.epoch = next, !.wanted = want, !.queued = next]
             m == IF fires THEN Stopped(renewed) ELSE renewed
  <1>0. LayerShape /\ LayerTypeOK /\ CalmLayer /\ CalmTurn
    BY DEF CalmHere, LayerShape
  <1>1. next \in Epochs
    BY <1>0, BoundsOfTheLayer DEF LayerTypeOK, Entry, Epochs
  <1>2. Write(m, FALSE)
    BY DEF Supersede
  <1>3. \/ turn' = turn /\ turn.pc \in {"idle", "adopt"}
        \/ turn' = [turn EXCEPT !.aborted = TRUE, !.stray = @ \/ fires]
    BY DEF Supersede
  <1> HIDE DEF next
  <1>4. /\ renewed \in Entry /\ renewed.enabled = l.enabled /\ renewed.timer = l.timer
        /\ renewed.refreshing = l.refreshing /\ renewed.uncertain = l.uncertain
        /\ renewed.present = l.present /\ renewed.destroying = l.destroying
        /\ renewed.state = l.state
    BY <1>1 DEF Entry
  <1> HIDE DEF renewed
  <1>5. /\ m \in Entry /\ m.enabled = l.enabled
        /\ m.refreshing = l.refreshing /\ m.uncertain = l.uncertain
        /\ m.present = l.present /\ m.destroying = l.destroying
        /\ m.state = l.state
        /\ m.timer = (l.timer /\ ~fires)
    <2>1. CASE fires
      <3>1. m = [renewed EXCEPT !.timer = FALSE]
        BY <2>1 DEF Stopped
      <3> HIDE DEF m
      <3> QED BY <1>4, <2>1, <3>1 DEF Entry
    <2>2. CASE ~fires
      <3>1. m = renewed /\ l.timer \in BOOLEAN
        BY <2>2 DEF Entry
      <3> HIDE DEF m
      <3> QED BY <1>4, <2>2, <3>1
    <2> QED BY <2>1, <2>2
  <1> HIDE DEF m
  <1>6. /\ layer'.enabled = layer.enabled /\ layer'.refreshing = l.refreshing
        /\ layer'.uncertain = layer.uncertain /\ layer'.state = layer.state
        /\ layer'.present = l.present /\ layer'.destroying = l.destroying
        /\ layer'.timer = (layer.timer /\ ~fires)
    <2>1. m.timer \in BOOLEAN
      BY <1>5 DEF Entry
    <2> QED BY <1>2, <1>5, <2>1, WriteAlike DEF Alike, Kin
  <1>7. fires => turn.pc \in {"init", "enable", "update"}
    BY <1>0 DEF CalmTurn
  <1>8. CalmLayer'
    BY <1>0, <1>6 DEF CalmLayer, Alike, Kin
  <1>9. CalmTurn'
    <2>0. /\ layer'.refreshing => layer.refreshing
          /\ layer.timer \in BOOLEAN
      BY <1>6, HereFacts DEF Alike, Entry
    <2>1. CASE turn' = turn /\ turn.pc \in {"idle", "adopt"}
      BY <1>0, <1>6, <1>7, <2>0, <2>1 DEF CalmTurn, Working
    <2>2. CASE turn' = [turn EXCEPT !.aborted = TRUE, !.stray = @ \/ fires]
      <3>1. /\ turn'.pc = turn.pc /\ turn'.listening = turn.listening /\ turn'.aborted = TRUE
            /\ turn'.stray = (turn.stray \/ fires) /\ turn'.want = turn.want
        BY <2>2, HereFacts DEF Turn
      <3> HIDE DEF fires
      <3> QED BY <1>0, <1>6, <1>7, <2>0, <3>1 DEF CalmTurn, Working
    <2> QED BY <1>3, <2>1, <2>2
  <1> QED BY <1>8, <1>9

LEMMA RequestCalm ==
    ASSUME CalmHere, NEW want \in BOOLEAN, Request(want) PROVE CalmLayer' /\ CalmTurn'
  <1>1. Len(intents) <= MaxRequests /\ UNCHANGED <<updating, on, orphans>>
    <2>1. Len(intents) < MaxRequests /\ intents \in Seq(Intent)
      BY DEF Request, CalmHere, LayerShape, LayerTypeOK
    <2> QED BY <2>1, BoundsOfTheLayer DEF Request
  <1>2. Supersede(want, layer) /\ Alike(layer, layer) /\ Kin(layer, layer)
    BY HereFacts DEF Request, Alike
  <1> QED BY <1>1, <1>2, HereFacts, SupersedeCalm

LEMMA BeginDestroyCalm ==
    ASSUME CalmHere, BeginDestroy, Len(intents) <= MaxRequests PROVE CalmLayer' /\ CalmTurn'
  <1> DEFINE l == [layer EXCEPT !.destroying = TRUE, !.refreshing = FALSE]
  <1>1. /\ l \in Entry /\ l.epoch = layer.epoch /\ l.timer = layer.timer
        /\ l.enabled = layer.enabled /\ l.uncertain = layer.uncertain
        /\ l.state = layer.state /\ l.refreshing = FALSE
    BY HereFacts DEF Entry
  <1>2. Supersede(FALSE, l) /\ FALSE \in BOOLEAN /\ UNCHANGED <<on, orphans>>
    BY DEF BeginDestroy
  <1> HIDE DEF l
  <1> QED BY <1>1, <1>2, SupersedeCalm

\* A teardown that is not refused turns the layer off and lets it go.
LEMMA TeardownCalm ==
    ASSUME CalmHere, TeardownShape, TeardownStep PROVE CalmLayer' /\ CalmTurn'
  <1>0. /\ CalmLayer /\ CalmTurn /\ turn.pc = "idle" /\ layer.destroying
        /\ ~layer.refreshing /\ UNCHANGED <<turn, orphans, updating>>
    BY DEF CalmHere, CalmLayer, TeardownShape, TeardownStep, Drained, TeardownDisable,
           TeardownDestroy
  <1>1. CASE Drained
    <2> DEFINE l == [layer EXCEPT !.queued = 0]
    <2>1. /\ l \in Entry /\ Alike(layer, l) /\ l.timer = layer.timer
          /\ l.enabled = layer.enabled /\ l.timer \in BOOLEAN
      BY HereFacts, BoundsOfTheLayer DEF Entry, Alike, Epochs
    <2>2. Write(l, FALSE) /\ UNCHANGED on
      BY <1>1 DEF Drained, Idles
    <2> HIDE DEF l
    <2>3. /\ layer'.enabled = layer.enabled /\ layer'.timer = layer.timer
          /\ Alike(layer, layer')
      BY <2>1, <2>2, WriteAlike DEF Alike
    <2>4. CalmLayer' /\ CalmTurn'
      BY <1>0, <2>2, <2>3 DEF CalmLayer, CalmTurn, Working, Alike
    <2> QED BY <2>4
  <1>2. CASE Write(Stopped([layer EXCEPT !.enabled = FALSE]), FALSE)
    <2> DEFINE m == [layer EXCEPT !.enabled = FALSE]
    <2>1. m \in Entry /\ Alike(layer, m) /\ m.enabled = FALSE
      BY HereFacts DEF Entry, Alike
    <2>2. Write(Stopped(m), FALSE)
      BY <1>2
    <2> HIDE DEF m
    <2>3. /\ Stopped(m) \in Entry /\ Alike(layer, Stopped(m))
          /\ Stopped(m).enabled = FALSE
      BY <2>1, StoppedEntry, WritersAlike DEF Kin, Alike
    <2>4. layer'.enabled = FALSE /\ Alike(layer, layer')
      BY <2>2, <2>3, WriteAlike DEF Alike
    <2>5. CalmLayer' /\ CalmTurn'
      BY <1>0, <2>4 DEF CalmLayer, CalmTurn, Working, Alike
    <2> QED BY <2>5
  <1>3. CASE teardown = "destroy" /\ Write([layer EXCEPT !.present = FALSE], FALSE)
    <2> DEFINE m == [layer EXCEPT !.present = FALSE]
    <2>1. m \in Entry /\ Alike(layer, m) /\ m.enabled = layer.enabled
      BY HereFacts DEF Entry, Alike
    <2>2. Write(m, FALSE)
      BY <1>3
    <2> HIDE DEF m
    <2>3. layer'.enabled = layer.enabled /\ Alike(layer, layer') /\ ~layer.enabled
      BY <1>3, <2>1, <2>2, WriteAlike DEF Alike, TeardownShape
    <2>4. CalmLayer' /\ CalmTurn'
      BY <1>0, <2>3 DEF CalmLayer, CalmTurn, Working, Alike
    <2> QED BY <2>4
  <1> QED BY <1>1, <1>2, <1>3, HereFacts
          DEF TeardownStep, TeardownDisable, TeardownDestroy, GiveBack

-----------------------------------------------------------------------------
\* The steps of the session.

LEMMA LayerIsThere == ASSUME SessionInv, PresentShape, [Next]_vars PROVE PresentShape'
  <1>0. /\ LayerShape /\ PristineShape /\ TeardownShape /\ EndShape /\ AppTypeOK
    BY DEF SessionInv
  <1>1. CASE UNCHANGED layerVars \/ UNCHANGED vars
    BY <1>1 DEF layerVars, vars, PresentShape
  <1>2. CASE TurnStep
    <2>1. LayerShape' /\ Kin(layer, layer') /\ layer.present
      BY <1>0, <1>2, TurnStepDone, TurnStepNeeds DEF TurnDone, TurnFrame, PresentShape
    <2> QED BY <2>1 DEF Kin, PresentShape
  <1>3. CASE StraySettles \/ Tick \/ RefreshSettles
    <2>1. Beside
      BY <1>0, <1>3, StrayDone, RefreshDone
    <2> QED BY <2>1 DEF Beside, Kin, PresentShape
  <1>4. CASE Drained
    BY <1>0, <1>4, DrainedDone DEF Kin, PresentShape
  <1>5. CASE TeardownDisable
    <2>1. layer'.present = layer.present /\ layer.present
      BY <1>0, <1>5, TeardownDisableDone DEF TeardownDisable, TeardownShape
    <2> QED BY <2>1 DEF PresentShape
  <1>6. CASE TeardownDestroy
    <2>1. turn.pc = "idle" /\ chain = <<>> /\ ~layer.enabled /\ layer.present
      BY <1>0, <1>6 DEF TeardownDestroy, TeardownShape
    <2>2. /\ UNCHANGED <<turn, chain>>
          /\ layer'.present = layer.present \/ layer'.enabled = layer.enabled
      BY <1>0, <1>6, TeardownDestroyDone
    <2> QED BY <2>1, <2>2 DEF PresentShape
  <1>7. CASE \E want \in BOOLEAN : Request(want)
    BY <1>0, <1>7, RequestDone DEF PresentShape
  <1>8. CASE BeginDestroy
    <2>1. teardown = "no" => Len(intents) <= MaxRequests
      BY <1>0 DEF TeardownShape
    <2> QED BY <1>0, <1>8, <2>1, BeginDestroyDone DEF PresentShape, BeginDestroy
  <1>9. CASE CreateData
    BY <1>9, RegisteredType DEF CreateData, PresentShape, Entry
  <1>10. CASE PhaseFails
    BY <1>10 DEF PhaseFails, PresentShape
  <1> QED BY <1>1, <1>2, <1>3, <1>4, <1>5, <1>6, <1>7, <1>8, <1>9, <1>10
          DEF Next, UserRequest, TurnRuns, CleanupSettles, RefreshRuns, TeardownRuns, AppStep,
              TeardownStep, PhaseBuilt, Cleanup, CleanupEnds, DestroyEnds, Destroy

\* A step refuses at most one call.
LEMMA FaultsCount == [Next]_vars => faults' = faults \/ faults' = faults + 1
  <1> SUFFICES ASSUME [Next]_vars PROVE faults' = faults \/ faults' = faults + 1
    OBVIOUS
  <1> DEFINE Goal == faults' = faults \/ faults' = faults + 1
  <1>1. ASSUME NEW leaves, Works(leaves) \/ Refuses(leaves) \/ Aborts(leaves) \/ Idles
        PROVE  Goal
    BY <1>1 DEF Works, Refuses, Aborts, Idles
  <1> HIDE DEF Goal
  <1>2. TurnStep => Goal
    <2>1. StartTurn => UNCHANGED faults
      BY DEF StartTurn
    <2>2. Adopt \/ Guard => Idles
      BY DEF Adopt, Guard
    <2>3. /\ Disable => \E leaves : Works(leaves) \/ Refuses(leaves) \/ Aborts(leaves)
          /\ CompEnable => \E leaves : Works(leaves) \/ Refuses(leaves)
          /\ CompDisable => \E leaves : Works(leaves) \/ Refuses(leaves)
          /\ CancelDisable => \E leaves : Works(leaves) \/ Refuses(leaves)
          /\ FailDisable => \E leaves : Works(leaves) \/ Refuses(leaves)
      BY DEF Disable, CompEnable, CompDisable, CancelDisable, FailDisable
    <2>4. /\ Initialize => Idles \/ \E leaves : Refuses(leaves)
          /\ Enable => \E leaves : Works(leaves) \/ Refuses(leaves) \/ Aborts(leaves)
          /\ Update => Idles \/ \E leaves : Refuses(leaves)
      BY DEF Initialize, Enable, Update
    <2> QED BY <1>1, <2>1, <2>2, <2>3, <2>4 DEF TurnStep, Goal
  <1>3. StraySettles \/ TeardownStep => Goal
    <2>1. StraySettles => \E leaves : Works(leaves) \/ Refuses(leaves)
      BY DEF StraySettles
    <2>2. TeardownStep => Idles \/ \E leaves : Works(leaves) \/ Refuses(leaves)
      BY DEF TeardownStep, Drained, TeardownDisable, TeardownDestroy, GiveBack
    <2> QED BY <1>1, <2>1, <2>2
  <1>4. Tick \/ RefreshSettles \/ (\E want \in BOOLEAN : Request(want)) => UNCHANGED faults
    BY DEF Tick, RefreshSettles, Request
  <1>5. PhaseBuilt \/ Cleanup \/ CleanupEnds \/ DestroyEnds \/ Destroy => UNCHANGED faults
    BY DEF PhaseBuilt, CreateData, Cleanup, BeginDestroy, CleanupEnds, DestroyEnds, Destroy,
           layerVars
  <1>6. PhaseFails => faults' = faults + 1
    BY DEF PhaseFails
  <1>7. UNCHANGED vars => UNCHANGED faults
    BY DEF vars, layerVars
  <1>8. Goal
    BY <1>2, <1>3, <1>4, <1>5, <1>6, <1>7
       DEF Next, UserRequest, TurnRuns, CleanupSettles, RefreshRuns, TeardownRuns, AppStep, Goal
  <1> QED BY <1>8 DEF Goal

CalmInv == SessionInv /\ PresentShape /\ CalmShape

LEMMA CalmInit == Init => CalmInv
  <1> SUFFICES ASSUME Init PROVE CalmInv
    OBVIOUS
  <1>1. SessionInv
    BY SessionInit
  <1>2. /\ ~layer.enabled /\ ~layer.uncertain /\ ~layer.refreshing
        /\ turn = NoTurn /\ chain = <<>> /\ orphans = 0
    BY DEF Init, LayerInit, Registered
  <1>3. PresentShape /\ CalmShape
    BY <1>2 DEF PresentShape, CalmShape, CalmLayer, CalmTurn, NoTurn, Working
  <1> QED BY <1>1, <1>3 DEF CalmInv

LEMMA CalmStep == CalmInv /\ [Next]_vars => CalmInv'
  <1> SUFFICES ASSUME CalmInv, [Next]_vars PROVE CalmInv'
    OBVIOUS
  <1>1. SessionInv' /\ PresentShape'
    BY SessionStep, LayerIsThere DEF CalmInv
  <1>2. ASSUME faults' = 0 PROVE CalmLayer' /\ CalmTurn'
    <2>0. /\ LayerShape /\ TeardownShape /\ PristineShape /\ PresentShape /\ AppTypeOK
          /\ TurnHere
      BY ShapeHere DEF CalmInv, SessionInv
    <2>1. faults = 0
      <3>1. CASE faults' = faults
        BY <1>2, <3>1
      <3>2. CASE faults' # faults
        <4>1. faults \in Nat /\ (faults' = faults \/ faults' = faults + 1)
          BY <2>0, FaultsCount DEF LayerShape, LayerTypeOK
        <4> QED BY <1>2, <4>1
      <3> QED BY <3>1, <3>2
    <2>2. CalmHere
      BY <1>2, <2>0, <2>1 DEF CalmHere, CalmInv, CalmShape
    <2>3. CalmLayer /\ CalmTurn
      BY <2>2 DEF CalmHere
    <2>4. CASE UNCHANGED layerVars \/ UNCHANGED vars
      <3>1. UNCHANGED <<layer, turn, orphans, updating, on>>
        BY <2>4 DEF layerVars, vars
      <3> QED BY <2>3, <3>1 DEF CalmLayer, CalmTurn
    <2>5. CASE TurnStep
      BY <2>2, <2>5, TurnStepCalm
    <2>6. CASE StraySettles
      BY <2>2, <2>6, StrayCalm
    <2>7. CASE Tick \/ RefreshSettles
      BY <2>2, <2>7, RefreshCalm
    <2>8. CASE TeardownStep
      BY <2>0, <2>2, <2>8, TeardownCalm
    <2>9. CASE \E want \in BOOLEAN : Request(want)
      BY <2>2, <2>9, RequestCalm
    <2>10. CASE BeginDestroy
      BY <2>0, <2>2, <2>10, BeginDestroyCalm DEF BeginDestroy, TeardownShape
    <2>11. CASE CreateData /\ built < 3
      <3>1. turn.pc = "idle" /\ ~layer.enabled
        BY <2>0, <2>11 DEF PristineShape
      <3>2. /\ ~layer'.enabled /\ ~layer'.uncertain /\ ~layer'.refreshing
            /\ UNCHANGED <<turn, orphans>>
        BY <2>11 DEF CreateData, Registered
      <3>3. CalmLayer' /\ CalmTurn'
        BY <2>3, <3>1, <3>2 DEF CalmLayer, CalmTurn, Working
      <3> QED BY <3>3
    <2>12. ~PhaseFails
      BY <1>2, <2>1 DEF PhaseFails
    <2>13. built \in 1 .. 4 /\ (built # 4 /\ START_ORDER[built + 1] = "data" => built < 3)
      BY <2>0, Orders DEF AppTypeOK
    <2>14. PhaseBuilt => UNCHANGED layerVars \/ (CreateData /\ built < 3)
      BY <2>13, Orders DEF PhaseBuilt
    <2> QED BY <2>4, <2>5, <2>6, <2>7, <2>8, <2>9, <2>10, <2>11, <2>12, <2>14
            DEF Next, UserRequest, TurnRuns, CleanupSettles, RefreshRuns, TeardownRuns,
                AppStep, Cleanup, CleanupEnds, DestroyEnds, Destroy
  <1>3. CalmShape'
    BY <1>2 DEF CalmShape
  <1> QED BY <1>1, <1>3 DEF CalmInv

LEMMA CalmAlways == Spec => []CalmInv
  BY CalmInit, CalmStep, PTL DEF Spec

-----------------------------------------------------------------------------
\* What a module that refuses nothing may rely on.

\* _doToggle and _startUpdateInterval(): however the requests cross, a layer
\* whose module never refused a call and that is ON between turns has its module
\* on and its refresh interval running, and is not marked uncertain.
THEOREM OnStaysAlive == Spec => []OnIsAlive
  <1>1. CalmInv => OnIsAlive
    BY DEF CalmInv, CalmShape, CalmLayer, CalmTurn, OnIsAlive, Quiet
  <1> QED BY <1>1, CalmAlways, PTL

\* _runPeriodicUpdate() and _invalidateRefresh(): such a layer that says it is
\* refreshing has an update of its current epoch in flight, so its next tick is
\* not refused for ever.
THEOREM RefreshingStaysReal == Spec => []RefreshingIsReal
  <1>1. CalmInv => RefreshingIsReal
    BY DEF CalmInv, CalmShape, CalmLayer, RefreshingIsReal
  <1> QED BY <1>1, CalmAlways, PTL

-----------------------------------------------------------------------------
\* The requests as VisibilityIntents sees them.

Asked == [e \in DOMAIN intents |-> intents[e].want]
Told == [e \in DOMAIN intents |-> intents[e].answer]
Closed == layer.destroying \/ teardown = "done"

Waits(e) == \E i \in DOMAIN chain : chain[i] = e
Runs(e) == turn.pc # "idle" /\ turn.epoch = e

\* The turns run in the order of the requests.
OrderShape ==
    /\ \A i, j \in DOMAIN chain : i < j => chain[i] < chain[j]
    /\ turn.pc # "idle" =>
           /\ turn.epoch \in DOMAIN intents
           /\ turn.want = intents[turn.epoch].want
           /\ \A i \in DOMAIN chain : turn.epoch < chain[i]

\* A request is pending as long as its turn waits or runs.
AnswerShape ==
    \A e \in DOMAIN intents : intents[e].answer = "pending" <=> Waits(e) \/ Runs(e)

\* The queued intent is the newest request until that one is answered; in a
\* teardown it is the teardown.
NewestShape ==
    /\ layer.queued \in {0, layer.epoch}
    /\ turn.pc # "idle" \/ chain # <<>> => layer.queued = layer.epoch
    /\ layer.destroying => layer.epoch # 0 /\ intents[layer.epoch].answer = "none"
    /\ teardown = "done" => layer.destroying

\* The turn was aborted when a newer request was made, and is where its own
\* request leads.
DirectionShape ==
    /\ turn.pc \notin {"idle", "adopt"} => (turn.aborted <=> turn.epoch # layer.epoch)
    /\ turn.pc = "adopt" => layer.enabled = turn.want
    /\ turn.pc \in {"disable", "compEnable", "compDisable"} => ~turn.want
    /\ turn.pc \in {"init", "enable", "update", "cancelDisable", "failDisable"} => turn.want

IntentShape == OrderShape /\ AnswerShape /\ NewestShape /\ DirectionShape

\* Nothing the callers see moves.
Still ==
    /\ Asked' = Asked /\ Told' = Told /\ Closed' = Closed
    /\ Effective' = Effective /\ layer'.enabled = layer.enabled

-----------------------------------------------------------------------------
\* The record of the requests.

LEMMA RowAnswered ==
    ASSUME intents \in Seq(Intent), NEW e \in DOMAIN intents, NEW answer \in Answers,
           intents' = [intents EXCEPT ![e].answer = answer]
    PROVE  /\ intents' \in Seq(Intent) /\ DOMAIN intents' = DOMAIN intents
           /\ intents'[e].answer = answer
           /\ \A i \in DOMAIN intents : intents'[i].want = intents[i].want
           /\ \A i \in DOMAIN intents \ {e} : intents'[i].answer = intents[i].answer
           /\ Asked' = Asked /\ Told' = [Told EXCEPT ![e] = answer]
  <1> DEFINE row == [intents[e] EXCEPT !.answer = answer]
  <1>1. intents[e] \in Intent
    OBVIOUS
  <1>2. row \in Intent /\ row.want = intents[e].want /\ row.answer = answer
    BY <1>1 DEF Intent, Answers
  <1>3. intents' = [intents EXCEPT ![e] = row]
    OBVIOUS
  <1> HIDE DEF row
  <1>4. /\ intents' \in Seq(Intent) /\ DOMAIN intents' = DOMAIN intents
        /\ \A i \in DOMAIN intents : intents'[i] = IF i = e THEN row ELSE intents[i]
    BY <1>2, <1>3
  <1>5. Asked' = Asked
    BY <1>2, <1>4 DEF Asked
  <1>6. Told' = [Told EXCEPT ![e] = answer]
    <2>1. \A i \in DOMAIN intents :
              intents'[i].answer = IF i = e THEN answer ELSE intents[i].answer
      BY <1>2, <1>4
    <2>2. Told' = [i \in DOMAIN intents |-> IF i = e THEN answer ELSE intents[i].answer]
      BY <1>4, <2>1 DEF Told
    <2> QED BY <2>2 DEF Told
  <1> QED BY <1>2, <1>4, <1>5, <1>6

LEMMA RowAppended ==
    ASSUME intents \in Seq(Intent), NEW row \in Intent, intents' = Append(intents, row)
    PROVE  /\ intents' \in Seq(Intent) /\ Len(intents) \in Nat
           /\ DOMAIN intents = 1 .. Len(intents) /\ DOMAIN intents' = 1 .. Len(intents) + 1
           /\ \A i \in DOMAIN intents : intents'[i] = intents[i]
           /\ intents'[Len(intents) + 1] = row
           /\ Asked' = Append(Asked, row.want) /\ Told' = Append(Told, row.answer)
  <1> DEFINE n == Len(intents)
  <1>1. /\ n \in Nat /\ DOMAIN intents = 1 .. n /\ DOMAIN intents' = 1 .. n + 1
        /\ \A i \in 1 .. n : intents'[i] = intents[i]
        /\ intents'[n + 1] = row /\ intents' \in Seq(Intent)
    OBVIOUS
  <1>2. \A i \in 1 .. n : intents[i].want \in BOOLEAN
    <2>1. \A i \in 1 .. n : intents[i] \in Intent
      BY <1>1
    <2> QED BY <2>1 DEF Intent
  <1> HIDE DEF n
  <1>3. Asked' = Append(Asked, row.want)
    <2>1. /\ Asked \in Seq(BOOLEAN) /\ Len(Asked) = n
          /\ \A i \in 1 .. n : Asked[i] = intents[i].want
      BY <1>1, <1>2 DEF Asked
    <2>2. Asked' = [i \in 1 .. n + 1 |-> IF i = n + 1 THEN row.want ELSE Asked[i]]
      BY <1>1, <2>1 DEF Asked
    <2> QED BY <1>1, <2>1, <2>2
  <1>4. Told' = Append(Told, row.answer)
    <2> DEFINE A == {"pending", "granted", "declined", "none"}
    <2>0. \A i \in 1 .. n : intents[i].answer \in A
      <3>1. \A i \in 1 .. n : intents[i] \in Intent
        BY <1>1
      <3> QED BY <3>1 DEF Intent
    <2> HIDE DEF A
    <2>1. /\ Told \in Seq(A) /\ Len(Told) = n
          /\ \A i \in 1 .. n : Told[i] = intents[i].answer
      BY <1>1, <2>0 DEF Told
    <2>2. Told' = [i \in 1 .. n + 1 |-> IF i = n + 1 THEN row.answer ELSE Told[i]]
      BY <1>1, <2>1 DEF Told
    <2> QED BY <1>1, <2>1, <2>2
  <1> QED BY <1>1, <1>3, <1>4 DEF n

-----------------------------------------------------------------------------
\* The queued intent.

LEMMA WritersQueued ==
    ASSUME NEW l \in Entry
    PROVE  /\ Stopped(l).queued = l.queued /\ Stopped(l).state = l.state
           /\ Presented(l).queued = l.queued
           /\ Presented(l).state = IF l.enabled THEN "enabled" ELSE "disabled"
           /\ Transit(l).queued = l.queued
           /\ Settled(l).queued = l.queued
           /\ turn.epoch = l.epoch => Settled(l).state = IF l.enabled THEN "enabled" ELSE "disabled"
           /\ Doubtful(l).queued = l.queued
           /\ \A enabled \in BOOLEAN : Confirmed(l, enabled).queued = l.queued
  <1>1. Stopped(l).queued = l.queued /\ Stopped(l).state = l.state
    BY DEF Stopped, Entry
  <1>2. /\ Presented(l).queued = l.queued /\ Presented(l) \in Entry
        /\ Presented(l).state = IF l.enabled THEN "enabled" ELSE "disabled"
    BY PresentedEntry DEF Presented, Entry, Kin
  <1>3. Transit(l).queued = l.queued /\ Transit(l) \in Entry
    BY TransitEntry DEF Transit, Entry, Kin
  <1>4. \A m \in Entry, e \in Epochs : /\ [m EXCEPT !.adoption = e].queued = m.queued
                                       /\ [m EXCEPT !.adoption = e].state = m.state
    BY DEF Entry
  <1>5. /\ Settled(l).queued = l.queued
        /\ turn.epoch = l.epoch => Settled(l).state = IF l.enabled THEN "enabled" ELSE "disabled"
    <2>0. 0 \in Epochs /\ l.epoch \in Epochs
      BY LayerAssumption DEF Epochs, Entry
    <2>1. CASE turn.epoch = l.epoch
      <3>1. Settled(l) = [Presented(l) EXCEPT !.adoption = 0]
        BY <2>1 DEF Settled
      <3> QED BY <1>2, <1>4, <2>0, <3>1
    <2>2. CASE turn.epoch # l.epoch
      <3>1. Settled(l) = [Transit(l) EXCEPT !.adoption = l.epoch]
        BY <2>2 DEF Settled
      <3> QED BY <1>3, <1>4, <2>0, <2>2, <3>1
    <2> QED BY <2>1, <2>2
  <1>6. Doubtful(l).queued = l.queued
    BY DEF Doubtful, Entry
  <1>7. \A enabled \in BOOLEAN : Confirmed(l, enabled).queued = l.queued
    BY DEF Confirmed, Entry
  <1> QED BY <1>1, <1>2, <1>3, <1>5, <1>6, <1>7

LEMMA WriteQueued ==
    ASSUME NEW l \in Entry, NEW arms \in BOOLEAN, Write(l, arms)
    PROVE  layer'.queued = l.queued
  <1>1. CASE arms
    <2>1. layer' = [l EXCEPT !.timer = TRUE]
      BY <1>1 DEF Write
    <2> QED BY <2>1 DEF Entry
  <1>2. CASE ~arms
    BY <1>2 DEF Write
  <1> QED BY <1>1, <1>2

\* What the layer counts as follows the newest request while that one is queued.
LEMMA EffectiveQueued ==
    ASSUME layer.queued # 0, layer'.queued = layer.queued,
           intents'[layer.queued].want = intents[layer.queued].want
    PROVE  Effective' = Effective
  BY DEF Effective

LEMMA EffectiveType ==
    ASSUME intents' \in Seq(Intent), Len(intents') = layer'.epoch,
           layer'.queued \in {0, layer'.epoch}
    PROVE  Effective' \in BOOLEAN
  <1>1. CASE layer'.queued = 0
    BY <1>1 DEF Effective
  <1>2. CASE layer'.queued # 0
    <2>1. layer'.queued \in DOMAIN intents'
      BY <1>2
    <2>2. intents'[layer'.queued] \in Intent
      BY <2>1
    <2> QED BY <1>2, <2>2 DEF Effective, Intent
  <1> QED BY <1>1, <1>2

-----------------------------------------------------------------------------
\* The end of a turn answers its request.

\* The request whose turn runs, or starts, and the queue behind it.
Turns(e) ==
    \/ turn.pc # "idle" /\ e = turn.epoch /\ chain' = chain
    \/ turn.pc = "idle" /\ chain # <<>> /\ e = Head(chain) /\ chain' = Tail(chain)

LEMMA IntentFacts ==
    ASSUME LayerShape, IntentShape
    PROVE  /\ layer \in Entry /\ turn \in Turn /\ intents \in Seq(Intent)
           /\ Len(intents) = layer.epoch /\ layer.epoch \in Nat
           /\ DOMAIN intents = 1 .. layer.epoch
           /\ chain \in Seq(Epochs \ {0}) /\ Len(chain) \in Nat /\ DOMAIN chain = 1 .. Len(chain)
           /\ \A i \in DOMAIN chain : chain[i] \in DOMAIN intents
           /\ \A i \in DOMAIN intents : intents[i] \in Intent
           /\ layer.enabled \in BOOLEAN /\ layer.destroying \in BOOLEAN
           /\ layer.state \in Phases /\ turn.want \in BOOLEAN /\ turn.aborted \in BOOLEAN
  <1>1. LayerTypeOK /\ ChainShape
    BY DEF LayerShape
  <1>2. layer \in Entry /\ turn \in Turn /\ intents \in Seq(Intent) /\ Len(intents) = layer.epoch
    BY <1>1 DEF LayerTypeOK
  <1>3. /\ layer.epoch \in Nat /\ DOMAIN intents = 1 .. layer.epoch
        /\ \A i \in DOMAIN intents : intents[i] \in Intent
    BY <1>2
  <1>4. /\ chain \in Seq(Epochs \ {0}) /\ Len(chain) \in Nat /\ DOMAIN chain = 1 .. Len(chain)
        /\ \A i \in DOMAIN chain : chain[i] \in DOMAIN intents
    BY <1>1 DEF LayerTypeOK, ChainShape
  <1> QED BY <1>2, <1>3, <1>4 DEF Entry, Turn

\* What is left in the queue.
LEMMA QueueBehind ==
    ASSUME LayerShape, IntentShape, NEW e, Turns(e)
    PROVE  /\ e \in DOMAIN intents /\ intents[e].answer = "pending"
           /\ layer.queued = layer.epoch
           /\ chain' \in Seq(Epochs \ {0}) /\ DOMAIN chain' = 1 .. Len(chain') /\ Len(chain') \in Nat
           /\ \A i \in DOMAIN chain' : e < chain'[i] /\ chain'[i] \in DOMAIN intents
           /\ \A i, j \in DOMAIN chain' : i < j => chain'[i] < chain'[j]
           /\ \A x \in DOMAIN intents \ {e} :
                  intents[x].answer = "pending" <=> \E i \in DOMAIN chain' : chain'[i] = x
  <1>0. /\ chain \in Seq(Epochs \ {0}) /\ Len(chain) \in Nat /\ DOMAIN chain = 1 .. Len(chain)
        /\ \A i \in DOMAIN chain : chain[i] \in DOMAIN intents
        /\ DOMAIN intents = 1 .. layer.epoch
    BY IntentFacts
  <1>1. OrderShape /\ AnswerShape /\ NewestShape
    BY DEF IntentShape
  <1>2. CASE turn.pc # "idle" /\ e = turn.epoch /\ chain' = chain
    <2>1. /\ e \in DOMAIN intents /\ Runs(e)
          /\ \A i \in DOMAIN chain : e < chain[i]
          /\ \A i, j \in DOMAIN chain : i < j => chain[i] < chain[j]
      BY <1>1, <1>2 DEF OrderShape, Runs
    <2>2. intents[e].answer = "pending" /\ layer.queued = layer.epoch
      BY <1>1, <1>2, <2>1 DEF AnswerShape, NewestShape
    <2>3. \A x \in DOMAIN intents \ {e} : intents[x].answer = "pending" <=> Waits(x)
      BY <1>1, <1>2 DEF AnswerShape, Runs
    <2> QED BY <1>0, <1>2, <2>1, <2>2, <2>3 DEF Waits
  <1>3. CASE turn.pc = "idle" /\ chain # <<>> /\ e = Head(chain) /\ chain' = Tail(chain)
    <2>1. /\ Len(chain) >= 1 /\ e = chain[1]
          /\ chain' \in Seq(Epochs \ {0}) /\ Len(chain') = Len(chain) - 1
          /\ DOMAIN chain' = 1 .. Len(chain') /\ Len(chain') \in Nat
          /\ \A i \in DOMAIN chain' : chain'[i] = chain[i + 1] /\ i + 1 \in DOMAIN chain
          /\ 1 \in DOMAIN chain
      BY <1>0, <1>3
    <2>2. \A i, j \in DOMAIN chain : i < j => chain[i] < chain[j]
      BY <1>1 DEF OrderShape
    <2>3. /\ e \in DOMAIN intents /\ Waits(e)
      BY <1>0, <2>1 DEF Waits
    <2>4. intents[e].answer = "pending" /\ layer.queued = layer.epoch
      BY <1>1, <1>3, <2>3 DEF AnswerShape, NewestShape
    <2>5. \A i \in DOMAIN chain' : e < chain'[i] /\ chain'[i] \in DOMAIN intents
      BY <1>0, <2>1, <2>2
    <2>6. \A i, j \in DOMAIN chain' : i < j => chain'[i] < chain'[j]
      BY <1>0, <2>1, <2>2
    <2>7. ASSUME NEW x \in DOMAIN intents \ {e}
          PROVE  intents[x].answer = "pending" <=> \E i \in DOMAIN chain' : chain'[i] = x
      <3>1. intents[x].answer = "pending" <=> Waits(x)
        BY <1>1, <1>3 DEF AnswerShape, Runs
      <3>2. ASSUME Waits(x) PROVE \E i \in DOMAIN chain' : chain'[i] = x
        <4>1. PICK i \in DOMAIN chain : chain[i] = x
          BY <3>2 DEF Waits
        <4>2. i # 1 /\ i - 1 \in DOMAIN chain' /\ (i - 1) + 1 = i
          BY <1>0, <2>1, <4>1
        <4>3. chain'[i - 1] = x
          BY <2>1, <4>1, <4>2
        <4> QED BY <4>2, <4>3
      <3>3. ASSUME NEW i \in DOMAIN chain', chain'[i] = x PROVE Waits(x)
        BY <2>1, <3>3 DEF Waits
      <3> QED BY <3>1, <3>2, <3>3
    <2> QED BY <2>1, <2>3, <2>4, <2>5, <2>6, <2>7
  <1> QED BY <1>2, <1>3 DEF Turns

LEMMA TurnAnswers ==
    ASSUME LayerShape, IntentShape, NEW e, Turns(e), NEW answer \in Answers,
           NEW arms \in BOOLEAN, NEW l, Kin(layer, l), l.queued = layer.queued,
           EndTurn(e, l, answer, arms), UNCHANGED teardown,
           answer = "granted" =>
               /\ e = layer.epoch /\ l.enabled = intents[e].want
               /\ l.state \in {"enabling", "disabling"} =>
                      l.state = IF l.enabled THEN "enabled" ELSE "disabled"
    PROVE  IntentShape' /\ Intents!Next
  <1> DEFINE queued == IF l.queued = e THEN 0 ELSE l.queued
             m == [l EXCEPT !.queued = queued]
  <1>0. /\ layer \in Entry /\ turn \in Turn /\ intents \in Seq(Intent)
        /\ Len(intents) = layer.epoch /\ layer.epoch \in Nat
        /\ DOMAIN intents = 1 .. layer.epoch
        /\ \A i \in DOMAIN intents : intents[i] \in Intent
        /\ l \in Entry
    BY IntentFacts DEF Kin
  <1>1. /\ e \in DOMAIN intents /\ intents[e].answer = "pending"
        /\ layer.queued = layer.epoch
        /\ chain' \in Seq(Epochs \ {0}) /\ DOMAIN chain' = 1 .. Len(chain') /\ Len(chain') \in Nat
        /\ \A i \in DOMAIN chain' : e < chain'[i] /\ chain'[i] \in DOMAIN intents
        /\ \A i, j \in DOMAIN chain' : i < j => chain'[i] < chain'[j]
        /\ \A x \in DOMAIN intents \ {e} :
               intents[x].answer = "pending" <=> \E i \in DOMAIN chain' : chain'[i] = x
    BY QueueBehind
  <1>2. OrderShape /\ AnswerShape /\ NewestShape
    BY DEF IntentShape
  <1>3. queued \in Epochs /\ Write(m, arms)
    BY <1>0, LayerAssumption DEF Entry, Epochs, EndTurn
  <1>4. queued = IF e = layer.epoch THEN 0 ELSE layer.epoch
    BY <1>1
  <1> HIDE DEF queued
  <1>5. /\ m \in Entry /\ m.queued = queued /\ m.state = l.state /\ m.enabled = l.enabled
        /\ m.epoch = layer.epoch /\ m.destroying = layer.destroying
    BY <1>0, <1>3 DEF Kin, Entry
  <1> HIDE DEF m
  <1>6. /\ layer'.queued = queued /\ layer'.state = l.state /\ layer'.enabled = l.enabled
        /\ layer'.epoch = layer.epoch /\ layer'.destroying = layer.destroying
    BY <1>3, <1>5, WriteQueued, WriteAlike DEF Kin
  <1>7. intents' = [intents EXCEPT ![e].answer = answer] /\ turn' = NoTurn /\ turn'.pc = "idle"
    BY DEF EndTurn, NoTurn
  <1>8. /\ intents' \in Seq(Intent) /\ DOMAIN intents' = DOMAIN intents
        /\ intents'[e].answer = answer
        /\ \A i \in DOMAIN intents : intents'[i].want = intents[i].want
        /\ \A i \in DOMAIN intents \ {e} : intents'[i].answer = intents[i].answer
        /\ Asked' = Asked /\ Told' = [Told EXCEPT ![e] = answer]
    BY <1>0, <1>1, <1>7, RowAnswered
  <1>9. IntentShape'
    <2>1. OrderShape'
      BY <1>1, <1>7 DEF OrderShape
    <2>2. AnswerShape'
      <3>1. ASSUME NEW x \in DOMAIN intents
            PROVE  intents'[x].answer = "pending" <=> \E i \in DOMAIN chain' : chain'[i] = x
        <4>1. CASE x = e
          <5>1. ~ \E i \in DOMAIN chain' : chain'[i] = e
            BY <1>0, <1>1
          <5> QED BY <1>8, <4>1, <5>1 DEF Answers
        <4>2. CASE x # e
          BY <1>1, <1>8, <4>2
        <4> QED BY <4>1, <4>2
      <3> QED BY <1>7, <1>8, <3>1 DEF AnswerShape, Waits, Runs
    <2>3. NewestShape'
      <3>1. layer'.queued \in {0, layer'.epoch}
        BY <1>4, <1>6
      <3>2. ASSUME chain' # <<>> PROVE layer'.queued = layer'.epoch
        <4>1. 1 \in DOMAIN chain'
          BY <1>1, <3>2
        <4>2. e < chain'[1] /\ chain'[1] \in 1 .. layer.epoch /\ e \in 1 .. layer.epoch
          BY <1>0, <1>1, <4>1
        <4>3. e # layer.epoch
          BY <1>0, <4>2
        <4> QED BY <1>4, <1>6, <4>3
      <3>3. ASSUME layer.destroying
            PROVE  layer.epoch # 0 /\ intents'[layer.epoch].answer = "none"
        <4>1. layer.epoch # 0 /\ intents[layer.epoch].answer = "none"
          BY <1>2, <3>3 DEF NewestShape
        <4> QED BY <1>0, <1>1, <1>8, <4>1
      <3> QED BY <1>2, <1>6, <1>7, <3>1, <3>2, <3>3 DEF NewestShape
    <2>4. DirectionShape'
      BY <1>7 DEF DirectionShape
    <2> QED BY <2>1, <2>2, <2>3, <2>4 DEF IntentShape
  <1>10. Closed' = Closed
    BY <1>6 DEF Closed
  <1>11. Told[e] = "pending" /\ e \in DOMAIN Told /\ DOMAIN Asked = DOMAIN intents
         /\ Asked[e] = intents[e].want /\ Len(Asked) = layer.epoch
    BY <1>0, <1>1 DEF Told, Asked
  <1>12. Effective' \in BOOLEAN /\ layer'.enabled \in BOOLEAN
    <2>1. Len(intents') = layer'.epoch
      BY <1>0, <1>6, <1>8
    <2>2. layer'.queued \in {0, layer'.epoch}
      BY <1>4, <1>6
    <2> QED BY <1>5, <1>6, <1>8, <2>1, <2>2, EffectiveType DEF Entry
  <1>13. ASSUME answer = "granted" PROVE Intents!Grant(e)
    <2>1. e = layer.epoch /\ l.enabled = intents[e].want
      BY <1>13
    <2>2. ~Closed
      BY <1>1, <1>2, <2>1 DEF Closed, NewestShape
    <2>3. layer'.queued = 0
      BY <1>4, <1>6, <2>1
    <2>4. Effective' = l.enabled
      <3>1. l.enabled \in BOOLEAN /\ l.state \in Phases
        BY <1>0 DEF Entry
      <3>2. l.state = "enabled" \/ l.state = "disabled"
        BY <1>13, <3>1 DEF Phases
      <3> QED BY <1>6, <2>3, <3>1, <3>2 DEF Effective
    <2> QED BY <1>6, <1>8, <1>10, <1>11, <1>13, <2>1, <2>2, <2>4
         DEF Intents!Grant, Asked, Told, Closed
  <1>14. ASSUME answer = "declined" PROVE Intents!Decline(e)
    <2>1. ASSUME e < layer.epoch PROVE Effective' = Effective
      <3>1. layer'.queued = layer.queued /\ layer.queued # 0 /\ layer.queued \in DOMAIN intents
        BY <1>0, <1>1, <1>4, <1>6, <2>1
      <3> QED BY <1>8, <3>1, EffectiveQueued
    <2> QED BY <1>8, <1>10, <1>11, <1>12, <1>14, <2>1
         DEF Intents!Decline, Asked, Told, Closed
  <1>15. Intents!Grant(e) \/ Intents!Decline(e)
    BY <1>13, <1>14 DEF Answers
  <1> HIDE DEF Intents!Grant, Intents!Decline
  <1>16. \E r \in DOMAIN Told : Intents!Grant(r) \/ Intents!Decline(r)
    BY <1>11, <1>15
  <1> QED BY <1>9, <1>16 DEF Intents!Next, Told

\* A turn goes on to its next call.
LEMMA TurnGoesOn ==
    ASSUME LayerShape, IntentShape, turn.pc \notin {"idle", "adopt"},
           UNCHANGED <<intents, chain, teardown>>, NEW l \in Entry, Write(l, FALSE),
           l.epoch = layer.epoch, l.queued = layer.queued,
           l.destroying = layer.destroying, l.enabled = layer.enabled,
           turn'.epoch = turn.epoch, turn'.want = turn.want, turn'.aborted = turn.aborted,
           turn'.pc \notin {"idle", "adopt"},
           turn'.pc \in {"disable", "compEnable", "compDisable"} => ~turn.want,
           turn'.pc \in {"init", "enable", "update", "cancelDisable", "failDisable"} => turn.want
    PROVE  IntentShape' /\ Still
  <1>0. OrderShape /\ AnswerShape /\ NewestShape /\ DirectionShape
    BY DEF IntentShape
  <1>1. /\ layer'.epoch = layer.epoch /\ layer'.queued = layer.queued
        /\ layer'.destroying = layer.destroying /\ layer'.enabled = layer.enabled
    BY WriteAlike, WriteQueued DEF Kin
  <1>2. OrderShape' /\ AnswerShape'
    BY <1>0 DEF OrderShape, AnswerShape, Waits, Runs
  <1>3. NewestShape'
    BY <1>0, <1>1 DEF NewestShape
  <1>4. DirectionShape'
    BY <1>0, <1>1 DEF DirectionShape
  <1>5. Effective' = Effective
    <2>1. turn.epoch \in 1 .. layer.epoch /\ layer.queued = layer.epoch /\ layer.epoch \in Nat
      BY <1>0, IntentFacts DEF OrderShape, NewestShape
    <2>2. layer.queued # 0
      BY <2>1
    <2> QED BY <1>1, <2>2, EffectiveQueued
  <1>6. Asked' = Asked /\ Told' = Told /\ Closed' = Closed
    BY <1>1 DEF Asked, Told, Closed
  <1> QED BY <1>1, <1>2, <1>3, <1>4, <1>5, <1>6 DEF IntentShape, Still

-----------------------------------------------------------------------------
\* The steps of a turn.

\* The entries a turn may end with.
LEMMA EndingsQueued ==
    ASSUME LayerShape
    PROVE  /\ Kin(layer, layer) /\ layer \in Entry
           /\ Kin(layer, Presented(layer)) /\ Presented(layer).queued = layer.queued
           /\ Presented(layer).enabled = layer.enabled
           /\ Presented(layer).state = IF layer.enabled THEN "enabled" ELSE "disabled"
           /\ Kin(layer, Settled(layer)) /\ Settled(layer).queued = layer.queued
           /\ Settled(layer).enabled = layer.enabled
           /\ Kin(layer, Settled(Doubtful(layer)))
           /\ Settled(Doubtful(layer)).queued = layer.queued
           /\ \A enabled \in BOOLEAN :
                  /\ Kin(layer, Settled(Confirmed(layer, enabled)))
                  /\ Settled(Confirmed(layer, enabled)).queued = layer.queued
                  /\ Settled(Confirmed(layer, enabled)).enabled = enabled
                  /\ Kin(layer, Stopped(Settled(Confirmed(layer, enabled))))
                  /\ Stopped(Settled(Confirmed(layer, enabled))).queued = layer.queued
                  /\ Stopped(Settled(Confirmed(layer, enabled))).enabled = enabled
                  /\ Kin(layer, Settled(Stopped(Confirmed(layer, enabled))))
                  /\ Settled(Stopped(Confirmed(layer, enabled))).queued = layer.queued
                  /\ Settled(Stopped(Confirmed(layer, enabled))).enabled = enabled
           /\ turn.epoch = layer.epoch =>
                  /\ Settled(layer).state = IF layer.enabled THEN "enabled" ELSE "disabled"
                  /\ \A enabled \in BOOLEAN :
                         /\ Stopped(Settled(Confirmed(layer, enabled))).state
                                = IF enabled THEN "enabled" ELSE "disabled"
                         /\ Settled(Stopped(Confirmed(layer, enabled))).state
                                = IF enabled THEN "enabled" ELSE "disabled"
  <1>0. layer \in Entry /\ Kin(layer, layer)
    BY DEF LayerShape, LayerTypeOK, Kin
  <1>1. \A l, m, n : Kin(l, m) /\ Kin(m, n) => Kin(l, n)
    BY DEF Kin
  <1>2. \A l, m : Kin(l, m) => m \in Entry /\ m.epoch = l.epoch
    BY DEF Kin
  <1>3. \A l \in Entry : /\ Kin(l, Stopped(l)) /\ Stopped(l).enabled = l.enabled
                         /\ Stopped(l).queued = l.queued /\ Stopped(l).state = l.state
    BY StoppedEntry, WritersQueued
  <1>4. \A l \in Entry :
            /\ Kin(l, Settled(l)) /\ Settled(l).enabled = l.enabled
            /\ Settled(l).queued = l.queued
            /\ turn.epoch = l.epoch =>
                   Settled(l).state = IF l.enabled THEN "enabled" ELSE "disabled"
    BY SettledEntry, WritersQueued
  <1>5. \A l \in Entry : Kin(l, Doubtful(l)) /\ Doubtful(l).queued = l.queued
    BY DoubtfulEntry, WritersQueued
  <1>6. /\ Kin(layer, Presented(layer)) /\ Presented(layer).queued = layer.queued
        /\ Presented(layer).enabled = layer.enabled
        /\ Presented(layer).state = IF layer.enabled THEN "enabled" ELSE "disabled"
    BY <1>0, PresentedEntry, WritersQueued
  <1>7. ASSUME NEW enabled \in BOOLEAN
        PROVE  /\ Kin(layer, Settled(Confirmed(layer, enabled)))
               /\ Settled(Confirmed(layer, enabled)).queued = layer.queued
               /\ Settled(Confirmed(layer, enabled)).enabled = enabled
               /\ Kin(layer, Stopped(Settled(Confirmed(layer, enabled))))
               /\ Stopped(Settled(Confirmed(layer, enabled))).queued = layer.queued
               /\ Stopped(Settled(Confirmed(layer, enabled))).enabled = enabled
               /\ Kin(layer, Settled(Stopped(Confirmed(layer, enabled))))
               /\ Settled(Stopped(Confirmed(layer, enabled))).queued = layer.queued
               /\ Settled(Stopped(Confirmed(layer, enabled))).enabled = enabled
               /\ turn.epoch = layer.epoch =>
                      /\ Stopped(Settled(Confirmed(layer, enabled))).state
                             = IF enabled THEN "enabled" ELSE "disabled"
                      /\ Settled(Stopped(Confirmed(layer, enabled))).state
                             = IF enabled THEN "enabled" ELSE "disabled"
    <2> DEFINE c == Confirmed(layer, enabled)
               s == Settled(c)
               t == Stopped(c)
    <2>1. Kin(layer, c) /\ c.queued = layer.queued /\ c.enabled = enabled
      BY <1>0, ConfirmedEntry, WritersQueued
    <2> HIDE DEF c
    <2>2. /\ Kin(layer, s) /\ s.queued = layer.queued /\ s.enabled = enabled
          /\ turn.epoch = layer.epoch => s.state = IF enabled THEN "enabled" ELSE "disabled"
      BY <1>1, <1>2, <1>4, <2>1
    <2>3. Kin(layer, t) /\ t.queued = layer.queued /\ t.enabled = enabled
      BY <1>1, <1>2, <1>3, <2>1
    <2> HIDE DEF s, t
    <2>4. /\ Kin(layer, Stopped(s)) /\ Stopped(s).queued = layer.queued
          /\ Stopped(s).enabled = enabled /\ Stopped(s).state = s.state
      BY <1>1, <1>2, <1>3, <2>2
    <2>5. /\ Kin(layer, Settled(t)) /\ Settled(t).queued = layer.queued
          /\ Settled(t).enabled = enabled
          /\ turn.epoch = layer.epoch =>
                 Settled(t).state = IF enabled THEN "enabled" ELSE "disabled"
      BY <1>1, <1>2, <1>4, <2>3
    <2> QED BY <2>2, <2>4, <2>5 DEF s, t, c
  <1>8. Kin(layer, Settled(Doubtful(layer))) /\ Settled(Doubtful(layer)).queued = layer.queued
    BY <1>0, <1>1, <1>2, <1>4, <1>5
  <1> QED BY <1>0, <1>4, <1>6, <1>7, <1>8

\* What a step must show: the shapes hold, and the callers see a step of
\* VisibilityIntents or none.
IntentDone == IntentShape' /\ (Still \/ Intents!Next)

LEMMA AnswersDone ==
    ASSUME LayerShape, IntentShape, NEW e, Turns(e), UNCHANGED teardown,
           NEW arms \in BOOLEAN, NEW l, Kin(layer, l), l.queued = layer.queued,
           \/ EndTurn(e, l, "declined", arms)
           \/ /\ EndTurn(e, l, "granted", arms)
              /\ e = layer.epoch /\ l.enabled = intents[e].want
              /\ l.state \in {"enabling", "disabling"} =>
                     l.state = IF l.enabled THEN "enabled" ELSE "disabled"
    PROVE  IntentDone
  <1>1. CASE EndTurn(e, l, "declined", arms)
    <2>1. "declined" \in Answers /\ "declined" # "granted"
      BY DEF Answers
    <2> QED BY <1>1, <2>1, TurnAnswers DEF IntentDone
  <1>2. CASE /\ EndTurn(e, l, "granted", arms)
             /\ e = layer.epoch /\ l.enabled = intents[e].want
             /\ l.state \in {"enabling", "disabling"} =>
                    l.state = IF l.enabled THEN "enabled" ELSE "disabled"
    <2>1. "granted" \in Answers
      BY DEF Answers
    <2> QED BY <1>2, <2>1, TurnAnswers DEF IntentDone
  <1> QED BY <1>1, <1>2

LEMMA StartTurnIntents == ASSUME LayerShape, IntentShape, StartTurn PROVE IntentDone
  <1> DEFINE e == Head(chain)
             started == [NoTurn EXCEPT !.epoch = e, !.want = intents[e].want]
  <1>0. /\ turn.pc = "idle" /\ chain # <<>> /\ chain' = Tail(chain)
        /\ UNCHANGED <<teardown, updating, on, faults>> /\ Turns(e) /\ FALSE \in BOOLEAN
    BY DEF StartTurn, Turns
  <1> HIDE DEF e
  <1>1. CASE EndTurn(e, layer, "declined", FALSE)
    BY <1>0, <1>1, EndingsQueued, AnswersDone
  <1>2. CASE /\ ~Superseded(e) /\ Matches(e)
             /\ EndTurn(e, IF layer.state \in {"enabling", "disabling"}
                           THEN Presented(layer) ELSE layer, "granted", FALSE)
    <2>0. e = layer.epoch /\ layer.enabled = intents[e].want
      BY <1>2 DEF Superseded, Matches
    <2>1. CASE layer.state \in {"enabling", "disabling"}
      <3>1. EndTurn(e, Presented(layer), "granted", FALSE)
        BY <1>2, <2>1
      <3> QED BY <1>0, <2>0, <3>1, EndingsQueued, AnswersDone
    <2>2. CASE layer.state \notin {"enabling", "disabling"}
      <3>1. EndTurn(e, layer, "granted", FALSE)
        BY <1>2, <2>2
      <3> QED BY <1>0, <2>0, <2>2, <3>1, EndingsQueued, AnswersDone
    <2> QED BY <2>1, <2>2
  <1>3. CASE /\ ~Superseded(e)
             /\ intents' = intents
             /\ layer'.enabled = layer.enabled /\ layer'.queued = layer.queued
             /\ layer'.epoch = layer.epoch /\ layer'.destroying = layer.destroying
             /\ turn'.epoch = e /\ turn'.want = intents[e].want /\ turn'.aborted = FALSE
             /\ turn'.pc = "guard" \/ (turn'.pc = "adopt" /\ Matches(e))
    <2>0. e = layer.epoch
      BY <1>3 DEF Superseded
    <2>1. /\ e \in DOMAIN intents /\ intents[e].answer = "pending"
          /\ layer.queued = layer.epoch
          /\ \A i \in DOMAIN chain' : e < chain'[i] /\ chain'[i] \in DOMAIN intents
          /\ \A i, j \in DOMAIN chain' : i < j => chain'[i] < chain'[j]
          /\ \A x \in DOMAIN intents \ {e} :
                 intents[x].answer = "pending" <=> \E i \in DOMAIN chain' : chain'[i] = x
      BY <1>0, QueueBehind
    <2>2. NewestShape /\ layer.epoch \in Nat /\ DOMAIN intents = 1 .. layer.epoch
      BY IntentFacts DEF IntentShape
    <2>3. OrderShape'
      BY <1>3, <2>1 DEF OrderShape
    <2>4. AnswerShape'
      BY <1>3, <2>1 DEF AnswerShape, Waits, Runs
    <2>5. NewestShape'
      BY <1>0, <1>3, <2>1, <2>2 DEF NewestShape
    <2>6. DirectionShape'
      BY <1>3, <2>0 DEF DirectionShape, Matches
    <2>7. Effective' = Effective
      BY <1>3, <2>0, <2>1, <2>2, EffectiveQueued
    <2>8. Asked' = Asked /\ Told' = Told /\ Closed' = Closed
      BY <1>0, <1>3 DEF Asked, Told, Closed
    <2> QED BY <1>3, <2>3, <2>4, <2>5, <2>6, <2>7, <2>8 DEF IntentShape, Still, IntentDone
  <1>4. CASE /\ ~Superseded(e) /\ Matches(e)
             /\ turn' = [started EXCEPT !.pc = "adopt"]
             /\ UNCHANGED <<layer, timers, intents, orphans>>
    <2>1. /\ turn'.epoch = e /\ turn'.want = intents[e].want /\ turn'.aborted = FALSE
          /\ turn'.pc = "adopt"
      BY <1>4 DEF NoTurn
    <2> QED BY <1>3, <1>4, <2>1
  <1>5. CASE /\ ~Superseded(e)
             /\ turn' = [started EXCEPT !.pc = "guard"]
             /\ Write([layer EXCEPT !.adoption = 0], FALSE)
             /\ UNCHANGED <<intents, orphans>>
    <2> DEFINE l == [layer EXCEPT !.adoption = 0]
    <2>1. /\ turn'.epoch = e /\ turn'.want = intents[e].want /\ turn'.aborted = FALSE
          /\ turn'.pc = "guard"
      BY <1>5 DEF NoTurn
    <2>2. /\ l \in Entry /\ l.enabled = layer.enabled /\ l.queued = layer.queued
          /\ l.epoch = layer.epoch /\ l.destroying = layer.destroying
      <3>1. 0 \in Epochs /\ layer \in Entry
        BY IntentFacts, BoundsOfTheLayer DEF Epochs
      <3> QED BY <3>1 DEF Entry
    <2>3. Write(l, FALSE)
      BY <1>5
    <2> HIDE DEF l
    <2>4. /\ layer'.enabled = layer.enabled /\ layer'.queued = layer.queued
          /\ layer'.epoch = layer.epoch /\ layer'.destroying = layer.destroying
      BY <1>0, <2>2, <2>3, WriteAlike, WriteQueued DEF Kin
    <2> QED BY <1>3, <1>5, <2>1, <2>4
  <1> QED BY <1>1, <1>2, <1>4, <1>5 DEF StartTurn, e

\* A turn that runs is the newest, or was superseded, and knows it.
LEMMA TurnFacts ==
    ASSUME LayerShape, IntentShape, turn.pc # "idle"
    PROVE  /\ turn.want = intents[turn.epoch].want /\ FALSE \in BOOLEAN /\ TRUE \in BOOLEAN
           /\ UNCHANGED chain => Turns(turn.epoch)
           /\ turn.pc \notin {"idle", "adopt"} /\ ~turn.aborted => turn.epoch = layer.epoch
           /\ turn.pc = "adopt" => layer.enabled = turn.want
           /\ turn.pc \in {"disable", "compEnable", "compDisable"} => ~turn.want
           /\ turn.pc \in {"init", "enable", "update", "cancelDisable", "failDisable"} => turn.want
           /\ layer \in Entry /\ turn \in Turn /\ turn.want \in BOOLEAN
  BY IntentFacts DEF IntentShape, OrderShape, DirectionShape, Turns

LEMMA AdoptIntents == ASSUME LayerShape, IntentShape, Adopt PROVE IntentDone
  <1>0. /\ turn.pc = "adopt" /\ UNCHANGED <<chain, teardown>>
    BY DEF Adopt, TurnOnly
  <1>1. CASE Superseded(turn.epoch)
    <2> DEFINE t == Transit(layer)
               adoption == IF t.adoption = turn.epoch THEN layer.epoch ELSE t.adoption
               l == [t EXCEPT !.adoption = adoption]
    <2>1. EndTurn(turn.epoch, l, "declined", FALSE)
      BY <1>1 DEF Adopt
    <2>2. Kin(layer, t) /\ t.queued = layer.queued
      BY IntentFacts, TransitEntry, WritersQueued
    <2> HIDE DEF t
    <2>3. adoption \in Epochs /\ t \in Entry
      BY <2>2, IntentFacts DEF Kin, Entry
    <2> HIDE DEF adoption
    <2>4. Kin(t, l) /\ l.queued = t.queued
      BY <2>3, AdoptionEntry DEF Entry
    <2> HIDE DEF l
    <2>5. Kin(layer, l) /\ l.queued = layer.queued
      BY <2>2, <2>4 DEF Kin
    <2> QED BY <1>0, <2>1, <2>5, TurnFacts, AnswersDone
  <1>2. CASE ~Superseded(turn.epoch)
    <2>1. EndTurn(turn.epoch, Settled(layer), "granted", FALSE) /\ turn.epoch = layer.epoch
      BY <1>2 DEF Adopt, Superseded
    <2>2. layer.enabled = intents[turn.epoch].want
      BY <1>0, TurnFacts
    <2> QED BY <1>0, <2>1, <2>2, TurnFacts, EndingsQueued, AnswersDone
  <1> QED BY <1>1, <1>2

LEMMA GuardIntents == ASSUME LayerShape, IntentShape, Guard PROVE IntentDone
  <1>0. /\ turn.pc = "guard" /\ UNCHANGED <<chain, teardown>>
    BY DEF Guard
  <1>1. CASE EndTurn(turn.epoch, layer, "declined", FALSE)
    BY <1>0, <1>1, TurnFacts, EndingsQueued, AnswersDone
  <1>2. CASE /\ ~turn.want
             /\ Write([layer EXCEPT !.state = "disabling", !.refreshing = FALSE], FALSE)
             /\ Goto("disable")
    <2> DEFINE l == [layer EXCEPT !.state = "disabling", !.refreshing = FALSE]
    <2>1. /\ l \in Entry /\ l.enabled = layer.enabled /\ l.queued = layer.queued
          /\ l.epoch = layer.epoch /\ l.destroying = layer.destroying
      BY IntentFacts DEF Entry, Phases
    <2>2. Write(l, FALSE)
      BY <1>2
    <2> HIDE DEF l
    <2>3. /\ turn'.epoch = turn.epoch /\ turn'.want = turn.want /\ turn'.aborted = turn.aborted
          /\ turn'.pc = "disable" /\ intents' = intents
      BY <1>2, IntentFacts DEF Goto, Turn
    <2> QED BY <1>0, <1>2, <2>1, <2>2, <2>3, TurnGoesOn DEF IntentDone
  <1>3. CASE /\ turn.want
             /\ Write([layer EXCEPT !.state = "enabling", !.uncertain = @ /\ ~layer.initialized],
                      FALSE)
             /\ turn' = [turn EXCEPT !.pc = IF layer.initialized THEN "enable" ELSE "init",
                                     !.listening = TRUE]
             /\ UNCHANGED <<intents, orphans, updating>>
    <2> DEFINE uncertain == layer.uncertain /\ ~layer.initialized
               pc == IF layer.initialized THEN "enable" ELSE "init"
               l == [layer EXCEPT !.state = "enabling", !.uncertain = uncertain]
    <2>1. uncertain \in BOOLEAN /\ pc \in {"enable", "init"}
      OBVIOUS
    <2>2. Write(l, FALSE) /\ turn' = [turn EXCEPT !.pc = pc, !.listening = TRUE]
      BY <1>3
    <2> HIDE DEF uncertain, pc
    <2>3. /\ turn'.epoch = turn.epoch /\ turn'.want = turn.want /\ turn'.aborted = turn.aborted
          /\ turn'.pc = pc
      BY <2>2, IntentFacts DEF Turn
    <2>4. /\ l \in Entry /\ l.enabled = layer.enabled /\ l.queued = layer.queued
          /\ l.epoch = layer.epoch /\ l.destroying = layer.destroying
      BY <2>1, IntentFacts DEF Entry, Phases
    <2> HIDE DEF l
    <2> QED BY <1>0, <1>3, <2>1, <2>2, <2>3, <2>4, TurnGoesOn DEF IntentDone
  <1> QED BY <1>1, <1>2, <1>3 DEF Guard

\* A call that does not settle the turn.
LEMMA CallIntents ==
    ASSUME LayerShape, IntentShape, TurnOnly, turn.pc \notin {"idle", "adopt"},
           UNCHANGED <<layer, timers, intents>>,
           turn'.epoch = turn.epoch, turn'.want = turn.want, turn'.aborted = turn.aborted,
           turn'.pc \notin {"idle", "adopt"},
           turn'.pc \in {"disable", "compEnable", "compDisable"} => ~turn.want,
           turn'.pc \in {"init", "enable", "update", "cancelDisable", "failDisable"} => turn.want
    PROVE  IntentDone
  <1>1. Write(layer, FALSE) /\ layer \in Entry
    BY WriteSame DEF LayerShape, LayerTypeOK
  <1> QED BY <1>1, TurnGoesOn DEF TurnOnly, IntentDone

LEMMA DisableIntents ==
    ASSUME LayerShape, IntentShape, Disable \/ CompEnable \/ CompDisable PROVE IntentDone
  <1>0. /\ turn.pc \in {"disable", "compEnable", "compDisable"} /\ ~turn.want
        /\ TurnOnly /\ UNCHANGED <<chain, teardown>> /\ turn.pc # "idle"
    BY TurnFacts DEF Disable, CompEnable, CompDisable, TurnOnly
  <1>1. CASE \E pc \in {"compEnable", "compDisable"} : Goto(pc) /\ UNCHANGED <<layer, timers>>
    <2>1. PICK pc \in {"compEnable", "compDisable"} : Goto(pc) /\ UNCHANGED <<layer, timers>>
      BY <1>1
    <2>2. /\ turn'.epoch = turn.epoch /\ turn'.want = turn.want /\ turn'.aborted = turn.aborted
          /\ turn'.pc = pc /\ intents' = intents
      BY <2>1, IntentFacts DEF Goto, Turn
    <2> QED BY <1>0, <2>1, <2>2, CallIntents
  <1>2. CASE /\ ~turn.aborted
             /\ EndTurn(turn.epoch, Settled(Stopped(Confirmed(layer, FALSE))), "granted", FALSE)
    <2>1. turn.epoch = layer.epoch /\ intents[turn.epoch].want = FALSE
      BY <1>0, <1>2, TurnFacts
    <2> QED BY <1>0, <1>2, <2>1, TurnFacts, EndingsQueued, AnswersDone
  <1>3. CASE EndTurn(turn.epoch, Settled(Doubtful(layer)), "declined", FALSE)
    BY <1>0, <1>3, TurnFacts, EndingsQueued, AnswersDone
  <1>4. CASE EndTurn(turn.epoch, Settled(Confirmed(layer, TRUE)), "declined", FALSE)
    BY <1>0, <1>4, TurnFacts, EndingsQueued, AnswersDone
  <1>5. CASE EndTurn(turn.epoch, Stopped(Settled(Confirmed(layer, FALSE))), "declined", FALSE)
    BY <1>0, <1>5, TurnFacts, EndingsQueued, AnswersDone
  <1> QED BY <1>1, <1>2, <1>3, <1>4, <1>5 DEF Disable, CompEnable, CompDisable

\* The cleanups of an enable go on to their disable().
LEMMA CleanupIntents ==
    ASSUME LayerShape, IntentShape, TurnOnly, turn.pc \in {"init", "enable", "update"},
           NEW l \in Entry, l.epoch = layer.epoch, l.queued = layer.queued,
           l.destroying = layer.destroying, l.enabled = layer.enabled,
           Cancelled(l) \/ (l = layer /\ Failed)
    PROVE  IntentDone
  <1>1. Write(Stopped(l), FALSE)
    BY DEF Cancelled, Failed
  <1>2. /\ Stopped(l) \in Entry /\ Stopped(l).epoch = layer.epoch
        /\ Stopped(l).queued = layer.queued /\ Stopped(l).destroying = layer.destroying
        /\ Stopped(l).enabled = layer.enabled
    BY StoppedEntry, WritersQueued DEF Kin
  <1>3. /\ turn'.epoch = turn.epoch /\ turn'.want = turn.want /\ turn'.aborted = turn.aborted
        /\ turn'.pc \in {"cancelDisable", "failDisable"} /\ intents' = intents
    BY IntentFacts DEF Cancelled, Failed, Goto, Turn
  <1>4. turn.want
    BY TurnFacts
  <1> QED BY <1>1, <1>2, <1>3, <1>4, TurnGoesOn DEF TurnOnly, IntentDone

LEMMA EnablingIntents ==
    ASSUME LayerShape, IntentShape, Initialize \/ Enable \/ Update PROVE IntentDone
  <1>0. /\ turn.pc \in {"init", "enable", "update"} /\ turn.pc # "idle" /\ turn.want
        /\ TurnOnly /\ UNCHANGED <<chain, teardown>> /\ layer \in Entry
    BY TurnFacts DEF Initialize, Enable, Update, TurnOnly
  <1>1. CASE Cancelled(layer) \/ Failed
    BY <1>0, <1>1, CleanupIntents
  <1>2. CASE Cancelled([layer EXCEPT !.initialized = TRUE])
    <2> DEFINE l == [layer EXCEPT !.initialized = TRUE]
    <2>1. /\ l \in Entry /\ l.enabled = layer.enabled /\ l.queued = layer.queued
          /\ l.epoch = layer.epoch /\ l.destroying = layer.destroying
      BY <1>0 DEF Entry
    <2>2. Cancelled(l)
      BY <1>2
    <2> HIDE DEF l
    <2> QED BY <1>0, <2>1, <2>2, CleanupIntents
  <1>3. CASE /\ Goto("enable")
             /\ Write([layer EXCEPT !.initialized = TRUE, !.uncertain = FALSE], FALSE)
    <2> DEFINE l == [layer EXCEPT !.initialized = TRUE, !.uncertain = FALSE]
    <2>1. /\ l \in Entry /\ l.enabled = layer.enabled /\ l.queued = layer.queued
          /\ l.epoch = layer.epoch /\ l.destroying = layer.destroying
      BY <1>0 DEF Entry
    <2>2. Write(l, FALSE)
      BY <1>3
    <2> HIDE DEF l
    <2>3. /\ turn'.epoch = turn.epoch /\ turn'.want = turn.want /\ turn'.aborted = turn.aborted
          /\ turn'.pc = "enable" /\ intents' = intents
      BY <1>3, IntentFacts DEF Goto, Turn
    <2> QED BY <1>0, <2>1, <2>2, <2>3, TurnGoesOn DEF IntentDone
  <1>4. CASE Goto("update") /\ UNCHANGED <<layer, timers>>
    <2>1. /\ turn'.epoch = turn.epoch /\ turn'.want = turn.want /\ turn'.aborted = turn.aborted
          /\ turn'.pc = "update" /\ intents' = intents
      BY <1>4, IntentFacts DEF Goto, Turn
    <2> QED BY <1>0, <1>4, <2>1, CallIntents
  <1>5. CASE /\ ~turn.aborted
             /\ EndTurn(turn.epoch, Stopped(Settled(Confirmed(layer, TRUE))), "granted", TRUE)
    <2>1. turn.epoch = layer.epoch /\ intents[turn.epoch].want = TRUE
      BY <1>0, <1>5, TurnFacts
    <2> QED BY <1>0, <1>5, <2>1, TurnFacts, EndingsQueued, AnswersDone
  <1> QED BY <1>1, <1>2, <1>3, <1>4, <1>5 DEF Initialize, Enable, Update, CancelledOrFailed

LEMMA CleanupAnswers ==
    ASSUME LayerShape, IntentShape, CancelDisable \/ FailDisable PROVE IntentDone
  <1>0. turn.pc # "idle" /\ UNCHANGED <<chain, teardown>>
    BY DEF CancelDisable, FailDisable, TurnOnly
  <1>1. CASE EndTurn(turn.epoch, Settled(Confirmed(layer, FALSE)), "declined", FALSE)
    BY <1>0, <1>1, TurnFacts, EndingsQueued, AnswersDone
  <1>2. CASE EndTurn(turn.epoch, Settled(Doubtful(layer)), "declined", FALSE)
    BY <1>0, <1>2, TurnFacts, EndingsQueued, AnswersDone
  <1> QED BY <1>1, <1>2 DEF CancelDisable, FailDisable

LEMMA TurnStepIntents == ASSUME LayerShape, IntentShape, TurnStep PROVE IntentDone
  BY StartTurnIntents, AdoptIntents, GuardIntents, DisableIntents, EnablingIntents,
     CleanupAnswers DEF TurnStep

-----------------------------------------------------------------------------
\* What else happens to the layer.

LEMMA BesideIntents ==
    ASSUME LayerShape, IntentShape, StraySettles \/ Tick \/ RefreshSettles PROVE IntentDone
  <1>0. OrderShape /\ AnswerShape /\ NewestShape /\ DirectionShape /\ layer \in Entry /\ turn \in Turn
    BY IntentFacts DEF IntentShape
  <1>1. UNCHANGED <<intents, chain, teardown>>
    BY DEF StraySettles, Tick, RefreshSettles
  <1>2. /\ layer'.epoch = layer.epoch /\ layer'.queued = layer.queued
        /\ layer'.destroying = layer.destroying /\ layer'.enabled = layer.enabled
        /\ layer'.state = layer.state
    <2>1. CASE layer' = layer
      BY <2>1
    <2>2. CASE Tick
      BY <1>0, <2>2 DEF Tick, Entry
    <2>3. CASE RefreshSettles
      <3> DEFINE refreshing == layer.refreshing /\ ~(layer.present /\ ~layer.destroying /\ layer.enabled)
      <3>1. layer' = [layer EXCEPT !.refreshing = refreshing]
        BY <2>3 DEF RefreshSettles
      <3> HIDE DEF refreshing
      <3> QED BY <1>0, <3>1 DEF Entry
    <2> QED BY <2>1, <2>2, <2>3 DEF StraySettles
  <1>3. /\ turn'.pc = turn.pc /\ turn'.epoch = turn.epoch /\ turn'.want = turn.want
        /\ turn'.aborted = turn.aborted
    BY <1>0 DEF StraySettles, Tick, RefreshSettles, Turn
  <1>4. IntentShape'
    <2>1. OrderShape'
      BY <1>0, <1>1, <1>3 DEF OrderShape
    <2>2. AnswerShape'
      BY <1>0, <1>1, <1>3 DEF AnswerShape, Waits, Runs
    <2>3. NewestShape'
      BY <1>0, <1>1, <1>2, <1>3 DEF NewestShape
    <2>4. DirectionShape'
      BY <1>0, <1>2, <1>3 DEF DirectionShape
    <2> QED BY <2>1, <2>2, <2>3, <2>4 DEF IntentShape
  <1>5. Still
    BY <1>1, <1>2 DEF Still, Asked, Told, Closed, Effective
  <1> QED BY <1>4, <1>5 DEF IntentDone

\* A newer intent: what setEnabled() and destroyLayer() do to the entry and to
\* the turn that runs.
LEMMA SupersedeIntents ==
    ASSUME LayerShape, IntentShape, NEW want \in BOOLEAN, NEW l \in Entry, Supersede(want, l),
           Len(intents) <= MaxRequests, l.epoch = layer.epoch, l.enabled = layer.enabled,
           NEW row \in Intent, intents' = Append(intents, row), row.want = want
    PROVE  /\ layer'.epoch = layer.epoch + 1 /\ layer'.queued = layer'.epoch
           /\ layer'.destroying = l.destroying /\ layer'.enabled = layer.enabled
           /\ turn'.pc = turn.pc /\ turn'.epoch = turn.epoch /\ turn'.want = turn.want
           /\ turn.pc \notin {"idle", "adopt"} => turn'.aborted
           /\ layer'.epoch \in DOMAIN intents' /\ DOMAIN intents \subseteq DOMAIN intents'
           /\ \A i \in DOMAIN intents : intents'[i] = intents[i] /\ i < layer'.epoch
           /\ \A i \in DOMAIN intents' : i \in DOMAIN intents \/ i = layer'.epoch
           /\ intents'[layer'.epoch] = row /\ Effective' = want
           /\ Asked' = Append(Asked, want) /\ Told' = Append(Told, row.answer)
           /\ DirectionShape'
  <1> DEFINE fires == turn.listening /\ ~turn.aborted
             next == l.epoch + 1
             renewed == [l EXCEPT !.epoch = next, !.wanted = want, !.queued = next]
             m == IF fires THEN Stopped(renewed) ELSE renewed
  <1>0. /\ layer \in Entry /\ turn \in Turn /\ intents \in Seq(Intent)
        /\ Len(intents) = layer.epoch /\ layer.epoch \in Nat /\ DOMAIN intents = 1 .. layer.epoch
    BY IntentFacts
  <1>1. next \in Epochs /\ next = layer.epoch + 1 /\ next \in Nat /\ next # 0
    BY <1>0, BoundsOfTheLayer DEF Epochs
  <1>2. Write(m, FALSE)
    BY <1>1 DEF Supersede
  <1>3. /\ turn'.pc = turn.pc /\ turn'.epoch = turn.epoch /\ turn'.want = turn.want
        /\ turn.pc \notin {"idle", "adopt"} => turn'.aborted
    <2>1. CASE turn.pc \in {"idle", "adopt"}
      BY <2>1 DEF Supersede
    <2>2. CASE turn.pc \notin {"idle", "adopt"}
      <3> DEFINE stray == turn.stray \/ fires
      <3>1. turn' = [turn EXCEPT !.aborted = TRUE, !.stray = stray]
        BY <2>2 DEF Supersede
      <3> HIDE DEF stray
      <3> QED BY <1>0, <2>2, <3>1 DEF Turn
    <2> QED BY <2>1, <2>2
  <1> HIDE DEF fires, next
  <1>4. /\ renewed \in Entry /\ renewed.epoch = next /\ renewed.queued = next
        /\ renewed.destroying = l.destroying /\ renewed.enabled = l.enabled
    BY <1>1 DEF Entry
  <1> HIDE DEF renewed
  <1>5. /\ m \in Entry /\ m.epoch = next /\ m.queued = next
        /\ m.destroying = l.destroying /\ m.enabled = l.enabled
    BY <1>4, StoppedEntry, WritersQueued DEF Kin
  <1> HIDE DEF m
  <1>6. /\ layer'.epoch = next /\ layer'.queued = next
        /\ layer'.destroying = l.destroying /\ layer'.enabled = layer.enabled
    BY <1>2, <1>5, WriteAlike, WriteQueued DEF Kin
  <1>7. /\ DOMAIN intents' = 1 .. next
        /\ \A i \in DOMAIN intents : intents'[i] = intents[i]
        /\ intents'[next] = row
        /\ Asked' = Append(Asked, row.want) /\ Told' = Append(Told, row.answer)
    BY <1>0, <1>1, RowAppended
  <1>8. Effective' = want
    BY <1>1, <1>6, <1>7 DEF Effective
  <1>9. DirectionShape'
    <2>1. turn.pc # "idle" => turn.epoch \in 1 .. layer.epoch
      BY <1>0 DEF IntentShape, OrderShape
    <2>2. turn.pc # "idle" => turn.epoch # next
      BY <1>0, <1>1, <2>1
    <2>3. DirectionShape
      BY DEF IntentShape
    <2> QED BY <1>3, <1>6, <2>2, <2>3 DEF DirectionShape
  <1> QED BY <1>0, <1>1, <1>3, <1>6, <1>7, <1>8, <1>9

LEMMA RequestIntents ==
    ASSUME LayerShape, IntentShape, NEW want \in BOOLEAN, Request(want) PROVE IntentDone
  <1> DEFINE row == [want |-> want, answer |-> "pending"]
             n == layer.epoch + 1
  <1>0. /\ OrderShape /\ AnswerShape /\ NewestShape /\ ~layer.destroying /\ layer \in Entry
        /\ layer.epoch \in Nat /\ DOMAIN intents = 1 .. layer.epoch
        /\ chain \in Seq(Epochs \ {0}) /\ Len(chain) \in Nat /\ DOMAIN chain = 1 .. Len(chain)
        /\ \A i \in DOMAIN chain : chain[i] \in DOMAIN intents
        /\ Len(intents) = layer.epoch /\ UNCHANGED teardown
    BY IntentFacts DEF IntentShape, Request
  <1>1. row \in Intent /\ row.want = want /\ row.answer = "pending"
    BY DEF Intent
  <1>2. /\ Supersede(want, layer) /\ intents' = Append(intents, row) /\ chain' = Append(chain, n)
        /\ Len(intents) <= MaxRequests
    BY <1>0, BoundsOfTheLayer DEF Request
  <1> HIDE DEF row
  <1>3. /\ layer'.epoch = n /\ layer'.queued = n
        /\ layer'.destroying = layer.destroying /\ layer'.enabled = layer.enabled
        /\ turn'.pc = turn.pc /\ turn'.epoch = turn.epoch /\ turn'.want = turn.want
        /\ n \in DOMAIN intents' /\ DOMAIN intents \subseteq DOMAIN intents'
        /\ \A i \in DOMAIN intents : intents'[i] = intents[i] /\ i < n
        /\ \A i \in DOMAIN intents' : i \in DOMAIN intents \/ i = n
        /\ intents'[n] = row /\ Effective' = want
        /\ Asked' = Append(Asked, want) /\ Told' = Append(Told, "pending")
        /\ DirectionShape'
    BY <1>0, <1>1, <1>2, SupersedeIntents
  <1>4. n \in Epochs \ {0} /\ n \in Nat
    BY <1>0, <1>2, BoundsOfTheLayer DEF Epochs
  <1> HIDE DEF n
  <1>5. /\ DOMAIN chain' = 1 .. Len(chain) + 1 /\ chain'[Len(chain) + 1] = n
        /\ \A i \in DOMAIN chain : chain'[i] = chain[i]
    BY <1>0, <1>2, <1>4
  <1>6. \A x : (\E i \in DOMAIN chain' : chain'[i] = x) <=> Waits(x) \/ x = n
    <2>1. ASSUME NEW x, NEW i \in DOMAIN chain', chain'[i] = x PROVE Waits(x) \/ x = n
      BY <1>0, <1>5, <2>1 DEF Waits
    <2>2. /\ DOMAIN chain \subseteq DOMAIN chain'
          /\ Len(chain) + 1 \in DOMAIN chain'
      BY <1>0, <1>5
    <2>3. ASSUME NEW x, NEW i \in DOMAIN chain, chain[i] = x
          PROVE  i \in DOMAIN chain' /\ chain'[i] = x
      BY <1>5, <2>2, <2>3
    <2> QED BY <1>5, <2>1, <2>2, <2>3 DEF Waits
  <1>7. OrderShape'
    <2>1. ASSUME NEW i \in DOMAIN chain', NEW j \in DOMAIN chain', i < j
          PROVE  chain'[i] < chain'[j]
      <3>1. i \in DOMAIN chain
        BY <1>0, <1>5, <2>1
      <3>2. CASE j \in DOMAIN chain
        BY <1>0, <1>5, <2>1, <3>1, <3>2 DEF OrderShape
      <3>3. CASE j \notin DOMAIN chain
        <4>1. chain'[j] = n
          BY <1>0, <1>5, <3>3
        <4> QED BY <1>0, <1>3, <1>5, <3>1, <4>1
      <3> QED BY <3>2, <3>3
    <2>2. ASSUME turn'.pc # "idle"
          PROVE  /\ turn'.epoch \in DOMAIN intents'
                 /\ turn'.want = intents'[turn'.epoch].want
                 /\ \A i \in DOMAIN chain' : turn'.epoch < chain'[i]
      <3>1. /\ turn.epoch \in DOMAIN intents /\ turn.want = intents[turn.epoch].want
            /\ \A i \in DOMAIN chain : turn.epoch < chain[i]
        BY <1>0, <1>3, <2>2 DEF OrderShape
      <3>2. turn.epoch \in DOMAIN intents' /\ turn.want = intents'[turn.epoch].want
        BY <1>3, <3>1
      <3>3. ASSUME NEW i \in DOMAIN chain' PROVE turn.epoch < chain'[i]
        <4>1. CASE i \in DOMAIN chain
          BY <1>5, <3>1, <4>1
        <4>2. CASE i \notin DOMAIN chain
          <5>1. i = Len(chain) + 1
            BY <1>0, <1>5, <4>2
          <5> QED BY <1>3, <1>5, <3>1, <5>1
        <4> QED BY <4>1, <4>2
      <3> QED BY <1>3, <3>2, <3>3
    <2> QED BY <2>1, <2>2 DEF OrderShape
  <1>8. AnswerShape'
    <2>1. ASSUME NEW x \in DOMAIN intents'
          PROVE  intents'[x].answer = "pending" <=>
                     (\E i \in DOMAIN chain' : chain'[i] = x) \/ Runs(x)'
      <3>1. Runs(x)' <=> Runs(x)
        BY <1>3 DEF Runs
      <3>2. CASE x = n
        BY <1>1, <1>3, <1>6, <3>2
      <3>3. CASE x # n
        BY <1>0, <1>3, <1>6, <3>1, <3>3 DEF AnswerShape
      <3> QED BY <3>2, <3>3
    <2> QED BY <2>1 DEF AnswerShape, Waits
  <1>9. NewestShape'
    BY <1>0, <1>3 DEF NewestShape
  <1>10. Intents!Ask(want)
    <2>1. ~Closed /\ Closed' = Closed
      BY <1>0, <1>3 DEF Closed, NewestShape
    <2> QED BY <1>3, <2>1 DEF Intents!Ask, Asked, Told, Closed
  <1> HIDE DEF Intents!Ask
  <1>11. Intents!Next
    BY <1>10 DEF Intents!Next
  <1> QED BY <1>3, <1>7, <1>8, <1>9, <1>11 DEF IntentShape, IntentDone

\* The teardown is an intent without a turn.
LEMMA BeginDestroyIntents ==
    ASSUME LayerShape, IntentShape, TeardownShape, BeginDestroy PROVE IntentDone
  <1> DEFINE row == [want |-> FALSE, answer |-> "none"]
             l == [layer EXCEPT !.destroying = TRUE, !.refreshing = FALSE]
             n == layer.epoch + 1
  <1>0. /\ OrderShape /\ AnswerShape /\ NewestShape /\ ~layer.destroying /\ layer \in Entry
        /\ teardown = "no" /\ teardown' = "drain" /\ chain' = chain /\ Len(intents) <= MaxRequests
        /\ \A i \in DOMAIN chain : chain[i] \in DOMAIN intents
        /\ layer.epoch \in Nat
    BY IntentFacts DEF IntentShape, BeginDestroy, TeardownShape
  <1>1. row \in Intent /\ row.want = FALSE /\ row.answer = "none" /\ FALSE \in BOOLEAN
    BY DEF Intent
  <1>2. /\ l \in Entry /\ l.epoch = layer.epoch /\ l.enabled = layer.enabled
        /\ l.destroying = TRUE
    BY <1>0 DEF Entry
  <1>3. Supersede(FALSE, l) /\ intents' = Append(intents, row)
    BY DEF BeginDestroy
  <1> HIDE DEF row, l
  <1>4. /\ layer'.epoch = n /\ layer'.queued = n
        /\ layer'.destroying = TRUE /\ layer'.enabled = layer.enabled
        /\ turn'.pc = turn.pc /\ turn'.epoch = turn.epoch /\ turn'.want = turn.want
        /\ n \in DOMAIN intents' /\ DOMAIN intents \subseteq DOMAIN intents'
        /\ \A i \in DOMAIN intents : intents'[i] = intents[i] /\ i < n
        /\ \A i \in DOMAIN intents' : i \in DOMAIN intents \/ i = n
        /\ intents'[n] = row /\ Effective' = FALSE
        /\ Asked' = Append(Asked, FALSE) /\ Told' = Append(Told, "none")
        /\ DirectionShape'
    BY <1>0, <1>1, <1>2, <1>3, SupersedeIntents
  <1>5. n # 0
    BY <1>0
  <1> HIDE DEF n
  <1>6. OrderShape'
    BY <1>0, <1>4 DEF OrderShape
  <1>7. AnswerShape'
    <2>1. ASSUME NEW x \in DOMAIN intents'
          PROVE  intents'[x].answer = "pending" <=> Waits(x)' \/ Runs(x)'
      <3>1. (Runs(x)' <=> Runs(x)) /\ (Waits(x)' <=> Waits(x))
        BY <1>0, <1>4 DEF Runs, Waits
      <3>2. CASE x = n
        <4>1. n \notin DOMAIN intents
          BY <1>4, <1>0, IntentFacts
        <4>2. ~Waits(n) /\ ~Runs(n)
          BY <1>0, <4>1 DEF Waits, Runs, OrderShape
        <4> QED BY <1>1, <1>4, <3>1, <3>2, <4>2
      <3>3. CASE x # n
        BY <1>0, <1>4, <3>1, <3>3 DEF AnswerShape
      <3> QED BY <3>2, <3>3
    <2> QED BY <2>1 DEF AnswerShape
  <1>8. NewestShape'
    BY <1>0, <1>1, <1>4, <1>5 DEF NewestShape
  <1>9. Intents!Close
    <2>1. ~Closed /\ Closed' = TRUE
      BY <1>0, <1>4 DEF Closed
    <2> QED BY <1>4, <2>1 DEF Intents!Close, Asked, Told, Closed
  <1> HIDE DEF Intents!Close
  <1>10. Intents!Next
    BY <1>9 DEF Intents!Next
  <1> QED BY <1>4, <1>6, <1>7, <1>8, <1>10 DEF IntentShape, IntentDone

\* A teardown that goes on, or gives the layer back, leaves nothing pending.
LEMMA TeardownIntents ==
    ASSUME LayerShape, IntentShape, TeardownShape, TeardownStep PROVE IntentDone
  <1>0. /\ OrderShape /\ AnswerShape /\ NewestShape /\ layer \in Entry
        /\ layer.destroying /\ turn.pc = "idle" /\ chain = <<>>
        /\ UNCHANGED <<intents, chain, turn>> /\ FALSE \in BOOLEAN
        /\ intents \in Seq(Intent) /\ Len(intents) = layer.epoch
    BY IntentFacts DEF IntentShape, TeardownStep, Drained, TeardownDisable, TeardownDestroy,
                       TeardownShape
  <1>1. /\ layer' \in Entry /\ layer'.epoch = layer.epoch
        /\ layer'.queued \in {0, layer.queued}
        /\ layer'.destroying => layer.destroying
        /\ teardown' = "done" => layer'.destroying
    <2>1. CASE Drained
      <3> DEFINE l == [layer EXCEPT !.queued = 0]
      <3>0. 0 \in Epochs
        BY BoundsOfTheLayer DEF Epochs
      <3>1. /\ l \in Entry /\ l.epoch = layer.epoch /\ l.queued = 0
            /\ l.destroying = layer.destroying
        BY <1>0, <3>0 DEF Entry
      <3>2. Write(l, FALSE)
        BY <2>1 DEF Drained
      <3> HIDE DEF l
      <3>3. Kin(l, layer') /\ layer'.queued = l.queued
        BY <1>0, <3>1, <3>2, WriteAlike, WriteQueued
      <3> QED BY <1>0, <3>1, <3>3 DEF Kin
    <2>2. CASE GiveBack
      <3> DEFINE m == [layer EXCEPT !.destroying = FALSE, !.wanted = layer.enabled]
      <3>1. /\ m \in Entry /\ m.epoch = layer.epoch /\ m.queued = layer.queued
            /\ m.destroying = FALSE
        BY <1>0 DEF Entry
      <3>2. Write(Presented(m), FALSE) /\ teardown' = "failed"
        BY <2>2 DEF GiveBack
      <3> HIDE DEF m
      <3>3. Kin(m, Presented(m)) /\ Presented(m).queued = m.queued
        BY <3>1, PresentedEntry, WritersQueued
      <3>4. Kin(Presented(m), layer') /\ layer'.queued = Presented(m).queued
        BY <1>0, <3>2, <3>3, WriteAlike, WriteQueued DEF Kin
      <3> QED BY <3>1, <3>2, <3>3, <3>4 DEF Kin
    <2>3. CASE Write(Stopped([layer EXCEPT !.enabled = FALSE]), FALSE)
      <3> DEFINE m == [layer EXCEPT !.enabled = FALSE]
      <3>1. /\ m \in Entry /\ m.epoch = layer.epoch /\ m.queued = layer.queued
            /\ m.destroying = layer.destroying
        BY <1>0 DEF Entry
      <3>2. Write(Stopped(m), FALSE)
        BY <2>3
      <3> HIDE DEF m
      <3>3. Kin(m, Stopped(m)) /\ Stopped(m).queued = m.queued
        BY <3>1, StoppedEntry, WritersQueued
      <3>4. Kin(Stopped(m), layer') /\ layer'.queued = Stopped(m).queued
        BY <1>0, <3>2, <3>3, WriteAlike, WriteQueued DEF Kin
      <3> QED BY <1>0, <3>1, <3>3, <3>4 DEF Kin
    <2>4. CASE Write([layer EXCEPT !.present = FALSE], FALSE)
      <3> DEFINE m == [layer EXCEPT !.present = FALSE]
      <3>1. /\ m \in Entry /\ m.epoch = layer.epoch /\ m.queued = layer.queued
            /\ m.destroying = layer.destroying
        BY <1>0 DEF Entry
      <3>2. Write(m, FALSE)
        BY <2>4
      <3> HIDE DEF m
      <3>3. Kin(m, layer') /\ layer'.queued = m.queued
        BY <1>0, <3>1, <3>2, WriteAlike, WriteQueued
      <3> QED BY <1>0, <3>1, <3>3 DEF Kin
    <2> QED BY <2>1, <2>2, <2>3, <2>4 DEF TeardownStep, TeardownDisable, TeardownDestroy
  <1>2. OrderShape' /\ AnswerShape'
    BY <1>0 DEF OrderShape, AnswerShape, Waits, Runs
  <1>3. NewestShape'
    BY <1>0, <1>1 DEF NewestShape
  <1>4. DirectionShape'
    BY <1>0 DEF DirectionShape
  <1>5. \A r \in DOMAIN Told : Told[r] # "pending"
    BY <1>0 DEF Told, AnswerShape, Waits, Runs
  <1>6. Effective' \in BOOLEAN /\ layer'.enabled \in BOOLEAN
    <2>1. layer'.queued \in {0, layer'.epoch}
      BY <1>0, <1>1 DEF NewestShape
    <2> QED BY <1>0, <1>1, <2>1, EffectiveType DEF Entry
  <1>7. Closed /\ Closed' \in BOOLEAN /\ Asked' = Asked /\ Told' = Told
    <2>1. layer'.destroying \in BOOLEAN
      BY <1>1 DEF Entry
    <2> QED BY <1>0, <2>1 DEF Closed, Asked, Told
  <1>8. Intents!CloseStep
    BY <1>5, <1>6, <1>7 DEF Intents!CloseStep, Asked, Told, Closed
  <1> HIDE DEF Intents!CloseStep
  <1>9. Intents!Next
    BY <1>8 DEF Intents!Next
  <1> QED BY <1>2, <1>3, <1>4, <1>9 DEF IntentShape, IntentDone

\* The layer is registered, and asked for.
LEMMA CreateDataIntents ==
    ASSUME LayerShape, IntentShape, CreateData, intents = <<>>, turn.pc = "idle",
           ~layer.enabled, ~layer.destroying, teardown = "no"
    PROVE  IntentDone
  <1> DEFINE row == [want |-> TRUE, answer |-> "pending"]
  <1>0. layer.enabled \in BOOLEAN /\ layer.enabled = FALSE
    BY IntentFacts
  <1>1. /\ layer'.epoch = 1 /\ layer'.queued = 1 /\ layer'.destroying = FALSE
        /\ layer'.enabled = FALSE
    BY DEF CreateData, Registered
  <1>2. UNCHANGED <<turn, teardown>> /\ chain' = <<1>> /\ intents' = <<row>>
    BY DEF CreateData
  <1>3. row \in Intent /\ row.want = TRUE /\ row.answer = "pending"
    BY DEF Intent
  <1> HIDE DEF row
  <1>4. /\ intents' = Append(intents, row) /\ intents \in Seq(Intent) /\ Len(intents) = 0
        /\ DOMAIN intents' = 1 .. 1 /\ intents'[1] = row
        /\ DOMAIN chain' = 1 .. 1 /\ chain'[1] = 1
    BY <1>2
  <1>5. Asked' = Append(Asked, TRUE) /\ Told' = Append(Told, "pending")
    BY <1>3, <1>4, RowAppended
  <1>6. Effective' = TRUE
    BY <1>1, <1>3, <1>4 DEF Effective
  <1>7. OrderShape'
    BY <1>2, <1>4 DEF OrderShape
  <1>8. AnswerShape'
    <2>1. DOMAIN intents' = {1}
      BY <1>4
    <2>2. \E i \in DOMAIN chain' : chain'[i] = 1
      BY <1>4
    <2> QED BY <1>3, <1>4, <2>1, <2>2 DEF AnswerShape, Waits, Runs
  <1>9. NewestShape' /\ DirectionShape'
    BY <1>1, <1>2 DEF NewestShape, DirectionShape
  <1>10. Intents!Ask(TRUE)
    <2>1. ~Closed /\ Closed' = Closed
      BY <1>1, <1>2 DEF Closed
    <2> QED BY <1>0, <1>1, <1>5, <1>6, <2>1 DEF Intents!Ask, Asked, Told, Closed
  <1> HIDE DEF Intents!Ask
  <1>11. Intents!Next
    BY <1>10 DEF Intents!Next
  <1> QED BY <1>7, <1>8, <1>9, <1>11 DEF IntentShape, IntentDone

\* Before the layer is registered nothing was asked for.
EmptyShape == built < 3 => intents = <<>>

IntentInv == SessionInv /\ IntentShape /\ EmptyShape

LEMMA IntentInit == Init => IntentInv /\ Intents!Init
  <1> SUFFICES ASSUME Init PROVE IntentInv /\ Intents!Init
    OBVIOUS
  <1>1. /\ intents = <<>> /\ chain = <<>> /\ turn.pc = "idle" /\ teardown = "no"
        /\ layer.epoch = 0 /\ layer.queued = 0 /\ layer.enabled = FALSE
        /\ layer.destroying = FALSE /\ layer.state = "disabled"
    BY DEF Init, LayerInit, Registered, NoTurn
  <1>2. DOMAIN intents = {} /\ DOMAIN chain = {}
    BY <1>1
  <1>3. IntentShape
    BY <1>1, <1>2 DEF IntentShape, OrderShape, AnswerShape, NewestShape, DirectionShape
  <1>4. Effective = FALSE /\ Closed = FALSE
    BY <1>1 DEF Effective, Closed
  <1>5. Asked = <<>> /\ Told = <<>>
    BY <1>2 DEF Asked, Told
  <1>6. Intents!Init
    BY <1>1, <1>4, <1>5 DEF Intents!Init, Asked, Told, Closed
  <1> QED BY <1>1, <1>3, <1>6, SessionInit DEF IntentInv, EmptyShape

LEMMA IntentStays ==
    ASSUME IntentShape, UNCHANGED <<layer, intents, chain, turn, teardown>>
    PROVE  IntentDone
  <1>1. OrderShape' /\ AnswerShape' /\ NewestShape' /\ DirectionShape'
    BY DEF IntentShape, OrderShape, AnswerShape, NewestShape, DirectionShape, Waits, Runs
  <1>2. Still
    BY DEF Still, Asked, Told, Closed, Effective
  <1> QED BY <1>1, <1>2 DEF IntentShape, IntentDone

LEMMA IntentStep == ASSUME IntentInv, [Next]_vars PROVE IntentDone /\ EmptyShape'
  <1>0. /\ LayerShape /\ TeardownShape /\ PristineShape /\ IntentShape /\ EmptyShape
        /\ built \in 1 .. 4
    BY Orders DEF IntentInv, SessionInv, AppTypeOK
  <1>1. CASE TurnStep /\ UNCHANGED appVars
    <2>1. IntentDone
      BY <1>0, <1>1, TurnStepIntents
    <2>2. ~(built < 3) /\ built' = built
      BY <1>0, <1>1, TurnStepNeeds DEF PristineShape, appVars
    <2> QED BY <2>1, <2>2 DEF EmptyShape
  <1>2. CASE (StraySettles \/ Tick \/ RefreshSettles) /\ UNCHANGED appVars
    <2>1. IntentDone
      BY <1>0, <1>2, BesideIntents
    <2>2. UNCHANGED <<built, intents>>
      BY <1>2 DEF appVars, StraySettles, Tick, RefreshSettles
    <2> QED BY <1>0, <2>1, <2>2 DEF EmptyShape
  <1>3. CASE TeardownStep /\ UNCHANGED appVars
    <2>1. IntentDone
      BY <1>0, <1>3, TeardownIntents
    <2>2. UNCHANGED <<built, intents>>
      BY <1>3 DEF appVars, TeardownStep, Drained, TeardownDisable, TeardownDestroy
    <2> QED BY <1>0, <2>1, <2>2 DEF EmptyShape
  <1>4. CASE (\E want \in BOOLEAN : Request(want)) /\ UNCHANGED appVars
    <2>1. IntentDone
      BY <1>0, <1>4, RequestIntents
    <2>2. ~(built < 3) /\ built' = built
      BY <1>0, <1>4 DEF PristineShape, Request, appVars
    <2> QED BY <2>1, <2>2 DEF EmptyShape
  <1>5. CASE BeginDestroy /\ UNCHANGED built
    <2>1. IntentDone
      BY <1>0, <1>5, BeginDestroyIntents
    <2>2. ~(built < 3)
      BY <1>0, <1>5 DEF PristineShape, BeginDestroy
    <2> QED BY <1>5, <2>1, <2>2 DEF EmptyShape
  <1>6. CASE UNCHANGED layerVars /\ built' \in {built, built + 1}
    <2>1. IntentDone
      BY <1>0, <1>6, IntentStays DEF layerVars
    <2>2. built' < 3 => built < 3
      BY <1>0, <1>6
    <2> QED BY <1>0, <1>6, <2>1, <2>2 DEF layerVars, EmptyShape
  <1>7. CASE CreateData /\ built = 2 /\ built' = 3
    <2>1. /\ intents = <<>> /\ turn.pc = "idle" /\ ~layer.enabled /\ ~layer.destroying
          /\ teardown = "no"
      BY <1>0, <1>7 DEF PristineShape, TeardownShape, EmptyShape
    <2>2. IntentDone
      BY <1>0, <1>7, <2>1, CreateDataIntents
    <2> QED BY <1>7, <2>2 DEF EmptyShape
  <1>8. CASE PhaseFails
    <2>1. UNCHANGED <<layer, intents, chain, turn, teardown, built>>
      BY <1>8 DEF PhaseFails
    <2> QED BY <1>0, <2>1, IntentStays DEF EmptyShape
  <1>9. PhaseBuilt => \/ UNCHANGED layerVars /\ built' \in {built, built + 1}
                      \/ CreateData /\ built = 2 /\ built' = 3
    BY <1>0, Orders DEF PhaseBuilt
  <1>10. Cleanup => \/ UNCHANGED layerVars /\ built' \in {built, built + 1}
                    \/ BeginDestroy /\ UNCHANGED built
    BY DEF Cleanup
  <1>11. CleanupEnds \/ DestroyEnds \/ Destroy \/ UNCHANGED vars =>
             UNCHANGED layerVars /\ built' \in {built, built + 1}
    BY DEF CleanupEnds, DestroyEnds, Destroy, vars, appVars
  <1> QED BY <1>1, <1>2, <1>3, <1>4, <1>5, <1>6, <1>7, <1>8, <1>9, <1>10, <1>11
          DEF Next, UserRequest, TurnRuns, CleanupSettles, RefreshRuns, TeardownRuns, AppStep

LEMMA IntentAlways == Spec => []IntentInv
  <1>1. IntentInv /\ [Next]_vars => IntentInv'
    BY SessionStep, IntentStep DEF IntentInv, IntentDone
  <1> QED BY IntentInit, <1>1, PTL DEF Spec

\* setEnabled(), the queue, _doToggle and destroyLayer() implement
\* VisibilityIntents, for any number of requests and refused calls: only the
\* newest request is granted, and then the layer is as it asked; none is answered
\* twice; a superseded one that ends does not show; and a layer that a failed
\* teardown gives back has nothing pending.
THEOREM IntentsAreRefined == Spec => IntentsRefine
  <1>1. Init => Intents!Init
    BY IntentInit
  <1>2. IntentInv /\ [Next]_vars => [Intents!Next]_(Intents!intentVars)
    <2> SUFFICES ASSUME IntentInv, [Next]_vars
                 PROVE  [Intents!Next]_(Intents!intentVars)
      OBVIOUS
    <2>1. Still \/ Intents!Next
      BY IntentStep DEF IntentDone
    <2> HIDE DEF Intents!Next
    <2> QED BY <2>1 DEF Still, Asked, Told, Closed, Intents!intentVars
  <1> QED BY <1>1, <1>2, IntentAlways, PTL DEF Spec, IntentsRefine, Intents!Spec
=============================================================================
